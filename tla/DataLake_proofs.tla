---- MODULE DataLake_proofs ----
(***************************************************************************)
(* Theorems about the data lake: the commands that write it (DataLake) for *)
(* any number of series, dates, bars, commands and crashes, and those that *)
(* read it and plan its downloads (LocalLake, DataQuality) for any number  *)
(* of symbols, times, files and requests.                                  *)
(*                                                                         *)
(* Three arguments about the commands share what a command holds at its    *)
(* steps (Held) and that the path of a downloaded file determines its rows *)
(* (PartsSound).                                                           *)
(* RecountInv follows a rebuild: the files already registered are those    *)
(* the coverage rows add up to, the others are still to be visited.        *)
(* TruthInv says which rows of data_files may differ from the disk while   *)
(* a command runs and no process has crashed.  KeepInv says where the      *)
(* recorded bars are while files are written, merged and deleted.          *)
(*                                                                         *)
(* About the readers there are two more.  The loops of the code are folds: *)
(* a fold goes through one state for each element (FoldTable), and what    *)
(* each step keeps, its end has.  PagingInv says that what a client has    *)
(* not been given yet stands behind its offset.                            *)
(***************************************************************************)
EXTENDS DataLake, DataQuality, FiniteSetTheorems, WellFoundedInduction, SequenceTheorems, TLAPS

CoverageRows == [lo : 0 .. NDates, hi : 0 .. NDates, files : Nat]

\* What the row of a series says when it counts exactly the entries S.
CountsExactly(row, S) ==
  IF S = {} THEN row.files = 0
  ELSE /\ row.files = Cardinality(S)
       /\ IsLeast(row.lo, {FirstDate(e[1]) : e \in S})
       /\ IsGreatest(row.hi, {LastDate(e[1]) : e \in S})

\* An entry of data_files describes the file.
IsTrue(e) == disk[e[2]] = e[1]

\* The command that is at a step.
Steps ==
  \/ cmd = "none" /\ pc = "idle"
  \/ cmd = "download" /\ pc \in {"write", "insert", "drop", "put"}
  \/ cmd = "rebuild" /\ pc \in {"clear", "clear files", "next", "insert", "drop", "put"}
  \/ cmd = "compact" /\ pc \in {"group", "write", "unlink",
                                "clear", "clear files", "next", "insert", "drop", "put"}
  \/ cmd = "cleanup" /\ pc = "delete"

Merging    == cmd = "compact" /\ pc \in {"group", "write", "unlink"}
Recounting == cmd # "download" /\ pc \in {"next", "insert", "drop", "put"}

Held ==
  /\ Steps
  /\ IsFiniteSet(index)
  /\ pc = "write" => at \in Paths /\ rows \in Rows
  /\ pc \in {"clear", "clear files", "next", "insert", "drop", "put"} => scan \subseteq Readable
  /\ pc \in {"drop", "put"} => at \in scan
  /\ cmd = "download" /\ pc = "write" => at \in PartPaths /\ rows = at[3] /\ scan = {at}
  /\ cmd = "compact" /\ pc = "write" => at \in CompactPaths
  /\ Merging => plan \subseteq Groups

PartsSound ==
  /\ \A p \in PartPaths : disk[p] \in {NoFile, Torn, p[3]}
  /\ \A e \in index : e[2] \in PartPaths => e[1] = e[2][3]

RecountInv ==
  /\ pc \in {"clear", "clear files"} => scan = Readable
  /\ pc = "clear files" => \A s \in Series : coverage[s] = NoCoverage
  /\ Recounting =>
       /\ \A e \in index : IsTrue(e)
       /\ Readable \subseteq Registered \union scan
  /\ pc = "next" \/ (pc = "insert" /\ Recounting) =>
       /\ scan \intersect Registered = {}
       /\ \A s \in Series : CoverageConsistent(s)
  /\ pc \in {"drop", "put"} /\ Recounting =>
       /\ scan \intersect Registered \subseteq {at}
       /\ <<disk[at], at>> \in index
       /\ \A s \in Series \ {SeriesOf(at)} : CoverageConsistent(s)
  /\ pc = "drop" /\ Recounting =>
       CountsExactly(coverage[SeriesOf(at)], Sources(SeriesOf(at)) \ {<<disk[at], at>>})
  /\ pc = "put" /\ Recounting =>
       CountsExactly(merged, Sources(SeriesOf(at)))
  /\ RebuildRestoresIndex

TruthInv ==
  crashes = 0 =>
    /\ pc = "idle" \/ cmd = "cleanup" \/ (cmd = "download" /\ pc # "write") =>
         \A e \in index : IsTrue(e)
    /\ cmd = "download" /\ pc = "write" => \A e \in index : IsTrue(e) \/ e[2] = at
    /\ pc = "delete" => scan \intersect Registered = {}
    /\ Merging =>
         /\ \A e \in index : SeriesOf(e[2]) \in plan => IsTrue(e)
         /\ pc = "write" => SeriesOf(at) \notin plan
         /\ pc # "group" => \A p \in scan : SeriesOf(p) \notin plan

\* A file holds the bar of a recorded date.
Holds(p, a) == SeriesOf(p) = a[1] /\ a[2] \in DOMAIN disk[p]

KeepInv ==
  ~reckless =>
    /\ \A a \in acked :
         \/ \E p \in Readable : Holds(p, a)
         \/ cmd = "download" /\ pc = "write" /\ SeriesOf(at) = a[1] /\ a[2] \in DOMAIN rows
    /\ Merging => \A s \in plan : disk[OutputPath(s)] = NoFile
    /\ cmd = "compact" /\ pc = "write" =>
         /\ at \notin Readable
         /\ scan \subseteq Readable
         /\ SeriesOf(at) \notin plan
         /\ \A p \in scan : SeriesOf(p) = SeriesOf(at) /\ DOMAIN disk[p] \subseteq DOMAIN rows
    /\ pc = "unlink" =>
         /\ scan \subseteq Readable
         /\ \E q \in Readable \ scan :
              /\ SeriesOf(q) \notin plan
              /\ \A p \in scan : SeriesOf(p) = SeriesOf(q) /\ DOMAIN disk[p] \subseteq DOMAIN disk[q]
    /\ pc = "delete" => scan \intersect Readable = {}

LakeInv == TypeOK /\ Held /\ PartsSound /\ RecountInv /\ TruthInv /\ KeepInv
----
(***************************************************************************)
(* Dates, rows and paths.                                                  *)
(***************************************************************************)
LEMMA Markers == /\ NDates \in Nat \ {0}
                 /\ NoFile \notin Rows /\ Torn \notin Rows /\ Torn # NoFile
BY LakeAssumption

\* A finite set of numbers has a least and a greatest element: the one with the
\* fewest below it, and the one with the fewest above it.
LEMMA LeastExists ==
  ASSUME NEW S \in SUBSET Int, IsFiniteSet(S), S # {}
  PROVE  \E x : IsLeast(x, S)
<1> DEFINE Below(x) == {y \in S : y < x}
           Belows == {Below(x) : x \in S}
<1>0. S \subseteq Int
  OBVIOUS
<1>1. Belows \subseteq FiniteSubsetsOf(S) /\ Belows # {}
  <2>1. \A x \in S : Below(x) \subseteq S
    OBVIOUS
  <2>2. FiniteSubsetsOf(S) = SUBSET S
    BY FS_FiniteSubsetsOfFinite
  <2>3. Belows \subseteq SUBSET S
    BY ONLY <2>1
  <2>4. Belows # {}
    OBVIOUS
  <2> QED BY <2>2, <2>3, <2>4
<1>2. IsWellFoundedOn(StrictSubsetOrdering(S), FiniteSubsetsOf(S))
  BY FS_StrictSubsetOrderingWellFounded
<1> HIDE DEF Belows
<1>3. PICK B \in Belows : \A C \in Belows : <<C, B>> \notin StrictSubsetOrdering(S)
  BY <1>1, <1>2, WFMin
<1> USE DEF Belows
<1>4. PICK x \in S : B = Below(x)
  BY <1>3
<1>5. ASSUME NEW y \in S, y < x PROVE FALSE
  <2>0. x \in Int /\ y \in Int
    BY <1>0
  <2>1. y \in Below(x) /\ y \notin Below(y)
    BY <1>5, <2>0
  <2>4. \A z \in Below(y) : z \in Below(x)
    BY <1>0, <1>5, <2>0
  <2>2. <<Below(y), Below(x)>> \in StrictSubsetOrdering(S)
    BY <2>1, <2>4 DEF StrictSubsetOrdering
  <2>3. Below(y) \in Belows
    OBVIOUS
  <2> QED BY <1>3, <1>4, <2>2, <2>3
<1>6. \A y \in S : x <= y
  BY <1>5
<1> QED BY <1>6 DEF IsLeast

LEMMA GreatestExists ==
  ASSUME NEW S \in SUBSET Int, IsFiniteSet(S), S # {}
  PROVE  \E x : IsGreatest(x, S)
<1> DEFINE Above(x) == {y \in S : x < y}
           Aboves == {Above(x) : x \in S}
<1>0. S \subseteq Int
  OBVIOUS
<1>1. Aboves \subseteq FiniteSubsetsOf(S) /\ Aboves # {}
  <2>1. \A x \in S : Above(x) \subseteq S
    OBVIOUS
  <2>2. FiniteSubsetsOf(S) = SUBSET S
    BY FS_FiniteSubsetsOfFinite
  <2>3. Aboves \subseteq SUBSET S
    BY ONLY <2>1
  <2>4. Aboves # {}
    OBVIOUS
  <2> QED BY <2>2, <2>3, <2>4
<1>2. IsWellFoundedOn(StrictSubsetOrdering(S), FiniteSubsetsOf(S))
  BY FS_StrictSubsetOrderingWellFounded
<1> HIDE DEF Aboves
<1>3. PICK B \in Aboves : \A C \in Aboves : <<C, B>> \notin StrictSubsetOrdering(S)
  BY <1>1, <1>2, WFMin
<1> USE DEF Aboves
<1>4. PICK x \in S : B = Above(x)
  BY <1>3
<1>5. ASSUME NEW y \in S, x < y PROVE FALSE
  <2>0. x \in Int /\ y \in Int
    BY <1>0
  <2>1. y \in Above(x) /\ y \notin Above(y)
    BY <1>5, <2>0
  <2>4. \A z \in Above(y) : z \in Above(x)
    BY <1>0, <1>5, <2>0
  <2>2. <<Above(y), Above(x)>> \in StrictSubsetOrdering(S)
    BY <2>1, <2>4 DEF StrictSubsetOrdering
  <2>3. Above(y) \in Aboves
    OBVIOUS
  <2> QED BY <1>3, <1>4, <2>2, <2>3
<1>6. \A y \in S : y <= x
  BY <1>5
<1> QED BY <1>6 DEF IsGreatest

LEMMA DatesAreFinite ==
  ASSUME NEW S \in SUBSET Dates
  PROVE  S \in SUBSET Int /\ IsFiniteSet(S)
<1>1. IsFiniteSet(Dates) /\ Dates \subseteq Int
  BY Markers, FS_Interval DEF Dates
<1> QED BY <1>1, FS_Subset

LEMMA RowsType ==
  ASSUME NEW r \in Rows
  PROVE  /\ DOMAIN r \in SUBSET Dates /\ DOMAIN r # {}
         /\ r \in [DOMAIN r -> Bars]
<1>1. PICK D \in (SUBSET Dates) \ {{}} : r \in [D -> Bars]
  BY DEF Rows
<1>2. DOMAIN r = D
  BY <1>1
<1>3. r \in [DOMAIN r -> Bars]
  BY <1>1, <1>2
<1>4. D \subseteq Dates /\ D # {}
  OBVIOUS
<1> QED BY <1>2, <1>3, <1>4

LEMMA FirstDateType ==
  ASSUME NEW r \in Rows
  PROVE  FirstDate(r) \in Dates /\ IsLeast(FirstDate(r), DOMAIN r)
<1>1. IsLeast(FirstDate(r), DOMAIN r)
  BY RowsType, DatesAreFinite, LeastExists DEF FirstDate, IsLeast
<1> QED BY <1>1, RowsType DEF IsLeast

LEMMA LastDateType ==
  ASSUME NEW r \in Rows
  PROVE  LastDate(r) \in Dates /\ IsGreatest(LastDate(r), DOMAIN r)
<1>1. IsGreatest(LastDate(r), DOMAIN r)
  BY RowsType, DatesAreFinite, GreatestExists DEF LastDate, IsGreatest
<1> QED BY <1>1, RowsType DEF IsGreatest

LEMMA PathsType ==
  /\ \A s \in Series, r \in Rows :
       /\ <<"part", s, r>> \in PartPaths /\ <<"part", s, r>> \in Paths
       /\ <<"part", s, r>>[3] = r /\ SeriesOf(<<"part", s, r>>) = s
  /\ \A p \in PartPaths : p[3] \in Rows /\ p \in Paths /\ p \notin CompactPaths
  /\ \A p \in CompactPaths : p \in Paths
  /\ \A p \in Paths : SeriesOf(p) \in Series
<1>1. \A p \in PartPaths : p[1] = "part" /\ p[2] \in Series /\ p[3] \in Rows
  BY DEF PartPaths
<1>2. \A p \in CompactPaths : p[1] = "compact" /\ p[2] \in Series
  BY DEF CompactPaths
<1>3. "part" # "compact"
  OBVIOUS
<1>4. \A s \in Series, r \in Rows : <<"part", s, r>> \in PartPaths
  BY DEF PartPaths
<1> QED BY <1>1, <1>2, <1>3, <1>4 DEF Paths, SeriesOf

\* The files that can be read are those that hold rows.
LEMMA ReadableHoldsRows ==
  ASSUME disk \in [Paths -> Rows \union {NoFile, Torn}]
  PROVE  \A p : p \in Readable <=> p \in Paths /\ disk[p] \in Rows
BY Markers DEF Readable, OnDisk
----
(***************************************************************************)
(* The row of a series that counts files one by one.                       *)
(***************************************************************************)
LEMMA MergeType ==
  ASSUME NEW row \in CoverageRows, NEW r \in Rows
  PROVE  MergeCoverage(row, r) \in CoverageRows
<1>1. FirstDate(r) \in 0 .. NDates /\ LastDate(r) \in 0 .. NDates
  BY FirstDateType, LastDateType, Markers DEF Dates
<1>2. row.files + 1 \in Nat
  BY DEF CoverageRows
<1> QED BY <1>1, <1>2 DEF MergeCoverage, CoverageRows

LEMMA MergeCounts ==
  ASSUME NEW row \in CoverageRows, NEW S \in SUBSET (Rows \X Paths), NEW e \in Rows \X Paths,
         IsFiniteSet(S), e \notin S, CountsExactly(row, S)
  PROVE  CountsExactly(MergeCoverage(row, e[1]), S \union {e})
<1> DEFINE f == FirstDate(e[1])
           l == LastDate(e[1])
           Firsts == {FirstDate(x[1]) : x \in S}
           Lasts  == {LastDate(x[1]) : x \in S}
           new == MergeCoverage(row, e[1])
<1>1. f \in Dates /\ l \in Dates
  BY FirstDateType, LastDateType
<1>2. Firsts \subseteq Dates /\ Lasts \subseteq Dates
  BY FirstDateType, LastDateType
<1>3. /\ {FirstDate(x[1]) : x \in S \union {e}} = Firsts \union {f}
      /\ {LastDate(x[1]) : x \in S \union {e}} = Lasts \union {l}
  OBVIOUS
<1>4. Cardinality(S \union {e}) = Cardinality(S) + 1 /\ Cardinality(S) \in Nat
  BY FS_AddElement, FS_CardinalityType
<1> HIDE DEF f, l, Firsts, Lasts
<1>5. CASE S = {}
  <2>1. row.files = 0 /\ Cardinality(S) = 0 /\ Firsts = {} /\ Lasts = {}
    BY <1>5, FS_EmptySet DEF CountsExactly, Firsts, Lasts
  <2>2. new = [lo |-> f, hi |-> l, files |-> 1]
    BY <2>1 DEF MergeCoverage, f, l
  <2>3. IsLeast(new.lo, Firsts \union {f}) /\ IsGreatest(new.hi, Lasts \union {l})
    BY <1>1, <2>1, <2>2, Markers DEF IsLeast, IsGreatest, Dates
  <2>4. new.files = Cardinality(S \union {e})
    BY <1>4, <2>1, <2>2
  <2> QED BY <1>3, <2>3, <2>4 DEF CountsExactly
<1>6. CASE S # {}
  <2>1. /\ row.files = Cardinality(S)
        /\ IsLeast(row.lo, Firsts) /\ IsGreatest(row.hi, Lasts)
    BY <1>6 DEF CountsExactly, Firsts, Lasts
  <2>2. row.files # 0
    BY <1>6, <2>1, FS_EmptySet
  <2>3. new = [lo |-> IF f < row.lo THEN f ELSE row.lo, hi |-> IF l > row.hi THEN l ELSE row.hi,
               files |-> row.files + 1]
    BY <2>2 DEF MergeCoverage, f, l
  <2>4. row.lo \in Dates /\ row.hi \in Dates
    BY <1>2, <2>1 DEF IsLeast, IsGreatest
  <2>5. IsLeast(new.lo, Firsts \union {f})
    BY <1>1, <1>2, <2>1, <2>3, <2>4, Markers DEF IsLeast, Dates
  <2>6. IsGreatest(new.hi, Lasts \union {l})
    BY <1>1, <1>2, <2>1, <2>3, <2>4, Markers DEF IsGreatest, Dates
  <2>7. new.files = Cardinality(S \union {e})
    BY <1>4, <2>1, <2>3
  <2> QED BY <1>3, <2>5, <2>6, <2>7 DEF CountsExactly
<1> QED BY <1>5, <1>6
----
(***************************************************************************)
(* What a compaction reads and writes.                                     *)
(***************************************************************************)
LEMMA SourcesType ==
  ASSUME index \in SUBSET (Rows \X Paths), IsFiniteSet(index), NEW s
  PROVE  /\ Sources(s) \in SUBSET (Rows \X Paths)
         /\ IsFiniteSet(Sources(s))
         /\ \A e \in Sources(s) : e \in index /\ SeriesOf(e[2]) = s
<1>1. Sources(s) \subseteq index
  BY DEF Sources
<1>2. IsFiniteSet(Sources(s))
  BY <1>1, FS_Subset
<1> QED BY <1>1, <1>2 DEF Sources

LEMMA GroupHasSources ==
  ASSUME index \in SUBSET (Rows \X Paths), IsFiniteSet(index), NEW s \in Groups
  PROVE  s \in Series /\ Sources(s) # {}
<1>1. s \in Series /\ Cardinality(Sources(s)) >= 2
  BY DEF Groups
<1> QED BY <1>1, FS_EmptySet

LEMMA OutputPathType ==
  ASSUME index \in SUBSET (Rows \X Paths), NEW s \in Series, Sources(s) # {}
  PROVE  OutputPath(s) \in CompactPaths /\ SeriesOf(OutputPath(s)) = s
<1> DEFINE first == {FirstDate(e[1]) : e \in Sources(s)}
           final == {LastDate(e[1]) : e \in Sources(s)}
<1>1. Sources(s) \subseteq Rows \X Paths
  BY DEF Sources
<1>2. \A e \in Sources(s) : FirstDate(e[1]) \in Dates /\ LastDate(e[1]) \in Dates
  BY <1>1, FirstDateType, LastDateType
<1>3. first \in SUBSET Dates /\ first # {} /\ final \in SUBSET Dates /\ final # {}
  BY <1>2
<1> HIDE DEF first, final
<1>4. (CHOOSE lo \in first : IsLeast(lo, first)) \in Dates
  BY <1>3, DatesAreFinite, LeastExists DEF IsLeast
<1>5. (CHOOSE hi \in final : IsGreatest(hi, final)) \in Dates
  BY <1>3, DatesAreFinite, GreatestExists DEF IsGreatest
<1>6. OutputPath(s) = <<"compact", s, CHOOSE lo \in first : IsLeast(lo, first),
                                      CHOOSE hi \in final : IsGreatest(hi, final)>>
  BY DEF OutputPath, first, final
<1> QED BY <1>4, <1>5, <1>6 DEF CompactPaths, SeriesOf

\* The rows of a compacted file have the dates of the sources.
LEMMA DeduplicatedType ==
  ASSUME NEW S, IsFiniteSet(S), S # {}, \A e \in S : disk[e[2]] \in Rows, NEW pos \in Orders(S)
  PROVE  /\ Deduplicated(S, pos) \in Rows
         /\ \A e \in S : DOMAIN disk[e[2]] \subseteq DOMAIN Deduplicated(S, pos)
<1> DEFINE D == UNION {DOMAIN disk[e[2]] : e \in S}
           Holders(d) == {e \in S : d \in DOMAIN disk[e[2]]}
           Final(d) == CHOOSE e \in Holders(d) : \A f \in Holders(d) : pos[f] <= pos[e]
<1>1. Deduplicated(S, pos) = [d \in D |-> disk[Final(d)[2]][d]]
  BY DEF Deduplicated
<1>2. \A e \in S : disk[e[2]] \in [DOMAIN disk[e[2]] -> Bars] /\ DOMAIN disk[e[2]] \in SUBSET Dates
                   /\ DOMAIN disk[e[2]] # {}
  BY RowsType
<1>3. D \in SUBSET Dates /\ D # {}
  BY <1>2
<1>4. pos \in [S -> 1 .. Cardinality(S)] /\ Cardinality(S) \in Nat
  BY FS_CardinalityType DEF Orders, Bijection, Injection
<1>5. ASSUME NEW d \in D PROVE disk[Final(d)[2]][d] \in Bars
  <2> DEFINE Places == {pos[e] : e \in Holders(d)}
  <2>1. Places \subseteq 1 .. Cardinality(S) /\ Places # {}
    BY <1>4
  <2>2. IsFiniteSet(Places) /\ Places \subseteq Int
    <3>1. IsFiniteSet(1 .. Cardinality(S)) /\ 1 .. Cardinality(S) \subseteq Int
      BY <1>4, FS_Interval
    <3> HIDE DEF Places
    <3> QED BY <2>1, <3>1, FS_Subset
  <2> HIDE DEF Places
  <2>3. PICK n : IsGreatest(n, Places)
    BY <2>1, <2>2, GreatestExists
  <2>4. n \in Places /\ \A m \in Places : m <= n
    BY <2>3 DEF IsGreatest
  <2>5. PICK e \in Holders(d) : n = pos[e]
    BY <2>4 DEF Places
  <2>6. \A f \in Holders(d) : pos[f] <= pos[e]
    BY <2>4, <2>5 DEF Places
  <2>7. Final(d) \in Holders(d)
    BY <2>6
  <2> QED BY <1>2, <2>7
<1> HIDE DEF D, Final, Holders
<1>6. Deduplicated(S, pos) \in [D -> Bars]
  BY <1>1, <1>5
<1>7. Deduplicated(S, pos) \in Rows
  BY <1>3, <1>6 DEF Rows
<1>8. DOMAIN Deduplicated(S, pos) = D
  BY <1>1
<1> QED BY <1>7, <1>8 DEF D
----
(***************************************************************************)
(* Types and what a command holds.                                         *)
(***************************************************************************)
DiskType  == disk \in [Paths -> Rows \union {NoFile, Torn}]
IndexType == index \in SUBSET (Rows \X Paths) /\ IsFiniteSet(index)
LocalType ==
  /\ scan \in SUBSET Paths
  /\ plan \in SUBSET Series
  /\ at \in Paths \union {NoFile}
  /\ rows \in Rows \union {NoFile}
  /\ merged \in CoverageRows

StatusType ==
  /\ pc \in {"idle", "write", "insert", "drop", "put", "next", "clear", "clear files",
             "group", "unlink", "delete"}
  /\ cmd \in {"none", "download", "rebuild", "compact", "cleanup"}
  /\ last \in {"none", "recorded", "refused", "failed", "rebuilt", "cleaned", "crashed"}
  /\ reckless \in BOOLEAN
  /\ acked \subseteq Series \X Dates
CountersType ==
  /\ downloads \in 0 .. MaxDownloads
  /\ commands \in 0 .. MaxCommands
  /\ crashes \in 0 .. MaxCrashes

LEMMA TypeParts ==
  TypeOK <=> /\ DiskType /\ index \subseteq Rows \X Paths /\ coverage \in [Series -> CoverageRows]
             /\ LocalType /\ StatusType /\ CountersType
BY DEF TypeOK, DiskType, LocalType, StatusType, CountersType, CoverageRows

LEMMA LakeInit == Init => LakeInv
<1> SUFFICES ASSUME Init PROVE LakeInv
  OBVIOUS
<1> USE DEF Init
<1>1. NoCoverage \in CoverageRows
  BY Markers DEF NoCoverage, CoverageRows
<1>2. TypeOK
  <2>1. DiskType /\ coverage \in [Series -> CoverageRows]
    BY <1>1 DEF DiskType
  <2>2. LocalType
    BY <1>1 DEF LocalType
  <2>3. CountersType
    BY LakeAssumption DEF CountersType
  <2>4. StatusType
    BY DEF StatusType
  <2> QED BY <2>1, <2>2, <2>3, <2>4, TypeParts
<1>3. IsFiniteSet(index) /\ \A p \in Paths : disk[p] = NoFile
  BY FS_EmptySet
<1>4. Held
  BY <1>3 DEF Held, Steps, Merging
<1>5. PartsSound
  BY <1>3, PathsType DEF PartsSound
<1>6. RecountInv /\ TruthInv /\ KeepInv
  BY DEF RecountInv, TruthInv, KeepInv, Recounting, Merging, RebuildRestoresIndex
<1> QED BY <1>2, <1>4, <1>5, <1>6 DEF LakeInv

\* The end of a command keeps the types and leaves nothing held.
LEMMA FinishType ==
  ASSUME NEW o \in {"recorded", "refused", "failed", "rebuilt", "cleaned", "crashed"}, Finish(o)
  PROVE  /\ LocalType' /\ pc' = "idle" /\ cmd' = "none" /\ last' = o
<1>1. NoCoverage \in CoverageRows
  BY Markers DEF NoCoverage, CoverageRows
<1> QED BY <1>1 DEF Finish, LocalType

LEMMA CountersStep ==
  ASSUME TypeOK, Next
  PROVE  CountersType'
<1>1. CountersType
  BY TypeParts
<1>2. \/ UNCHANGED bounds
      \/ downloads < MaxDownloads /\ downloads' = downloads + 1 /\ UNCHANGED <<commands, crashes>>
      \/ commands < MaxCommands /\ commands' = commands + 1 /\ UNCHANGED <<downloads, crashes>>
      \/ crashes < MaxCrashes /\ crashes' = crashes + 1 /\ UNCHANGED <<downloads, commands>>
  BY DEF Next, Download, WriteRows, InsertRow, DropCoverage, PutCoverage, NextFile, Rebuild,
         ClearCoverage, ClearFiles, Compact, MergeGroup, Unlink, NextGroup, RebuildAfterCompact,
         Cleanup, DeleteOrphan, EndCleanup, Crash, bounds
<1> QED BY ONLY <1>1, <1>2, LakeAssumption DEF CountersType, bounds

LEMMA TypeStep ==
  ASSUME TypeOK, Held, Next
  PROVE  TypeOK' /\ Held'
<1>0. /\ DiskType /\ index \in SUBSET (Rows \X Paths) /\ coverage \in [Series -> CoverageRows]
      /\ LocalType /\ StatusType /\ IsFiniteSet(index)
  BY TypeParts DEF Held
<1>c. CountersType'
  BY CountersStep
<1>m. NoCoverage \in CoverageRows
  BY Markers DEF NoCoverage, CoverageRows
<1> DEFINE Good == /\ DiskType /\ index \subseteq Rows \X Paths /\ coverage \in [Series -> CoverageRows]
                   /\ LocalType /\ StatusType /\ Held
<1>s. SUFFICES Good'
  BY <1>c DEF TypeOK, DiskType, LocalType, StatusType, CountersType, CoverageRows
<1>r. \A p : p \in Readable <=> p \in Paths /\ disk[p] \in Rows
  BY <1>0, ReadableHoldsRows DEF DiskType
<1> USE DEF stored, local, history, bounds
<1>1. ASSUME NEW s \in Series, NEW r \in Rows, Download(s, r) PROVE Good'
  <2>1. /\ pc' = "write" /\ cmd' = "download" /\ at' = <<"part", s, r>> /\ rows' = r /\ scan' = {at'}
        /\ disk' = [disk EXCEPT ![<<"part", s, r>>] = Torn]
        /\ UNCHANGED <<index, coverage, plan, merged, last, acked, reckless>>
    BY <1>1 DEF Download
  <2>2. at' \in PartPaths /\ at' \in Paths /\ at'[3] = r
    BY <2>1, PathsType
  <2>3. DiskType' /\ LocalType'
    BY <1>0, <2>1, <2>2 DEF DiskType, LocalType
  <2>4. StatusType'
    BY <1>0, <2>1 DEF StatusType
  <2>5. Held'
    BY <1>0, <2>1, <2>2 DEF Held, Steps, Merging
  <2> QED BY <1>0, <2>1, <2>3, <2>4, <2>5
<1>2. CASE WriteRows
  <2>1. /\ pc = "write" /\ disk' = [disk EXCEPT ![at] = rows] /\ at' = NoFile /\ rows' = NoFile
        /\ (cmd = "download" /\ pc' = "insert") \/ (cmd = "compact" /\ pc' = "unlink")
        /\ UNCHANGED <<index, coverage, cmd, scan, plan, merged, last, acked, reckless>>
    BY <1>2 DEF WriteRows, Held, Steps
  <2>2. at \in Paths /\ rows \in Rows
    BY <2>1 DEF Held
  <2>3. DiskType' /\ LocalType'
    BY <1>0, <2>1, <2>2 DEF DiskType, LocalType
  <2>4. StatusType'
    BY <1>0, <2>1 DEF StatusType
  <2>5. cmd = "download" => scan = {at} /\ scan' \subseteq Readable'
    BY <1>0, <2>1, <2>2, Markers DEF Held, DiskType, Readable, OnDisk
  <2>6. Groups' = Groups
    BY <2>1 DEF Groups, Sources
  <2>7. Held'
    BY <1>0, <2>1, <2>2, <2>5, <2>6 DEF Held, Steps, Merging
  <2> QED BY <1>0, <2>1, <2>3, <2>4, <2>7
<1>3. CASE InsertRow
  <2>1. PICK p \in scan :
          IF \E e \in index : e[1] = disk[p]
          THEN Finish("refused") /\ UNCHANGED index
          ELSE /\ index' = index \union {<<disk[p], p>>}
               /\ at' = p
               /\ pc' = "drop"
               /\ UNCHANGED <<cmd, scan, plan, rows, merged, last>>
    BY <1>3 DEF InsertRow
  <2>2. pc = "insert" /\ UNCHANGED <<disk, coverage, acked, reckless>>
    BY <1>3 DEF InsertRow
  <2>3. CASE Finish("refused") /\ UNCHANGED index
    <3>1. LocalType' /\ pc' = "idle" /\ cmd' = "none" /\ last' = "refused"
      BY <2>3, FinishType
    <3>2. Held'
      BY <1>0, <2>3, <3>1 DEF Held, Steps, Merging
    <3> QED BY <1>0, <2>2, <2>3, <3>1, <3>2 DEF DiskType, StatusType
  <2>4. CASE /\ index' = index \union {<<disk[p], p>>}
             /\ at' = p
             /\ pc' = "drop"
             /\ UNCHANGED <<cmd, scan, plan, rows, merged, last>>
    <3>1. scan \subseteq Readable /\ p \in Paths /\ disk[p] \in Rows
      BY <1>r, <2>2 DEF Held
    <3>2. index' \subseteq Rows \X Paths /\ IsFiniteSet(index')
      <4>1. <<disk[p], p>> \in Rows \X Paths
        BY <3>1
      <4>2. IsFiniteSet(index \union {<<disk[p], p>>})
        BY <1>0, FS_AddElement
      <4> QED BY <1>0, <2>4, <4>1, <4>2
    <3>3. Readable' = Readable
      BY <2>2 DEF Readable, OnDisk
    <3>4. Held'
      BY <2>2, <2>4, <3>1, <3>2, <3>3 DEF Held, Steps, Merging
    <3> QED BY <1>0, <2>2, <2>4, <3>1, <3>2, <3>4 DEF DiskType, StatusType, LocalType
  <2> QED BY <2>1, <2>3, <2>4
<1>4. CASE DropCoverage
  <2>1. /\ pc = "drop" /\ pc' = "put"
        /\ merged' = MergeCoverage(coverage[SeriesOf(at)], disk[at])
        /\ coverage' = [coverage EXCEPT ![SeriesOf(at)] = NoCoverage]
        /\ UNCHANGED <<disk, index, cmd, scan, plan, at, rows, last, acked, reckless>>
    BY <1>4 DEF DropCoverage
  <2>2. at \in scan /\ at \in Paths /\ disk[at] \in Rows /\ SeriesOf(at) \in Series
    BY <1>r, <2>1, PathsType DEF Held
  <2>3. merged' \in CoverageRows
    BY <1>0, <2>1, <2>2, MergeType
  <2>4. coverage' \in [Series -> CoverageRows]
    BY <1>0, <1>m, <2>1
  <2>5. Readable' = Readable
    BY <2>1 DEF Readable, OnDisk
  <2>6. Held'
    BY <2>1, <2>5 DEF Held, Steps, Merging
  <2> QED BY <1>0, <2>1, <2>3, <2>4, <2>6 DEF DiskType, StatusType, LocalType
<1>5. CASE PutCoverage
  <2>1. /\ pc = "put" /\ coverage' = [coverage EXCEPT ![SeriesOf(at)] = merged]
        /\ UNCHANGED <<disk, index, reckless>>
    BY <1>5 DEF PutCoverage
  <2>2. at \in scan /\ at \in Paths /\ disk[at] \in Rows /\ SeriesOf(at) \in Series
    BY <1>r, <2>1, PathsType DEF Held
  <2>3. coverage' \in [Series -> CoverageRows]
    BY <1>0, <2>1 DEF LocalType
  <2>4. CASE cmd = "download"
    <3>1. /\ acked' = acked \union {<<SeriesOf(at), d>> : d \in DOMAIN disk[at]}
          /\ Finish("recorded")
      BY <1>5, <2>4 DEF PutCoverage
    <3>2. acked' \subseteq Series \X Dates
      <4>1. DOMAIN disk[at] \subseteq Dates
        BY <2>2, RowsType
      <4>2. \A d \in DOMAIN disk[at] : <<SeriesOf(at), d>> \in Series \X Dates
        BY <2>2, <4>1
      <4> QED BY <1>0, <3>1, <4>2 DEF StatusType
    <3>3. LocalType' /\ pc' = "idle" /\ cmd' = "none" /\ last' = "recorded"
      BY <3>1, FinishType
    <3>4. Held'
      BY <1>0, <2>1, <3>3 DEF Held, Steps, Merging
    <3> QED BY <1>0, <2>1, <2>3, <3>2, <3>3, <3>4 DEF DiskType, StatusType
  <2>5. CASE cmd # "download"
    <3>1. scan' = scan \ {at} /\ pc' = "next" /\ UNCHANGED <<cmd, plan, at, rows, merged, last, acked>>
      BY <1>5, <2>5 DEF PutCoverage
    <3>2. Readable' = Readable
      BY <2>1 DEF Readable, OnDisk
    <3>3. Held'
      BY <2>1, <2>5, <3>1, <3>2 DEF Held, Steps, Merging
    <3> QED BY <1>0, <2>1, <2>3, <3>1, <3>3 DEF DiskType, StatusType, LocalType
  <2> QED BY <2>4, <2>5
<1>6. CASE NextFile
  <2>1. pc = "next" /\ UNCHANGED <<disk, index, coverage, acked, reckless>>
    BY <1>6 DEF NextFile
  <2>2. CASE scan = {}
    <3>1. LocalType' /\ pc' = "idle" /\ cmd' = "none" /\ last' = "rebuilt"
      BY <1>6, <2>2, FinishType DEF NextFile
    <3>2. Held'
      BY <1>0, <2>1, <3>1 DEF Held, Steps, Merging
    <3> QED BY <1>0, <2>1, <3>1, <3>2 DEF DiskType, StatusType
  <2>3. CASE scan # {}
    <3>1. pc' = "insert" /\ UNCHANGED <<cmd, scan, plan, at, rows, merged, last>>
      BY <1>6, <2>3 DEF NextFile
    <3>2. Readable' = Readable
      BY <2>1 DEF Readable, OnDisk
    <3>3. Held'
      BY <2>1, <3>1, <3>2 DEF Held, Steps, Merging
    <3> QED BY <1>0, <2>1, <3>1, <3>3 DEF DiskType, StatusType, LocalType
  <2> QED BY <2>2, <2>3
<1>7. CASE Rebuild \/ RebuildAfterCompact
  <2>1. /\ pc' = "clear" /\ scan' = Readable /\ (cmd' = "rebuild" \/ cmd' = "compact")
        /\ UNCHANGED <<disk, index, coverage, plan, at, rows, merged, last, acked, reckless>>
    BY <1>7 DEF Rebuild, RebuildAfterCompact, Held, Steps
  <2>2. scan' \subseteq Paths
    BY <2>1 DEF Readable, OnDisk
  <2>4. Readable' = Readable
    BY <2>1 DEF Readable, OnDisk
  <2>3. Held'
    BY <1>0, <2>1, <2>4 DEF Held, Steps, Merging
  <2> QED BY <1>0, <2>1, <2>2, <2>3 DEF DiskType, StatusType, LocalType
<1>8. CASE ClearCoverage
  <2>1. /\ pc = "clear" /\ pc' = "clear files" /\ coverage' = [s \in Series |-> NoCoverage]
        /\ UNCHANGED <<disk, index, cmd, scan, plan, at, rows, merged, last, acked, reckless>>
    BY <1>8 DEF ClearCoverage
  <2>2. Readable' = Readable
    BY <2>1 DEF Readable, OnDisk
  <2>3. Held'
    BY <2>1, <2>2 DEF Held, Steps, Merging
  <2> QED BY <1>0, <1>m, <2>1, <2>3 DEF DiskType, StatusType, LocalType
<1>9. CASE ClearFiles
  <2>1. /\ pc = "clear files" /\ pc' = "next" /\ index' = {}
        /\ UNCHANGED <<disk, coverage, cmd, scan, plan, at, rows, merged, last, acked, reckless>>
    BY <1>9 DEF ClearFiles
  <2>2. Readable' = Readable /\ IsFiniteSet(index')
    BY <2>1, FS_EmptySet DEF Readable, OnDisk
  <2>3. Held'
    BY <2>1, <2>2 DEF Held, Steps, Merging
  <2> QED BY <1>0, <2>1, <2>3 DEF DiskType, StatusType, LocalType
<1>10. CASE Compact
  <2>1. /\ pc' = "group" /\ cmd' = "compact" /\ plan' = Groups
        /\ UNCHANGED <<disk, index, coverage, scan, at, rows, merged, last, acked>>
    BY <1>10 DEF Compact
  <2>2. reckless' \in BOOLEAN
    BY <1>0, <1>10 DEF Compact, StatusType
  <2>3. Groups' = Groups /\ Groups \subseteq Series
    BY <2>1 DEF Groups, Sources
  <2>4. Held'
    BY <1>0, <2>1, <2>3 DEF Held, Steps, Merging
  <2> QED BY <1>0, <2>1, <2>2, <2>3, <2>4 DEF DiskType, StatusType, LocalType
<1>11. CASE MergeGroup
  <2>0. pc = "group" /\ cmd = "compact" /\ plan \subseteq Groups
    BY <1>11 DEF MergeGroup, Held, Steps, Merging
  <2>1. UNCHANGED <<index, coverage, acked, reckless>>
    BY <1>11 DEF MergeGroup
  <2>2. ASSUME Finish("failed"), UNCHANGED disk PROVE Good'
    <3>1. LocalType' /\ pc' = "idle" /\ cmd' = "none" /\ last' = "failed"
      BY <2>2, FinishType
    <3>2. Held'
      BY <1>0, <2>1, <3>1 DEF Held, Steps, Merging
    <3> QED BY <1>0, <2>1, <2>2, <3>1, <3>2 DEF DiskType, StatusType
  <2>3. ASSUME NEW s \in plan, ~\E e \in Sources(s) : e[2] \notin Readable,
               NEW pos \in Orders(Sources(s)), rows' = Deduplicated(Sources(s), pos),
               at' = OutputPath(s), disk' = [disk EXCEPT ![OutputPath(s)] = Torn],
               scan' = {e[2] : e \in Sources(s)}, plan' = plan \ {s}, pc' = "write",
               UNCHANGED <<cmd, merged, last>>
        PROVE  Good'
    <3>1. /\ s \in Series /\ Sources(s) # {} /\ IsFiniteSet(Sources(s))
          /\ Sources(s) \in SUBSET (Rows \X Paths)
      BY <1>0, <2>0, GroupHasSources, SourcesType
    <3>2. at' \in CompactPaths /\ at' \in Paths
      BY <1>0, <2>3, <3>1, OutputPathType, PathsType
    <3>3. \A e \in Sources(s) : disk[e[2]] \in Rows
      BY <1>r, <2>3
    <3>4. rows' \in Rows
      BY <2>3, <3>1, <3>3, DeduplicatedType
    <3>5. scan' \subseteq Paths
      BY <2>3, <3>1
    <3>6. Groups' = Groups
      BY <2>1 DEF Groups, Sources
    <3>7. Held'
      BY <1>0, <2>0, <2>1, <2>3, <3>2, <3>4, <3>6 DEF Held, Steps, Merging
    <3> QED BY <1>0, <2>1, <2>3, <3>2, <3>4, <3>5, <3>7 DEF DiskType, StatusType, LocalType
  <2> QED BY <1>11, <2>2, <2>3 DEF MergeGroup
<1>12. CASE Unlink \/ DeleteOrphan
  <2>1. PICK p \in scan : disk' = [disk EXCEPT ![p] = NoFile] /\ scan' = scan \ {p}
    BY <1>12 DEF Unlink, DeleteOrphan
  <2>2. /\ (pc = "unlink" \/ pc = "delete")
        /\ UNCHANGED <<index, coverage, pc, cmd, plan, at, rows, merged, last, acked, reckless>>
    BY <1>12 DEF Unlink, DeleteOrphan
  <2>3. Groups' = Groups
    BY <2>2 DEF Groups, Sources
  <2>4. Held'
    BY <2>2, <2>3 DEF Held, Steps, Merging
  <2> QED BY <1>0, <2>1, <2>2, <2>4 DEF DiskType, StatusType, LocalType
<1>13. CASE NextGroup
  <2>1. /\ pc = "unlink" /\ pc' = "group"
        /\ UNCHANGED <<disk, index, coverage, cmd, scan, plan, at, rows, merged, last, acked, reckless>>
    BY <1>13 DEF NextGroup
  <2>2. Groups' = Groups
    BY <2>1 DEF Groups, Sources
  <2>3. Held'
    BY <2>1, <2>2 DEF Held, Steps, Merging
  <2> QED BY <1>0, <2>1, <2>3 DEF DiskType, StatusType, LocalType
<1>14. CASE Cleanup
  <2>1. /\ pc' = "delete" /\ cmd' = "cleanup" /\ scan' = OnDisk \ Registered
        /\ UNCHANGED <<disk, index, coverage, plan, at, rows, merged, last, acked>>
    BY <1>14 DEF Cleanup
  <2>2. reckless' \in BOOLEAN
    BY <1>0, <1>14 DEF Cleanup, StatusType
  <2>3. scan' \subseteq Paths
    BY <2>1 DEF OnDisk
  <2>4. Held'
    BY <1>0, <2>1 DEF Held, Steps, Merging
  <2> QED BY <1>0, <2>1, <2>2, <2>3, <2>4 DEF DiskType, StatusType, LocalType
<1>15. CASE EndCleanup \/ Crash
  <2>1. PICK o \in {"cleaned", "crashed"} : Finish(o)
    BY <1>15 DEF EndCleanup, Crash
  <2>2. LocalType' /\ pc' = "idle" /\ cmd' = "none" /\ last' = o
    BY <2>1, FinishType
  <2>3. UNCHANGED <<disk, index, coverage, acked>> /\ reckless' \in BOOLEAN
    BY <1>0, <1>15 DEF EndCleanup, Crash, StatusType
  <2>4. Held'
    BY <1>0, <2>2, <2>3 DEF Held, Steps, Merging
  <2> QED BY <1>0, <2>2, <2>3, <2>4 DEF DiskType, StatusType
<1> QED BY <1>1, <1>2, <1>3, <1>4, <1>5, <1>6, <1>7, <1>8, <1>9, <1>10, <1>11, <1>12, <1>13,
           <1>14, <1>15 DEF Next
----
(***************************************************************************)
(* The path of a downloaded file determines its rows.                      *)
(***************************************************************************)

\* The actions that change data_files, and those that change the disk.
LEMMA WhoChanges ==
  ASSUME Next
  PROVE  /\ UNCHANGED index \/ InsertRow \/ ClearFiles
         /\ \/ UNCHANGED disk
            \/ \E s \in Series, r \in Rows : Download(s, r)
            \/ WriteRows \/ MergeGroup \/ Unlink \/ DeleteOrphan
BY DEF Next, Download, WriteRows, InsertRow, DropCoverage, PutCoverage, NextFile, Rebuild,
       ClearCoverage, ClearFiles, Compact, MergeGroup, Unlink, NextGroup, RebuildAfterCompact,
       Cleanup, DeleteOrphan, EndCleanup, Crash, stored

\* A compaction opens the output of a group whose sources can be read, or fails.
LEMMA MergeSteps ==
  ASSUME TypeOK, Held, MergeGroup
  PROVE  /\ pc = "group" /\ cmd = "compact" /\ plan \subseteq Groups
         /\ UNCHANGED <<index, coverage, acked, reckless, crashes>>
         /\ \/ /\ UNCHANGED disk /\ pc' = "idle" /\ cmd' = "none" /\ last' = "failed"
               /\ \E s \in plan : \E e \in Sources(s) : e[2] \notin Readable
            \/ \E s \in plan :
                 /\ s \in Series /\ at' = OutputPath(s) /\ at' \in CompactPaths /\ at' \in Paths
                 /\ SeriesOf(at') = s
                 /\ \A e \in Sources(s) : e[2] \in Readable
                 /\ rows' \in Rows
                 /\ \A e \in Sources(s) : DOMAIN disk[e[2]] \subseteq DOMAIN rows'
                 /\ disk' = [disk EXCEPT ![at'] = Torn]
                 /\ scan' = {e[2] : e \in Sources(s)} /\ Sources(s) # {}
                 /\ plan' = plan \ {s} /\ pc' = "write" /\ UNCHANGED <<cmd, merged, last>>
<1>0. DiskType /\ index \in SUBSET (Rows \X Paths) /\ IsFiniteSet(index)
  BY TypeParts DEF Held
<1>r. \A p : p \in Readable <=> p \in Paths /\ disk[p] \in Rows
  BY <1>0, ReadableHoldsRows DEF DiskType
<1>1. /\ pc = "group" /\ cmd = "compact" /\ plan \subseteq Groups
      /\ UNCHANGED <<index, coverage, acked, reckless, crashes>>
  BY DEF MergeGroup, Held, Steps, Merging, history, bounds
<1>2. PICK s \in plan :
        IF \E e \in Sources(s) : e[2] \notin Readable
        THEN Finish("failed") /\ UNCHANGED disk
        ELSE /\ \E pos \in Orders(Sources(s)) : rows' = Deduplicated(Sources(s), pos)
             /\ at' = OutputPath(s)
             /\ disk' = [disk EXCEPT ![OutputPath(s)] = Torn]
             /\ scan' = {e[2] : e \in Sources(s)}
             /\ plan' = plan \ {s}
             /\ pc' = "write"
             /\ UNCHANGED <<cmd, merged, last>>
  BY DEF MergeGroup
<1>3. CASE \E e \in Sources(s) : e[2] \notin Readable
  <2>1. UNCHANGED disk /\ pc' = "idle" /\ cmd' = "none" /\ last' = "failed"
    BY <1>2, <1>3 DEF Finish
  <2> QED BY <1>1, <1>3, <2>1
<1>4. CASE \A e \in Sources(s) : e[2] \in Readable
  <2>1. PICK pos \in Orders(Sources(s)) : rows' = Deduplicated(Sources(s), pos)
    BY <1>2, <1>4
  <2>2. s \in Series /\ Sources(s) # {} /\ IsFiniteSet(Sources(s))
    BY <1>0, <1>1, GroupHasSources, SourcesType
  <2>3. OutputPath(s) \in CompactPaths /\ OutputPath(s) \in Paths /\ SeriesOf(OutputPath(s)) = s
    BY <1>0, <2>2, OutputPathType, PathsType
  <2>4. \A e \in Sources(s) : disk[e[2]] \in Rows
    BY <1>r, <1>4
  <2>5. rows' \in Rows /\ \A e \in Sources(s) : DOMAIN disk[e[2]] \subseteq DOMAIN rows'
    BY <2>1, <2>2, <2>4, DeduplicatedType
  <2>6. at' = OutputPath(s) /\ disk' = [disk EXCEPT ![OutputPath(s)] = Torn]
        /\ scan' = {e[2] : e \in Sources(s)} /\ plan' = plan \ {s} /\ pc' = "write"
        /\ UNCHANGED <<cmd, merged, last>>
    BY <1>2, <1>4
  <2> QED BY <1>1, <1>4, <2>2, <2>3, <2>5, <2>6
<1> QED BY <1>3, <1>4

LEMMA PartsStep ==
  ASSUME TypeOK, Held, PartsSound, Next
  PROVE  PartsSound'
<1>0. DiskType /\ index \in SUBSET (Rows \X Paths)
  BY TypeParts
<1>r. \A p : p \in Readable <=> p \in Paths /\ disk[p] \in Rows
  BY <1>0, ReadableHoldsRows DEF DiskType
<1>1. \A p \in PartPaths : disk[p] \in {NoFile, Torn, p[3]}
  BY DEF PartsSound
<1>2. \A p \in PartPaths : disk'[p] \in {NoFile, Torn, p[3]}
  <2>1. CASE WriteRows
    <3>1. at \in Paths /\ rows \in Rows /\ disk' = [disk EXCEPT ![at] = rows]
          /\ (at \in PartPaths => rows = at[3])
      BY <2>1, PathsType DEF WriteRows, Held, Steps
    <3> QED BY <1>0, <1>1, <3>1, PathsType DEF DiskType
  <2>2. CASE MergeGroup
    BY <1>0, <1>1, <2>2, MergeSteps, PathsType DEF DiskType
  <2>3. ASSUME NEW s \in Series, NEW r \in Rows, Download(s, r)
        PROVE  \A p \in PartPaths : disk'[p] \in {NoFile, Torn, p[3]}
    BY <1>0, <1>1, <2>3, PathsType DEF DiskType, Download
  <2>4. CASE Unlink \/ DeleteOrphan
    <3>1. PICK p \in scan : disk' = [disk EXCEPT ![p] = NoFile]
      BY <2>4 DEF Unlink, DeleteOrphan
    <3> QED BY <1>0, <1>1, <3>1, PathsType DEF DiskType
  <2> QED BY <1>1, <2>1, <2>2, <2>3, <2>4, WhoChanges
<1>3. \A e \in index' : e[2] \in PartPaths => e[1] = e[2][3]
  <2>1. CASE InsertRow
    <3>1. PICK p \in scan : index' \subseteq index \union {<<disk[p], p>>}
      BY <2>1 DEF InsertRow
    <3>2. p \in Readable
      BY <2>1 DEF InsertRow, Held
    <3>3. p \in PartPaths => disk[p] = p[3]
      BY <1>1, <1>r, <3>2, Markers
    <3> QED BY <3>1, <3>3 DEF PartsSound
  <2>2. CASE ClearFiles \/ UNCHANGED index
    BY <2>2 DEF ClearFiles, PartsSound
  <2> QED BY <2>1, <2>2, WhoChanges
<1> QED BY <1>2, <1>3 DEF PartsSound
----
(***************************************************************************)
(* The recount of a rebuild.                                               *)
(***************************************************************************)
LEMMA RecountStep ==
  ASSUME TypeOK, Held, RecountInv, Next
  PROVE  RecountInv'
<1>0. /\ DiskType /\ index \in SUBSET (Rows \X Paths) /\ IsFiniteSet(index)
      /\ coverage \in [Series -> CoverageRows]
  BY TypeParts DEF Held
<1>r. \A p : p \in Readable <=> p \in Paths /\ disk[p] \in Rows
  BY <1>0, ReadableHoldsRows DEF DiskType
<1>p. \A p \in Paths : SeriesOf(p) \in Series
  BY PathsType
<1>1. ASSUME ~Recounting', pc' \notin {"clear", "clear files", "next", "drop", "put"},
             pc' = "idle" => last' # "rebuilt"
      PROVE  RecountInv'
  <2>1. RebuildRestoresIndex'
    BY <1>1 DEF RebuildRestoresIndex
  <2> QED BY <1>1, <2>1 DEF RecountInv
<1>2. ASSUME NEW s \in Series, NEW r \in Rows, Download(s, r) PROVE RecountInv'
  BY <1>1, <1>2 DEF Download, Recounting
<1>3. CASE WriteRows
  <2>1. (cmd' = "download" /\ pc' = "insert") \/ pc' = "unlink"
    BY <1>3 DEF WriteRows, Held, Steps
  <2> QED BY <1>1, <2>1 DEF Recounting
<1>4. CASE MergeGroup
  <2>1. pc' \in {"write", "idle"} /\ (pc' = "idle" => last' = "failed")
    BY <1>4, MergeSteps
  <2> QED BY <1>1, <2>1 DEF Recounting
<1>5. CASE Compact \/ Unlink \/ NextGroup \/ Cleanup \/ DeleteOrphan \/ EndCleanup \/ Crash
  <2>1. pc' \in {"group", "unlink", "delete", "idle"} /\ (pc' = "idle" => last' \in {"cleaned", "crashed"})
    BY <1>5 DEF Compact, Unlink, NextGroup, Cleanup, DeleteOrphan, EndCleanup, Crash, Finish
  <2> QED BY <1>1, <2>1 DEF Recounting
<1>6. CASE Rebuild \/ RebuildAfterCompact
  <2>1. pc' = "clear" /\ scan' = Readable /\ disk' = disk
    BY <1>6 DEF Rebuild, RebuildAfterCompact, stored
  <2>2. Readable' = Readable
    BY <2>1 DEF Readable, OnDisk
  <2> QED BY <2>1, <2>2 DEF RecountInv, Recounting, RebuildRestoresIndex
<1>7. CASE ClearCoverage
  <2>1. /\ pc = "clear" /\ pc' = "clear files" /\ UNCHANGED <<disk, scan>>
        /\ coverage' = [s \in Series |-> NoCoverage]
    BY <1>7 DEF ClearCoverage, local
  <2>2. Readable' = Readable /\ scan = Readable
    BY <2>1 DEF Readable, OnDisk, RecountInv
  <2> QED BY <2>1, <2>2 DEF RecountInv, Recounting, RebuildRestoresIndex
<1>8. CASE ClearFiles
  <2>1. /\ pc = "clear files" /\ pc' = "next" /\ index' = {} /\ UNCHANGED <<disk, scan, coverage>>
    BY <1>8 DEF ClearFiles, local
  <2>2. Readable' = Readable /\ scan = Readable /\ \A s \in Series : coverage[s] = NoCoverage
    BY <2>1 DEF Readable, OnDisk, RecountInv
  <2>3. Registered' = {} /\ \A s \in Series : Sources(s)' = {}
    BY <2>1 DEF Registered, Sources
  <2>4. \A s \in Series : CoverageConsistent(s)'
    <3>1. \A s \in Series : coverage'[s].files = 0
      <4>1. NoCoverage.files = 0
        BY DEF NoCoverage
      <4>2. coverage' = coverage
        BY <2>1
      <4>3. \A s \in Series : coverage[s] = NoCoverage
        BY <2>2
      <4> QED BY ONLY <4>1, <4>2, <4>3
    <3> QED BY <2>3, <3>1 DEF CoverageConsistent
  <2> QED BY <2>1, <2>2, <2>3, <2>4 DEF RecountInv, Recounting, RebuildRestoresIndex
<1>9. CASE NextFile
  <2>1. pc = "next" /\ UNCHANGED <<disk, index, coverage>>
    BY <1>9 DEF NextFile, stored
  <2>2. Recounting
    BY <2>1 DEF Held, Steps, Recounting
  <2>3. /\ \A e \in index : IsTrue(e)
        /\ Readable \subseteq Registered \union scan
        /\ scan \intersect Registered = {}
        /\ \A s \in Series : CoverageConsistent(s)
    BY <2>1, <2>2 DEF RecountInv
  <2>4. CASE scan = {}
    <3>1. pc' = "idle" /\ UNCHANGED <<disk, index, coverage>>
      BY <1>9, <2>1, <2>4 DEF NextFile, Finish
    <3>2. \A e \in index : e[2] \in OnDisk /\ disk[e[2]] = e[1]
      BY <1>0, <2>3, Markers DEF IsTrue, OnDisk
    <3>3. MissingRegistered = {} /\ MetadataMismatches = {}
      BY <3>2 DEF MissingRegistered, MetadataMismatches, Registered
    <3>4. OrphanParquet \intersect Readable = {}
      BY <2>3, <2>4 DEF OrphanParquet
    <3>5. RebuildRestoresIndex'
      BY <2>3, <3>1, <3>3, <3>4 DEF RebuildRestoresIndex, MissingRegistered, MetadataMismatches,
             OrphanParquet, Registered, Readable, OnDisk, CoverageConsistent, Sources
    <3> QED BY <3>1, <3>5 DEF RecountInv, Recounting
  <2>5. CASE scan # {}
    <3>1. pc' = "insert" /\ UNCHANGED <<cmd, scan>>
      BY <1>9, <2>5 DEF NextFile, local
    <3>2. /\ Readable' = Readable /\ Registered' = Registered
          /\ \A e : IsTrue(e)' = IsTrue(e)
          /\ \A s \in Series : CoverageConsistent(s)' = CoverageConsistent(s)
      BY <2>1 DEF Readable, OnDisk, Registered, IsTrue, CoverageConsistent, Sources
    <3> QED BY <2>1, <2>3, <3>1, <3>2 DEF RecountInv, Recounting, RebuildRestoresIndex
  <2> QED BY <2>4, <2>5
<1>10. CASE InsertRow
  <2>1. PICK p \in scan :
          IF \E e \in index : e[1] = disk[p]
          THEN Finish("refused") /\ UNCHANGED index
          ELSE /\ index' = index \union {<<disk[p], p>>}
               /\ at' = p
               /\ pc' = "drop"
               /\ UNCHANGED <<cmd, scan, plan, rows, merged, last>>
    BY <1>10 DEF InsertRow
  <2>2. pc = "insert" /\ UNCHANGED <<disk, coverage>> /\ p \in Paths /\ disk[p] \in Rows
    BY <1>r, <1>10, <2>1 DEF InsertRow, Held
  <2>3. CASE \E e \in index : e[1] = disk[p]
    <3>1. pc' = "idle" /\ last' = "refused"
      BY <2>1, <2>3 DEF Finish
    <3> QED BY <1>1, <3>1 DEF Recounting
  <2>4. CASE ~\E e \in index : e[1] = disk[p]
    <3> DEFINE new == <<disk[p], p>>
               sp  == SeriesOf(p)
    <3>1. /\ index' = index \union {new} /\ at' = p /\ pc' = "drop"
          /\ UNCHANGED <<cmd, scan, plan, rows, merged, last>>
      BY <2>1, <2>4
    <3>2. CASE cmd = "download"
      BY <3>1, <3>2 DEF RecountInv, Recounting, RebuildRestoresIndex
    <3>3. CASE cmd # "download"
      <4>1. Recounting
        BY <2>2, <3>3 DEF Recounting
      <4>2. /\ \A e \in index : IsTrue(e)
            /\ Readable \subseteq Registered \union scan
            /\ scan \intersect Registered = {}
            /\ \A s \in Series : CoverageConsistent(s)
        BY <2>2, <4>1 DEF RecountInv
      <4>3. Readable' = Readable /\ Registered' = Registered \union {p}
        <5>1. new[2] = p
          OBVIOUS
        <5> HIDE DEF new
        <5>2. Registered' = Registered \union {p}
          BY <3>1, <5>1 DEF Registered
        <5> QED BY <2>2, <5>2 DEF Readable, OnDisk
      <4>4. \A e \in index' : IsTrue(e)'
        BY <2>2, <3>1, <4>2 DEF IsTrue
      <4>5. \A s \in Series \ {sp} : Sources(s)' = Sources(s)
        BY <3>1 DEF Sources
      <4>6. \A s \in Series \ {SeriesOf(at')} : CoverageConsistent(s)'
        BY <2>2, <3>1, <4>2, <4>5 DEF CoverageConsistent
      <4>7. new \notin index /\ SeriesOf(new[2]) = sp
        BY <2>4
      <4>8. Sources(sp)' \ {new} = Sources(sp)
        BY <3>1, <4>7 DEF Sources
      <4>9. sp \in Series /\ CountsExactly(coverage[sp], Sources(sp))
        BY <1>p, <2>2, <4>2 DEF CoverageConsistent, CountsExactly
      <4>10. CountsExactly(coverage'[sp], Sources(sp)' \ {new})
        BY <2>2, <4>8, <4>9
      <4>11. /\ (scan \intersect Registered)' \subseteq {at'}
             /\ (Readable \subseteq Registered \union scan)'
             /\ <<disk'[at'], at'>> \in index'
        BY <2>2, <3>1, <4>2, <4>3
      <4>12. CountsExactly(coverage[SeriesOf(at)], Sources(SeriesOf(at)) \ {<<disk[at], at>>})'
        BY <2>2, <3>1, <4>10
      <4> QED BY <3>1, <4>4, <4>6, <4>11, <4>12 DEF RecountInv, Recounting, RebuildRestoresIndex
    <3> QED BY <3>2, <3>3
  <2> QED BY <2>3, <2>4
<1>11. CASE DropCoverage
  <2>1. /\ pc = "drop" /\ pc' = "put"
        /\ merged' = MergeCoverage(coverage[SeriesOf(at)], disk[at])
        /\ coverage' = [coverage EXCEPT ![SeriesOf(at)] = NoCoverage]
        /\ UNCHANGED <<disk, index, cmd, scan, at>>
    BY <1>11 DEF DropCoverage
  <2>2. CASE cmd = "download"
    BY <2>1, <2>2 DEF RecountInv, Recounting, RebuildRestoresIndex
  <2>3. CASE cmd # "download"
    <3> DEFINE e == <<disk[at], at>>
               sp == SeriesOf(at)
    <3>1. Recounting
      BY <2>1, <2>3 DEF Recounting
    <3>2. /\ \A x \in index : IsTrue(x)
          /\ Readable \subseteq Registered \union scan
          /\ scan \intersect Registered \subseteq {at}
          /\ e \in index
          /\ \A s \in Series \ {sp} : CoverageConsistent(s)
          /\ CountsExactly(coverage[sp], Sources(sp) \ {e})
      BY <2>1, <3>1 DEF RecountInv
    <3>3. at \in Paths /\ disk[at] \in Rows /\ sp \in Series
      BY <1>p, <1>r, <2>1 DEF Held
    <3>4. e \in Sources(sp) /\ e[1] = disk[at] /\ e \in Rows \X Paths
      BY <3>2, <3>3 DEF Sources
    <3>5. Sources(sp) \ {e} \in SUBSET (Rows \X Paths) /\ IsFiniteSet(Sources(sp) \ {e})
      BY <1>0, SourcesType, FS_RemoveElement
    <3>6. coverage[sp] \in CoverageRows /\ e \notin Sources(sp) \ {e}
      BY <1>0, <3>3
    <3> HIDE DEF e, sp
    <3>7. CountsExactly(MergeCoverage(coverage[sp], e[1]), (Sources(sp) \ {e}) \union {e})
      BY <3>2, <3>4, <3>5, <3>6, MergeCounts
    <3>8. (Sources(sp) \ {e}) \union {e} = Sources(sp)
      BY <3>4
    <3>9. merged' = MergeCoverage(coverage[sp], e[1])
      BY <2>1, <3>4 DEF sp
    <3>10. CountsExactly(merged', Sources(sp))
      BY <3>7, <3>8, <3>9
    <3>11. /\ Readable' = Readable /\ Registered' = Registered
           /\ \A x : IsTrue(x)' = IsTrue(x)
           /\ \A s : Sources(s)' = Sources(s)
      BY <2>1 DEF Readable, OnDisk, Registered, IsTrue, Sources
    <3>12. \A s \in Series \ {sp} : coverage'[s] = coverage[s]
      BY <1>0, <2>1 DEF sp
    <3>13. \A s \in Series \ {sp} : CoverageConsistent(s)'
      BY <3>2, <3>11, <3>12 DEF CoverageConsistent
    <3>14. CountsExactly(merged, Sources(SeriesOf(at)))'
      BY <2>1, <3>10, <3>11 DEF sp
    <3> QED BY <2>1, <3>2, <3>11, <3>13, <3>14 DEF e, sp, RecountInv, Recounting, RebuildRestoresIndex
  <2> QED BY <2>2, <2>3
<1>12. CASE PutCoverage
  <2>1. /\ pc = "put" /\ coverage' = [coverage EXCEPT ![SeriesOf(at)] = merged]
        /\ UNCHANGED <<disk, index>>
    BY <1>12 DEF PutCoverage
  <2>2. CASE cmd = "download"
    <3>1. pc' = "idle" /\ last' = "recorded"
      BY <1>12, <2>2 DEF PutCoverage, Finish
    <3> QED BY <1>1, <3>1 DEF Recounting
  <2>3. CASE cmd # "download"
    <3> DEFINE sp == SeriesOf(at)
    <3>1. scan' = scan \ {at} /\ pc' = "next" /\ UNCHANGED <<cmd, at>>
      BY <1>12, <2>3 DEF PutCoverage
    <3>2. Recounting
      BY <2>1, <2>3 DEF Recounting
    <3>3. /\ \A x \in index : IsTrue(x)
          /\ Readable \subseteq Registered \union scan
          /\ scan \intersect Registered \subseteq {at}
          /\ <<disk[at], at>> \in index
          /\ \A s \in Series \ {sp} : CoverageConsistent(s)
          /\ CountsExactly(merged, Sources(sp))
      BY <2>1, <3>2 DEF RecountInv
    <3>4. at \in Registered
      BY <3>3 DEF Registered
    <3>5. /\ Readable' = Readable /\ Registered' = Registered
          /\ \A x : IsTrue(x)' = IsTrue(x)
          /\ \A s : Sources(s)' = Sources(s)
      BY <2>1 DEF Readable, OnDisk, Registered, IsTrue, Sources
    <3>6. /\ \A s \in Series \ {sp} : coverage'[s] = coverage[s]
          /\ sp \in Series => coverage'[sp] = merged
      BY <1>0, <2>1
    <3>7. ASSUME NEW s \in Series PROVE CoverageConsistent(s)'
      <4>1. CASE s = sp
        BY <3>3, <3>5, <3>6, <4>1 DEF CoverageConsistent, CountsExactly
      <4>2. CASE s # sp
        BY <3>3, <3>5, <3>6, <4>2 DEF CoverageConsistent
      <4> QED BY <4>1, <4>2
    <3>8. (Readable \subseteq Registered \union scan)' /\ (scan \intersect Registered = {})'
      BY <3>1, <3>3, <3>4, <3>5
    <3>9. (\A x \in index : IsTrue(x))'
      BY <2>1, <3>3, <3>5
    <3>10. RebuildRestoresIndex'
      BY <3>1 DEF RebuildRestoresIndex
    <3> QED BY <3>1, <3>7, <3>8, <3>9, <3>10 DEF RecountInv, Recounting
  <2> QED BY <2>2, <2>3
<1> QED BY <1>2, <1>3, <1>4, <1>5, <1>6, <1>7, <1>8, <1>9, <1>10, <1>11, <1>12 DEF Next
----
(***************************************************************************)
(* Which entries of data_files are true while no process has crashed.      *)
(***************************************************************************)
LEMMA TruthStep ==
  ASSUME TypeOK, Held, PartsSound, RecountInv, TruthInv, Next
  PROVE  TruthInv'
<1>0. /\ DiskType /\ index \in SUBSET (Rows \X Paths) /\ IsFiniteSet(index)
  BY TypeParts DEF Held
<1>n. crashes \in Nat
  <2>1. CountersType
    BY TypeParts
  <2> QED BY ONLY <2>1, LakeAssumption DEF CountersType
<1>r. \A p : p \in Readable <=> p \in Paths /\ disk[p] \in Rows
  BY <1>0, ReadableHoldsRows DEF DiskType
<1>1. CASE Crash
  <2>1. crashes' # 0
    BY <1>n, <1>1 DEF Crash
  <2> QED BY <2>1 DEF TruthInv
<1> SUFFICES ASSUME ~Crash, crashes = 0 PROVE TruthInv'
  <2>1. ~Crash => crashes' = crashes
    BY DEF Next, Download, WriteRows, InsertRow, DropCoverage, PutCoverage, NextFile, Rebuild,
           ClearCoverage, ClearFiles, Compact, MergeGroup, Unlink, NextGroup, RebuildAfterCompact,
           Cleanup, DeleteOrphan, EndCleanup, bounds
  <2> QED BY <1>1, <2>1 DEF TruthInv
<1>2. ASSUME NEW s \in Series, NEW r \in Rows, Download(s, r) PROVE TruthInv'
  <2>1. /\ pc = "idle" /\ pc' = "write" /\ cmd' = "download" /\ at' = <<"part", s, r>>
        /\ disk' = [disk EXCEPT ![<<"part", s, r>>] = Torn] /\ index' = index
    BY <1>2 DEF Download
  <2>2. \A e \in index : IsTrue(e)
    BY <2>1 DEF TruthInv
  <2>3. at' \in Paths /\ disk' = [disk EXCEPT ![at'] = Torn]
    BY <2>1, PathsType
  <2>4. \A e \in index : IsTrue(e)' \/ e[2] = at'
    BY <1>0, <2>2, <2>3 DEF IsTrue, DiskType
  <2> QED BY <2>1, <2>4 DEF TruthInv, Merging
<1>3. CASE WriteRows
  <2>1. /\ pc = "write" /\ disk' = [disk EXCEPT ![at] = rows]
        /\ at \in Paths /\ rows \in Rows /\ UNCHANGED <<index, cmd, scan, plan>>
        /\ (cmd = "download" /\ pc' = "insert") \/ (cmd = "compact" /\ pc' = "unlink")
    BY <1>3 DEF WriteRows, Held, Steps
  <2>2. CASE cmd = "download"
    <3>1. \A e \in index : IsTrue(e) \/ e[2] = at
      BY <2>1, <2>2 DEF TruthInv
    <3>2. \A e \in index : e[2] = at => e[1] = rows
      BY <2>1, <2>2 DEF PartsSound, Held
    <3>3. \A e \in index : IsTrue(e)'
      BY <1>0, <2>1, <3>1, <3>2 DEF IsTrue, DiskType
    <3> QED BY <2>1, <2>2, <3>3 DEF TruthInv, Merging
  <2>3. CASE cmd = "compact"
    <3>1. /\ \A e \in index : SeriesOf(e[2]) \in plan => IsTrue(e)
          /\ SeriesOf(at) \notin plan
          /\ \A p \in scan : SeriesOf(p) \notin plan
      BY <2>1, <2>3 DEF TruthInv, Merging
    <3>2. \A e \in index : SeriesOf(e[2]) \in plan => IsTrue(e)'
      BY <1>0, <2>1, <3>1 DEF IsTrue, DiskType
    <3> QED BY <2>1, <2>3, <3>1, <3>2 DEF TruthInv, Merging
  <2> QED BY <2>1, <2>2, <2>3
<1>4. CASE InsertRow
  <2>1. PICK p \in scan :
          IF \E e \in index : e[1] = disk[p]
          THEN Finish("refused") /\ UNCHANGED index
          ELSE /\ index' = index \union {<<disk[p], p>>}
               /\ pc' = "drop"
               /\ UNCHANGED cmd
    BY <1>4 DEF InsertRow
  <2>2. pc = "insert" /\ disk' = disk
    BY <1>4 DEF InsertRow
  <2>3. \A e \in index : IsTrue(e)
    BY <2>2 DEF TruthInv, RecountInv, Recounting
  <2>4. index' \subseteq index \union {<<disk[p], p>>}
    BY <2>1
  <2>5. \A e \in index' : IsTrue(e)'
    BY <2>2, <2>3, <2>4 DEF IsTrue
  <2>6. (pc' = "idle" /\ cmd' = "none") \/ pc' = "drop"
    BY <2>1 DEF Finish
  <2> QED BY <2>5, <2>6 DEF TruthInv, Merging
<1>5. CASE DropCoverage \/ PutCoverage \/ NextFile
  <2>1. pc \in {"drop", "put", "next"} /\ UNCHANGED <<disk, index>> /\ pc' \in {"put", "next", "idle", "insert"}
    BY <1>5 DEF DropCoverage, PutCoverage, NextFile, Finish, stored
  <2>2. \A e \in index : IsTrue(e)
    BY <2>1 DEF TruthInv, RecountInv, Recounting, Held, Steps
  <2>3. \A e \in index' : IsTrue(e)'
    BY <2>1, <2>2 DEF IsTrue
  <2> QED BY <2>1, <2>3 DEF TruthInv, Merging
<1>6. CASE Rebuild \/ ClearCoverage \/ ClearFiles \/ RebuildAfterCompact
  <2>1. pc' \in {"clear", "clear files", "next"} /\ (cmd' = "rebuild" \/ cmd' = "compact")
    BY <1>6 DEF Rebuild, ClearCoverage, ClearFiles, RebuildAfterCompact, Held, Steps
  <2> QED BY <2>1 DEF TruthInv, Merging
<1>7. CASE Compact
  <2>1. pc = "idle" /\ pc' = "group" /\ cmd' = "compact" /\ UNCHANGED <<disk, index>>
    BY <1>7 DEF Compact, stored
  <2>2. \A e \in index' : IsTrue(e)'
    BY <2>1 DEF TruthInv, IsTrue
  <2> QED BY <2>1, <2>2 DEF TruthInv, Merging
<1>8. CASE MergeGroup
  <2>0. pc = "group" /\ cmd = "compact" /\ plan \subseteq Groups /\ index' = index
    BY <1>8, MergeSteps
  <2>1. \A e \in index : SeriesOf(e[2]) \in plan => IsTrue(e)
    BY <2>0 DEF TruthInv, Merging
  <2>2. \A s \in plan : \A e \in Sources(s) : e[2] \in Readable
    <3>1. \A s \in plan : \A e \in Sources(s) : e \in index /\ SeriesOf(e[2]) = s
      BY DEF Sources
    <3>2. \A s \in plan : \A e \in Sources(s) : disk[e[2]] = e[1] /\ e \in Rows \X Paths
      BY <1>0, <2>1, <3>1 DEF IsTrue
    <3> QED BY <1>r, <3>2
  <2>3. PICK s \in plan :
          /\ at' \in Paths /\ SeriesOf(at') = s /\ disk' = [disk EXCEPT ![at'] = Torn]
          /\ scan' = {e[2] : e \in Sources(s)}
          /\ plan' = plan \ {s} /\ pc' = "write" /\ UNCHANGED cmd
    BY <1>8, <2>2, MergeSteps
  <2>4. \A p \in scan' : SeriesOf(p) = s
    BY <2>3 DEF Sources
  <2>5. \A e \in index : SeriesOf(e[2]) \in plan' => IsTrue(e)'
    BY <1>0, <2>1, <2>3 DEF IsTrue, DiskType
  <2> QED BY <2>0, <2>3, <2>4, <2>5 DEF TruthInv, Merging
<1>9. CASE Unlink
  <2>1. PICK p \in scan : disk' = [disk EXCEPT ![p] = NoFile] /\ scan' = scan \ {p}
    BY <1>9 DEF Unlink
  <2>2. pc = "unlink" /\ cmd = "compact" /\ UNCHANGED <<index, pc, cmd, plan>>
    BY <1>9 DEF Unlink, Held, Steps
  <2>3. /\ \A e \in index : SeriesOf(e[2]) \in plan => IsTrue(e)
        /\ \A q \in scan : SeriesOf(q) \notin plan
    BY <2>2 DEF TruthInv, Merging
  <2>4. \A e \in index : SeriesOf(e[2]) \in plan => IsTrue(e)'
    BY <1>0, <2>1, <2>3 DEF IsTrue, DiskType
  <2> QED BY <2>1, <2>2, <2>3, <2>4 DEF TruthInv, Merging
<1>10. CASE NextGroup
  <2>1. pc = "unlink" /\ cmd = "compact" /\ pc' = "group" /\ UNCHANGED <<disk, index, cmd, plan>>
    BY <1>10 DEF NextGroup, Held, Steps, stored, local
  <2>2. \A e \in index : SeriesOf(e[2]) \in plan => IsTrue(e)
    BY <2>1 DEF TruthInv, Merging
  <2>3. \A e \in index' : SeriesOf(e[2]) \in plan' => IsTrue(e)'
    BY <2>1, <2>2 DEF IsTrue
  <2> QED BY <2>1, <2>3 DEF TruthInv, Merging
<1>11. CASE Cleanup
  <2>1. pc = "idle" /\ pc' = "delete" /\ cmd' = "cleanup" /\ UNCHANGED <<disk, index>>
        /\ scan' = OnDisk \ Registered
    BY <1>11 DEF Cleanup, stored
  <2>2. (\A e \in index : IsTrue(e))' /\ (scan \intersect Registered = {})'
    BY <2>1 DEF TruthInv, IsTrue, Registered
  <2> QED BY <2>1, <2>2 DEF TruthInv, Merging
<1>12. CASE DeleteOrphan
  <2>1. PICK p \in scan : disk' = [disk EXCEPT ![p] = NoFile] /\ scan' = scan \ {p}
    BY <1>12 DEF DeleteOrphan
  <2>2. pc = "delete" /\ cmd = "cleanup" /\ UNCHANGED <<index, pc, cmd>>
    BY <1>12 DEF DeleteOrphan, Held, Steps
  <2>3. (\A e \in index : IsTrue(e)) /\ \A e \in index : e[2] \notin scan
    BY <2>2 DEF TruthInv, Registered
  <2>4. (\A e \in index : IsTrue(e))'
    BY <1>0, <2>1, <2>2, <2>3 DEF IsTrue, DiskType
  <2>5. (scan \intersect Registered = {})'
    BY <2>1, <2>2, <2>3 DEF Registered
  <2> QED BY <2>2, <2>4, <2>5 DEF TruthInv, Merging
<1>13. CASE EndCleanup
  <2>1. pc = "delete" /\ cmd = "cleanup" /\ pc' = "idle" /\ cmd' = "none" /\ UNCHANGED <<disk, index>>
    BY <1>13 DEF EndCleanup, Finish, Held, Steps, stored
  <2>2. (\A e \in index : IsTrue(e))'
    BY <2>1 DEF TruthInv, IsTrue
  <2> QED BY <2>1, <2>2 DEF TruthInv, Merging
<1> QED BY <1>2, <1>3, <1>4, <1>5, <1>6, <1>7, <1>8, <1>9, <1>10, <1>11, <1>12, <1>13 DEF Next
----
(***************************************************************************)
(* Where the recorded bars are.                                            *)
(***************************************************************************)
LEMMA KeepStep ==
  ASSUME TypeOK, Held, PartsSound, RecountInv, KeepInv, Next
  PROVE  KeepInv'
<1>0. /\ DiskType /\ index \in SUBSET (Rows \X Paths) /\ IsFiniteSet(index) /\ reckless \in BOOLEAN
  BY TypeParts DEF Held, StatusType
<1>r. \A p : p \in Readable <=> p \in Paths /\ disk[p] \in Rows
  BY <1>0, ReadableHoldsRows DEF DiskType
<1>1. reckless => reckless'
  BY DEF Next, Download, WriteRows, InsertRow, DropCoverage, PutCoverage, NextFile, Rebuild,
         ClearCoverage, ClearFiles, Compact, MergeGroup, Unlink, NextGroup, RebuildAfterCompact,
         Cleanup, DeleteOrphan, EndCleanup, Crash, history
<1> SUFFICES ASSUME ~reckless, ~reckless' PROVE KeepInv'
  BY <1>1 DEF KeepInv
<1>k. \A a \in acked :
        \/ \E p \in Readable : Holds(p, a)
        \/ cmd = "download" /\ pc = "write" /\ SeriesOf(at) = a[1] /\ a[2] \in DOMAIN rows
  BY Zenon DEF KeepInv
<1>2. ~(cmd = "download" /\ pc = "write") => \A a \in acked : \E p \in Readable : Holds(p, a)
  BY <1>k
<1>o. ASSUME Merging, NEW s \in plan
      PROVE  OutputPath(s) \in Paths /\ SeriesOf(OutputPath(s)) = s /\ disk[OutputPath(s)] = NoFile
  <2>1. s \in Series /\ Sources(s) # {}
    BY <1>0, <1>o, GroupHasSources DEF Held
  <2> QED BY <1>0, <1>o, <2>1, OutputPathType, PathsType DEF KeepInv
\* A command that does not touch the disk leaves every bar where it is.
<1>3. ASSUME UNCHANGED <<disk, acked>>, ~(cmd = "download" /\ pc = "write"),
             pc' \notin {"group", "write", "unlink", "delete"}
      PROVE  KeepInv'
  <2>1. Readable' = Readable /\ \A p, a : Holds(p, a)' = Holds(p, a)
    BY <1>3 DEF Readable, OnDisk, Holds
  <2>2. \A a \in acked' : \E p \in Readable' : Holds(p, a)'
    BY <1>2, <1>3, <2>1
  <2> QED BY <1>3, <2>2 DEF KeepInv, Merging
<1>4. ASSUME NEW s \in Series, NEW r \in Rows, Download(s, r) PROVE KeepInv'
  <2>1. /\ pc = "idle" /\ pc' = "write" /\ cmd' = "download" /\ at' = <<"part", s, r>> /\ rows' = r
        /\ disk' = [disk EXCEPT ![at'] = Torn] /\ acked' = acked
    BY <1>4 DEF Download, history
  <2>2. at' \in PartPaths /\ at' \in Paths /\ at'[3] = r
    BY <2>1, PathsType
  <2>3. ASSUME NEW a \in acked
        PROVE  \/ \E p \in Readable' : Holds(p, a)'
               \/ SeriesOf(at') = a[1] /\ a[2] \in DOMAIN rows'
    <3>1. PICK p \in Readable : Holds(p, a)
      BY <1>2, <2>1
    <3>2. CASE p = at'
      <4>1. disk[p] = r
        BY <1>r, <2>2, <3>2, Markers DEF PartsSound
      <4> QED BY <2>1, <3>1, <3>2, <4>1 DEF Holds
    <3>3. CASE p # at'
      <4>1. disk'[p] = disk[p] /\ p \in Paths
        BY <1>0, <1>r, <2>1, <3>3 DEF DiskType
      <4> QED BY <3>1, <4>1 DEF Holds, Readable, OnDisk
    <3> QED BY <3>2, <3>3
  <2> QED BY <2>1, <2>3 DEF KeepInv, Merging
<1>5. CASE WriteRows
  <2>1. /\ pc = "write" /\ disk' = [disk EXCEPT ![at] = rows]
        /\ at \in Paths /\ rows \in Rows /\ UNCHANGED <<index, cmd, scan, plan, acked>>
        /\ (cmd = "download" /\ pc' = "insert") \/ (cmd = "compact" /\ pc' = "unlink")
    BY <1>5 DEF WriteRows, Held, Steps, history
  <2>2. /\ disk'[at] = rows /\ at \in Readable'
        /\ \A p \in Paths : p # at => disk'[p] = disk[p]
    BY <1>0, <2>1, Markers DEF DiskType, Readable, OnDisk
  <2>3. \A p \in Readable : p # at => p \in Readable'
    BY <2>2 DEF Readable, OnDisk
  <2>4. CASE cmd = "download"
    <3>1. at \in PartPaths /\ rows = at[3]
      BY <2>1, <2>4 DEF Held
    <3>2. at \in Readable => disk[at] = rows
      BY <1>r, <3>1, Markers DEF PartsSound
    <3>3. \A a \in acked : \/ \E p \in Readable : Holds(p, a)
                           \/ SeriesOf(at) = a[1] /\ a[2] \in DOMAIN rows
      BY <1>k
    <3>4. \A a \in acked : \E p \in Readable' : Holds(p, a)'
      <4> SUFFICES ASSUME NEW a \in acked PROVE \E p \in Readable' : Holds(p, a)'
        OBVIOUS
      <4>1. CASE SeriesOf(at) = a[1] /\ a[2] \in DOMAIN rows
        BY <2>2, <4>1 DEF Holds
      <4>2. ASSUME NEW p \in Readable, Holds(p, a) PROVE \E x \in Readable' : Holds(x, a)'
        <5>1. disk'[p] = disk[p] /\ p \in Readable'
          BY <1>r, <2>2, <2>3, <3>2
        <5> QED BY <4>2, <5>1 DEF Holds
      <4> QED BY <3>3, <4>1, <4>2
    <3> QED BY <2>1, <2>4, <3>4 DEF KeepInv, Merging
  <2>5. CASE cmd = "compact"
    <3>1. /\ at \notin Readable /\ scan \subseteq Readable /\ SeriesOf(at) \notin plan
          /\ \A p \in scan : SeriesOf(p) = SeriesOf(at) /\ DOMAIN disk[p] \subseteq DOMAIN rows
      BY <2>1, <2>5 DEF KeepInv
    <3>2. \A p \in Readable : p \in Readable' /\ disk'[p] = disk[p]
      BY <1>r, <2>2, <2>3, <3>1
    <3>3. \A a \in acked' : \E p \in Readable' : Holds(p, a)'
      BY <1>2, <2>1, <2>5, <3>2 DEF Holds
    <3>4. Merging /\ \A s : OutputPath(s)' = OutputPath(s)
      BY <2>1, <2>5 DEF Merging, OutputPath, Sources
    <3>5. \A s \in plan' : disk'[OutputPath(s)'] = NoFile
      BY <1>o, <2>1, <2>2, <3>1, <3>4
    <3>6. /\ scan' \subseteq Readable' /\ at \in Readable' \ scan' /\ SeriesOf(at) \notin plan'
          /\ \A p \in scan' : SeriesOf(p) = SeriesOf(at) /\ DOMAIN disk'[p] \subseteq DOMAIN disk'[at]
      BY <2>1, <2>2, <3>1, <3>2
    <3> QED BY <2>1, <2>5, <3>3, <3>5, <3>6 DEF KeepInv
  <2> QED BY <2>1, <2>4, <2>5
<1>6. CASE InsertRow \/ DropCoverage \/ NextFile \/ Rebuild \/ ClearCoverage \/ ClearFiles \/ RebuildAfterCompact
  <2>1. /\ UNCHANGED <<disk, acked>> /\ pc # "write"
        /\ pc' \in {"idle", "drop", "put", "insert", "clear", "clear files", "next"}
    BY <1>6 DEF InsertRow, DropCoverage, NextFile, Rebuild, ClearCoverage, ClearFiles,
           RebuildAfterCompact, Finish, stored, history
  <2> QED BY <1>3, <2>1
<1>7. CASE PutCoverage
  <2>1. pc = "put" /\ disk' = disk /\ pc' \in {"idle", "next"} /\ at \in Readable
    BY <1>7 DEF PutCoverage, Finish, Held
  <2>2. acked' = acked \/ acked' = acked \union {<<SeriesOf(at), d>> : d \in DOMAIN disk[at]}
    BY <1>7 DEF PutCoverage
  <2>3. \A d \in DOMAIN disk[at] : Holds(at, <<SeriesOf(at), d>>)
    BY DEF Holds
  <2>4. \A a \in acked' : \E p \in Readable : Holds(p, a)
    BY <1>2, <2>1, <2>2, <2>3
  <2>5. Readable' = Readable /\ \A p, a : Holds(p, a)' = Holds(p, a)
    BY <2>1 DEF Readable, OnDisk, Holds
  <2>6. \A a \in acked' : \E p \in Readable' : Holds(p, a)'
    BY <2>4, <2>5
  <2> QED BY <2>1, <2>6 DEF KeepInv, Merging
<1>8. CASE Compact
  <2>1. /\ pc = "idle" /\ pc' = "group" /\ cmd' = "compact" /\ plan' = Groups
        /\ UNCHANGED <<disk, index, acked>>
    BY <1>8 DEF Compact, stored
  <2>2. \A s \in Groups : disk[OutputPath(s)] = NoFile
    BY <1>8 DEF Compact
  <2>3. Readable' = Readable /\ \A p, a : Holds(p, a)' = Holds(p, a)
    BY <2>1 DEF Readable, OnDisk, Holds
  <2>4. \A a \in acked' : \E p \in Readable' : Holds(p, a)'
    BY <1>2, <2>1, <2>3
  <2>5. \A s : OutputPath(s)' = OutputPath(s)
    BY <2>1 DEF OutputPath, Sources
  <2>6. \A s \in plan' : disk'[OutputPath(s)'] = NoFile
    BY <2>1, <2>2, <2>5
  <2> QED BY <2>1, <2>4, <2>6 DEF KeepInv
<1>9. CASE MergeGroup
  <2>0. pc = "group" /\ cmd = "compact" /\ plan \subseteq Groups /\ UNCHANGED <<index, acked>>
    BY <1>9, MergeSteps
  <2>1. CASE UNCHANGED disk /\ pc' = "idle"
    BY <1>3, <2>0, <2>1
  <2>2. ASSUME NEW s \in plan,
               at' = OutputPath(s), \A e \in Sources(s) : e[2] \in Readable,
               \A e \in Sources(s) : DOMAIN disk[e[2]] \subseteq DOMAIN rows',
               disk' = [disk EXCEPT ![at'] = Torn], scan' = {e[2] : e \in Sources(s)},
               plan' = plan \ {s}, pc' = "write", UNCHANGED cmd
        PROVE  KeepInv'
    <3>1. Merging
      BY <2>0 DEF Merging
    <3>2. at' \in Paths /\ SeriesOf(at') = s /\ disk[at'] = NoFile
      BY <1>o, <2>2, <3>1
    <3>3. /\ \A p \in Paths : p # at' => disk'[p] = disk[p]
          /\ disk'[at'] = Torn /\ at' \notin Readable /\ at' \notin Readable'
      BY <1>0, <2>2, <3>2 DEF DiskType, Readable, OnDisk
    <3>4. \A p \in Readable : p \in Readable' /\ disk'[p] = disk[p]
      BY <3>3 DEF Readable, OnDisk
    <3>5. \A a \in acked' : \E p \in Readable' : Holds(p, a)'
      BY <1>2, <2>0, <3>4 DEF Holds
    <3>6. \A x : OutputPath(x)' = OutputPath(x)
      BY <2>0 DEF OutputPath, Sources
    <3>7. \A x \in plan' : OutputPath(x) \in Paths /\ SeriesOf(OutputPath(x)) = x /\ disk[OutputPath(x)] = NoFile
      BY <1>o, <2>2, <3>1
    <3>8. \A x \in plan' : disk'[OutputPath(x)'] = NoFile
      BY <2>2, <3>2, <3>3, <3>6, <3>7
    <3>9. \A p \in scan' : p \in Readable /\ SeriesOf(p) = s /\ DOMAIN disk[p] \subseteq DOMAIN rows'
      BY <2>2 DEF Sources
    <3>10. /\ scan' \subseteq Readable' /\ SeriesOf(at') \notin plan'
           /\ \A p \in scan' : SeriesOf(p) = SeriesOf(at') /\ DOMAIN disk'[p] \subseteq DOMAIN rows'
      BY <2>2, <3>2, <3>4, <3>9
    <3> QED BY <2>0, <2>2, <3>3, <3>5, <3>8, <3>10 DEF KeepInv
  <2> QED BY <1>9, <2>1, <2>2, MergeSteps
<1>10. CASE Unlink
  <2>1. PICK d \in scan : disk' = [disk EXCEPT ![d] = NoFile] /\ scan' = scan \ {d}
    BY <1>10 DEF Unlink
  <2>2. pc = "unlink" /\ cmd = "compact" /\ UNCHANGED <<index, pc, cmd, plan, acked>>
    BY <1>10 DEF Unlink, Held, Steps, history
  <2>3. scan \subseteq Readable
    BY <2>2 DEF KeepInv
  <2>4. PICK q \in Readable \ scan :
          /\ SeriesOf(q) \notin plan
          /\ \A p \in scan : SeriesOf(p) = SeriesOf(q) /\ DOMAIN disk[p] \subseteq DOMAIN disk[q]
    BY <2>2 DEF KeepInv
  <2>5. \A p \in Readable : p # d => p \in Readable' /\ disk'[p] = disk[p]
    BY <1>0, <2>1 DEF DiskType, Readable, OnDisk
  <2>6. q \in Readable' \ scan' /\ disk'[q] = disk[q]
    BY <2>1, <2>4, <2>5
  <2>7. ASSUME NEW a \in acked PROVE \E p \in Readable' : Holds(p, a)'
    <3>1. PICK p \in Readable : Holds(p, a)
      BY <1>2, <2>2
    <3>2. CASE p = d
      BY <2>1, <2>4, <2>6, <3>1, <3>2 DEF Holds
    <3>3. CASE p # d
      BY <2>5, <3>1, <3>3 DEF Holds
    <3> QED BY <3>2, <3>3
  <2>8. Merging /\ \A s : OutputPath(s)' = OutputPath(s)
    BY <2>2 DEF Merging, OutputPath, Sources
  <2>9. \A s \in plan' : disk'[OutputPath(s)'] = NoFile
    BY <1>0, <1>o, <2>1, <2>2, <2>8 DEF DiskType
  <2>10. /\ scan' \subseteq Readable' /\ SeriesOf(q) \notin plan'
         /\ \A p \in scan' : SeriesOf(p) = SeriesOf(q) /\ DOMAIN disk'[p] \subseteq DOMAIN disk'[q]
    BY <2>1, <2>2, <2>3, <2>4, <2>5, <2>6
  <2> QED BY <2>2, <2>6, <2>7, <2>9, <2>10 DEF KeepInv
<1>11. CASE NextGroup
  <2>1. pc = "unlink" /\ cmd = "compact" /\ pc' = "group" /\ UNCHANGED <<disk, index, cmd, plan, acked>>
    BY <1>11 DEF NextGroup, Held, Steps, stored, local, history
  <2>2. Readable' = Readable /\ \A p, a : Holds(p, a)' = Holds(p, a)
    BY <2>1 DEF Readable, OnDisk, Holds
  <2>3. \A a \in acked' : \E p \in Readable' : Holds(p, a)'
    BY <1>2, <2>1, <2>2
  <2>4. Merging /\ \A s : OutputPath(s)' = OutputPath(s)
    BY <2>1 DEF Merging, OutputPath, Sources
  <2>5. \A s \in plan' : disk'[OutputPath(s)'] = NoFile
    BY <1>o, <2>1, <2>4
  <2> QED BY <2>1, <2>3, <2>5 DEF KeepInv
<1>12. CASE Cleanup
  <2>1. /\ pc = "idle" /\ pc' = "delete" /\ cmd' = "cleanup" /\ last = "rebuilt"
        /\ scan' = OnDisk \ Registered /\ UNCHANGED <<disk, acked>>
    BY <1>12 DEF Cleanup, stored
  <2>2. OrphanParquet \intersect Readable = {}
    BY <2>1 DEF RecountInv, RebuildRestoresIndex
  <2>3. Readable' = Readable /\ \A p, a : Holds(p, a)' = Holds(p, a)
    BY <2>1 DEF Readable, OnDisk, Holds
  <2>4. (scan \intersect Readable = {})'
    BY <2>1, <2>2, <2>3 DEF OrphanParquet
  <2>5. \A a \in acked' : \E p \in Readable' : Holds(p, a)'
    BY <1>2, <2>1, <2>3
  <2> QED BY <2>1, <2>4, <2>5 DEF KeepInv, Merging
<1>13. CASE DeleteOrphan
  <2>1. PICK d \in scan : disk' = [disk EXCEPT ![d] = NoFile] /\ scan' = scan \ {d}
    BY <1>13 DEF DeleteOrphan
  <2>2. pc = "delete" /\ UNCHANGED <<pc, cmd, acked>>
    BY <1>13 DEF DeleteOrphan, history
  <2>3. scan \intersect Readable = {}
    BY <2>2 DEF KeepInv
  <2>4. \A p : p \in Readable' <=> p \in Readable
    BY <1>0, <2>1, <2>3 DEF DiskType, Readable, OnDisk
  <2>5. \A p \in Readable : disk'[p] = disk[p]
    BY <1>0, <1>r, <2>1, <2>3 DEF DiskType
  <2>6. \A a \in acked' : \E p \in Readable' : Holds(p, a)'
    BY <1>2, <2>2, <2>4, <2>5 DEF Holds
  <2>7. (scan \intersect Readable = {})'
    BY <2>1, <2>3, <2>4
  <2> QED BY <2>2, <2>6, <2>7 DEF KeepInv, Merging
<1>14. CASE EndCleanup
  <2>1. pc = "delete" /\ pc' = "idle" /\ UNCHANGED <<disk, acked>>
    BY <1>14 DEF EndCleanup, Finish, stored, history
  <2> QED BY <1>3, <2>1
<1>15. CASE Crash
  <2>1. ~(cmd = "download" /\ pc = "write") /\ pc' = "idle" /\ UNCHANGED <<disk, acked>>
    BY <1>15 DEF Crash, Finish, stored
  <2> QED BY <1>3, <2>1
<1> QED BY <1>4, <1>5, <1>6, <1>7, <1>8, <1>9, <1>10, <1>11, <1>12, <1>13, <1>14, <1>15 DEF Next

LEMMA LakeStutter == LakeInv /\ UNCHANGED vars => LakeInv'
<1> SUFFICES ASSUME LakeInv, UNCHANGED vars PROVE LakeInv'
  OBVIOUS
<1>1. UNCHANGED <<disk, index, coverage, pc, cmd, scan, plan, at, rows, merged>>
  BY DEF vars, stored, local
<1>2. UNCHANGED <<last, acked, reckless, downloads, commands, crashes>>
  BY DEF vars, history, bounds
<1>3. /\ Readable' = Readable /\ Registered' = Registered /\ Groups' = Groups
      /\ \A e : IsTrue(e)' = IsTrue(e)
      /\ \A p, a : Holds(p, a)' = Holds(p, a)
      /\ \A s : Sources(s)' = Sources(s) /\ OutputPath(s)' = OutputPath(s)
                /\ CoverageConsistent(s)' = CoverageConsistent(s)
      /\ MissingRegistered' = MissingRegistered /\ OrphanParquet' = OrphanParquet
      /\ MetadataMismatches' = MetadataMismatches
  BY <1>1 DEF Readable, OnDisk, Registered, Groups, IsTrue, Holds, Sources, OutputPath,
         CoverageConsistent, MissingRegistered, OrphanParquet, MetadataMismatches
<1>4. TypeOK'
  <2>1. TypeOK
    BY DEF LakeInv
  <2>2. /\ disk' \in [Paths -> Rows \union {NoFile, Torn}] /\ index' \subseteq Rows \X Paths
        /\ coverage' \in [Series -> [lo : 0 .. NDates, hi : 0 .. NDates, files : Nat]]
        /\ merged' \in [lo : 0 .. NDates, hi : 0 .. NDates, files : Nat]
    BY <1>1, <2>1, Zenon DEF TypeOK
  <2>3. /\ (pc \in {"idle", "write", "insert", "drop", "put", "next", "clear", "clear files",
                  "group", "unlink", "delete"})'
        /\ (cmd \in {"none", "download", "rebuild", "compact", "cleanup"})'
        /\ scan' \subseteq Paths /\ plan' \subseteq Series
        /\ at' \in Paths \union {NoFile} /\ rows' \in Rows \union {NoFile}
    BY <1>1, <2>1, Zenon DEF TypeOK
  <2>4. /\ (last \in {"none", "recorded", "refused", "failed", "rebuilt", "cleaned", "crashed"})'
        /\ acked' \subseteq Series \X Dates /\ reckless' \in BOOLEAN
    BY <1>2, <2>1, Zenon DEF TypeOK
  <2>5. /\ downloads' \in 0 .. MaxDownloads /\ commands' \in 0 .. MaxCommands
        /\ crashes' \in 0 .. MaxCrashes
    BY <1>2, <2>1, Zenon DEF TypeOK
  <2> QED BY <2>2, <2>3, <2>4, <2>5 DEF TypeOK
<1>5. Held' /\ PartsSound'
  BY <1>1, <1>3 DEF LakeInv, Held, Steps, Merging, PartsSound
<1>6. RecountInv'
  BY <1>1, <1>2, <1>3 DEF LakeInv, RecountInv, Recounting, RebuildRestoresIndex
<1>7. TruthInv'
  BY <1>1, <1>2, <1>3 DEF LakeInv, TruthInv, Merging
<1>8. KeepInv'
  BY <1>1, <1>2, <1>3 DEF LakeInv, KeepInv, Merging
<1> QED BY <1>4, <1>5, <1>6, <1>7, <1>8 DEF LakeInv

LEMMA LakeInvHolds == Spec => []LakeInv
<1>1. LakeInv /\ [Next]_vars => LakeInv'
  BY LakeStutter, TypeStep, PartsStep, RecountStep, TruthStep, KeepStep DEF LakeInv
<1> QED BY LakeInit, <1>1, PTL DEF Spec
----
(***************************************************************************)
(* The tables, the directory and the running command stay within their     *)
(* types.                                                                  *)
(***************************************************************************)
THEOREM TypeCorrect == Spec => []TypeOK
BY LakeInvHolds, PTL DEF LakeInv

(***************************************************************************)
(* A rebuild that ends normally leaves nothing for `data check' to report  *)
(* but files a crash left unreadable, for any files, commands and crashes  *)
(* before it; the coverage rows count and span exactly what is registered. *)
(***************************************************************************)
THEOREM RebuildCorrect == Spec => []RebuildRestoresIndex
<1>1. LakeInv => RebuildRestoresIndex
  BY DEF LakeInv, RecountInv
<1> QED BY <1>1, LakeInvHolds, PTL

(***************************************************************************)
(* As long as no process crashed, every registered file is there with the  *)
(* rows it is registered with whenever no command runs, also after a       *)
(* compaction that deletes its own output.                                 *)
(***************************************************************************)
THEOREM RegisteredFilesCorrect == Spec => []RegisteredFilesExist
<1>1. LakeInv => RegisteredFilesExist
  <2> SUFFICES ASSUME LakeInv, crashes = 0, pc = "idle"
               PROVE  MissingRegistered = {} /\ MetadataMismatches = {}
    BY DEF RegisteredFilesExist
  <2>1. (\A e \in index : IsTrue(e)) /\ index \subseteq Rows \X Paths
    BY DEF LakeInv, TruthInv, TypeOK
  <2>2. \A e \in index : e[2] \in OnDisk /\ disk[e[2]] = e[1]
    BY <2>1, Markers DEF IsTrue, OnDisk
  <2> QED BY <2>2 DEF MissingRegistered, MetadataMismatches, Registered
<1> QED BY <1>1, LakeInvHolds, PTL

(***************************************************************************)
(* A date whose download was recorded is never lost under the operator's   *)
(* precautions that the property names, at any step of a compaction, a     *)
(* clean-up or a rebuild, and after a crash there.                         *)
(***************************************************************************)
THEOREM RecordedBarsCorrect == Spec => []RecordedBarsStay
<1>1. LakeInv => RecordedBarsStay
  BY DEF LakeInv, KeepInv, RecordedBarsStay, Holds
<1> QED BY <1>1, LakeInvHolds, PTL
----
(***************************************************************************)
(* Induction over the numbers, for a set of good ones.                     *)
(***************************************************************************)
LEMMA GoodNumbers ==
  ASSUME NEW G, 0 \in G, \A n \in Nat : n \in G => n + 1 \in G
  PROVE  \A n \in Nat : n \in G
<1> DEFINE Bad == {n \in Nat : n \notin G}
<1>1. SUFFICES ASSUME Bad # {} PROVE FALSE
  OBVIOUS
<1>2. Bad \subseteq Nat
  OBVIOUS
<1> HIDE DEF Bad
<1>3. PICK n \in Bad : \A m \in Bad : <<m, n>> \notin OpToRel(<, Nat)
  BY <1>1, <1>2, NatLessThanWellFounded, WFMin
<1> USE DEF Bad
<1>4. n # 0 /\ n \in Nat
  OBVIOUS
<1>5. n - 1 \in Nat /\ n - 1 < n
  BY <1>4
<1>6. <<n - 1, n>> \in OpToRel(<, Nat)
  BY <1>4, <1>5 DEF OpToRel
<1>7. n - 1 \in G
  BY <1>3, <1>5, <1>6
<1>8. (n - 1) + 1 \in G
  BY <1>5, <1>7
<1> QED BY <1>4, <1>8

\* The greatest of finitely many numbers.
LEMMA MaxProperties ==
  ASSUME NEW S \in SUBSET Int, IsFiniteSet(S), S # {}
  PROVE  Max(S) \in S /\ \A x \in S : x <= Max(S)
<1>1. PICK g : IsGreatest(g, S)
  BY GreatestExists
<1>2. g \in S /\ \A x \in S : g >= x
  BY <1>1 DEF IsGreatest
<1>3. Max(S) \in S /\ \A x \in S : Max(S) >= x
  BY <1>2 DEF Max
<1> QED BY <1>3

\* The least of finitely many numbers.
LEMMA MinProperties ==
  ASSUME NEW S \in SUBSET Int, IsFiniteSet(S), S # {}
  PROVE  Min(S) \in S /\ \A x \in S : Min(S) <= x
<1>1. PICK g : IsLeast(g, S)
  BY LeastExists
<1>2. g \in S /\ \A x \in S : g <= x
  BY <1>1 DEF IsLeast
<1> QED BY <1>2 DEF Min

\* The lesser of two numbers.
LEMMA MinOfTwo ==
  ASSUME NEW a \in Int, NEW b \in Int
  PROVE  Min({a, b}) = IF a <= b THEN a ELSE b
<1>1. {a, b} \in SUBSET Int /\ IsFiniteSet({a, b}) /\ {a, b} # {}
  <2>1. {a, b} = {a} \union {b}
    OBVIOUS
  <2>2. IsFiniteSet({a})
    BY FS_Singleton
  <2>3. IsFiniteSet({a} \union {b})
    BY <2>2, FS_AddElement
  <2> QED BY <2>1, <2>3
<1>2. Min({a, b}) \in {a, b} /\ \A x \in {a, b} : Min({a, b}) <= x
  BY ONLY <1>1, MinProperties
<1> QED BY <1>2

\* The greater of two numbers.
LEMMA MaxOfTwo ==
  ASSUME NEW a \in Int, NEW b \in Int
  PROVE  Max({a, b}) = IF a <= b THEN b ELSE a
<1>1. {a, b} \in SUBSET Int /\ IsFiniteSet({a, b}) /\ {a, b} # {}
  <2>1. {a, b} = {a} \union {b}
    OBVIOUS
  <2>2. IsFiniteSet({a})
    BY FS_Singleton
  <2>3. IsFiniteSet({a} \union {b})
    BY <2>2, FS_AddElement
  <2> QED BY <2>1, <2>3
<1>2. Max({a, b}) \in {a, b} /\ \A x \in {a, b} : x <= Max({a, b})
  BY ONLY <1>1, MaxProperties
<1> QED BY <1>2

\* The greatest number of a set of numbers 1 .. n.
LEMMA MaxOfNumbers ==
  ASSUME NEW n \in Nat, NEW T \in SUBSET (1 .. n), T # {}
  PROVE  Max(T) \in T /\ \A x \in T : x <= Max(T)
<1>1. IsFiniteSet(1 .. n) /\ 1 .. n \subseteq Int
  BY FS_Interval
<1>2. IsFiniteSet(T) /\ T \in SUBSET Int
  BY <1>1, FS_Subset
<1> QED BY <1>2, MaxProperties

(***************************************************************************)
(* A fold over 1 .. n goes through a state for each number: F tells the    *)
(* folds over the subsets of 1 .. n, each from that without its greatest   *)
(* element.                                                                *)
(***************************************************************************)
FoldTable(F, n, base, h) ==
  \A T \in SUBSET (1 .. n) : F[T] = IF T = {} THEN base ELSE h[Max(T)][F[T \ {Max(T)}]]

\* One more number: the new folds are those over sets with the new greatest element.
LEMMA FoldTableGrows ==
  ASSUME NEW States, NEW base \in States, NEW k \in Nat, NEW h,
         h[k + 1] \in [States -> States],
         NEW E \in [SUBSET (1 .. k) -> States], FoldTable(E, k, base, h)
  PROVE  \E F \in [SUBSET (1 .. k + 1) -> States] : FoldTable(F, k + 1, base, h)
<1> DEFINE F == [T \in SUBSET (1 .. k + 1) |->
                   IF k + 1 \in T THEN h[k + 1][E[T \ {k + 1}]] ELSE E[T]]
<1>1. \A T \in SUBSET (1 .. k + 1) : T \ {k + 1} \in SUBSET (1 .. k)
  OBVIOUS
<1>2. \A T \in SUBSET (1 .. k + 1) : k + 1 \notin T => T \in SUBSET (1 .. k)
  OBVIOUS
<1>3. F \in [SUBSET (1 .. k + 1) -> States]
  <2>1. ASSUME NEW T \in SUBSET (1 .. k + 1)
        PROVE  (IF k + 1 \in T THEN h[k + 1][E[T \ {k + 1}]] ELSE E[T]) \in States
    <3>1. CASE k + 1 \in T
      <4>1. E[T \ {k + 1}] \in States
        BY <1>1
      <4> QED BY <3>1, <4>1
    <3>2. CASE k + 1 \notin T
      BY <1>2, <3>2
    <3> QED BY <3>1, <3>2
  <2> QED BY <2>1
<1>4. ASSUME NEW T \in SUBSET (1 .. k + 1)
      PROVE  F[T] = IF T = {} THEN base ELSE h[Max(T)][F[T \ {Max(T)}]]
  <2>1. CASE T = {}
    <3>1. E[{}] = base
      BY DEF FoldTable
    <3> QED BY <2>1, <3>1
  <2>2. CASE k + 1 \in T
    <3>1. Max(T) = k + 1
      <4>1. k + 1 \in Nat
        OBVIOUS
      <4>2. Max(T) \in T /\ \A x \in T : x <= Max(T)
        BY <2>2, <4>1, MaxOfNumbers
      <4>3. Max(T) \in 1 .. k + 1 /\ k + 1 <= Max(T)
        BY <2>2, <4>2
      <4> QED BY <4>3
    <3>2. F[T \ {k + 1}] = E[T \ {k + 1}]
      BY <1>1
    <3> QED BY <2>2, <3>1, <3>2
  <2>3. CASE T # {} /\ k + 1 \notin T
    <3>1. T \in SUBSET (1 .. k)
      BY <1>2, <2>3
    <3>2. E[T] = h[Max(T)][E[T \ {Max(T)}]]
      BY <2>3, <3>1 DEF FoldTable
    <3>3. F[T] = E[T] /\ F[T \ {Max(T)}] = E[T \ {Max(T)}]
      BY <2>3
    <3> QED BY <2>3, <3>2, <3>3
  <2> QED BY <2>1, <2>2, <2>3
<1> HIDE DEF F
<1> QED BY <1>3, <1>4 DEF FoldTable

\* The table of the folds, so that the CHOOSE of the fold operators finds it.
LEMMA FoldTableExists ==
  ASSUME NEW n \in Nat, NEW States, NEW base \in States,
         NEW h \in [1 .. n -> [States -> States]]
  PROVE  \E F \in [SUBSET (1 .. n) -> States] : FoldTable(F, n, base, h)
<1> DEFINE Known(k) == k <= n =>
                 \E F \in [SUBSET (1 .. k) -> States] : FoldTable(F, k, base, h)
           Good == {k \in Nat : Known(k)}
<1>1. 0 \in Good
  <2> DEFINE F == [T \in SUBSET (1 .. 0) |-> base]
  <2>1. \A T \in SUBSET (1 .. 0) : T = {}
    OBVIOUS
  <2>2. F \in [SUBSET (1 .. 0) -> States] /\ FoldTable(F, 0, base, h)
    BY <2>1 DEF FoldTable
  <2> HIDE DEF F
  <2> QED BY <2>2
<1>2. ASSUME NEW k \in Nat, k \in Good PROVE k + 1 \in Good
  <2>1. ASSUME k + 1 <= n PROVE Known(k + 1)
    <3>0. Known(k)
      BY <1>2
    <3>1. k <= n
      BY <2>1
    <3>2. PICK E \in [SUBSET (1 .. k) -> States] : FoldTable(E, k, base, h)
      BY <3>0, <3>1
    <3>3. h[k + 1] \in [States -> States]
      BY <2>1
    <3> QED BY <3>2, <3>3, FoldTableGrows
  <2>2. Known(k + 1)
    BY <2>1
  <2> HIDE DEF Known
  <2> QED BY <2>2
<1> HIDE DEF Good
<1>3. n \in Good
  BY <1>1, <1>2, GoodNumbers
<1>4. Known(n)
  BY <1>3 DEF Good
<1>5. n <= n
  OBVIOUS
<1> QED BY <1>4, <1>5
----
(***************************************************************************)
(* Sorted: the element at i has i - 1 elements before it.  An operator     *)
(* cannot be handed to a lemma, so the lemmas speak of a relation R, the   *)
(* pairs that Before holds of.                                             *)
(***************************************************************************)
StrictTotal(R, S) ==
  /\ \A x \in S : <<x, x>> \notin R
  /\ \A x, y, z \in S : <<x, y>> \in R /\ <<y, z>> \in R => <<x, z>> \in R
  /\ \A x, y \in S : x # y => <<x, y>> \in R \/ <<y, x>> \in R

Rank(x, S, R) == Cardinality({y \in S : <<y, x>> \in R})

SortedBy(S, R) ==
  [i \in 1 .. Cardinality(S) |-> CHOOSE x \in S : Rank(x, S, R) = i - 1]

\* A later element has more elements before it.
LEMMA RankGrows ==
  ASSUME NEW S, IsFiniteSet(S), NEW R, StrictTotal(R, S), NEW x \in S, NEW y \in S, <<x, y>> \in R
  PROVE  /\ Rank(x, S, R) \in Nat /\ Rank(y, S, R) \in Nat
         /\ Rank(x, S, R) < Rank(y, S, R)
<1> DEFINE P(z) == {u \in S : <<u, z>> \in R}
<1>1. P(x) \in SUBSET S /\ P(y) \in SUBSET S
  OBVIOUS
<1>2. P(x) \in SUBSET P(y) /\ x \in P(y) /\ x \notin P(x)
  BY DEF StrictTotal
<1>3. Rank(x, S, R) = Cardinality(P(x)) /\ Rank(y, S, R) = Cardinality(P(y))
  BY DEF Rank
<1> HIDE DEF P
<1>4. IsFiniteSet(P(x)) /\ IsFiniteSet(P(y))
  BY <1>1, FS_Subset
<1>5. Cardinality(P(x)) \in Nat /\ Cardinality(P(y)) \in Nat
  BY <1>4, FS_CardinalityType
<1>6. Cardinality(P(x)) <= Cardinality(P(y)) /\ (Cardinality(P(y)) = Cardinality(P(x)) => P(y) = P(x))
  BY <1>2, <1>4, FS_Subset
<1>7. Cardinality(P(y)) # Cardinality(P(x))
  BY <1>2, <1>6
<1> QED BY <1>3, <1>5, <1>6, <1>7

\* The places are 0 .. n - 1.
LEMMA RankType ==
  ASSUME NEW S, IsFiniteSet(S), NEW R, StrictTotal(R, S), NEW x \in S
  PROVE  Rank(x, S, R) \in 0 .. Cardinality(S) - 1 /\ Cardinality(S) \in Nat
<1> DEFINE P == {u \in S : <<u, x>> \in R}
<1>1. P \in SUBSET S /\ x \notin P
  BY DEF StrictTotal
<1>2. Rank(x, S, R) = Cardinality(P)
  BY DEF Rank
<1> HIDE DEF P
<1>3. Cardinality(P) <= Cardinality(S) /\ (Cardinality(S) = Cardinality(P) => S = P) /\ IsFiniteSet(P)
  BY <1>1, FS_Subset
<1>4. Cardinality(P) \in Nat /\ Cardinality(S) \in Nat
  BY <1>3, FS_CardinalityType
<1>5. Cardinality(S) # Cardinality(P)
  BY <1>1, <1>3
<1> QED BY <1>2, <1>3, <1>4, <1>5

\* No two elements have the same place.
LEMMA RankDiffers ==
  ASSUME NEW S, IsFiniteSet(S), NEW R, StrictTotal(R, S), NEW x \in S, NEW y \in S,
         Rank(x, S, R) = Rank(y, S, R)
  PROVE  x = y
<1>1. SUFFICES ASSUME x # y PROVE FALSE
  OBVIOUS
<1>2. CASE <<x, y>> \in R
  <2>1. Rank(x, S, R) \in Nat /\ Rank(x, S, R) < Rank(y, S, R)
    BY <1>2, RankGrows
  <2> QED BY <2>1
<1>3. CASE <<y, x>> \in R
  <2>1. Rank(y, S, R) \in Nat /\ Rank(y, S, R) < Rank(x, S, R)
    BY <1>3, RankGrows
  <2> QED BY <2>1
<1> QED BY <1>1, <1>2, <1>3 DEF StrictTotal

\* Each place is taken.
LEMMA RankReached ==
  ASSUME NEW S, IsFiniteSet(S), NEW R, StrictTotal(R, S), NEW i \in 1 .. Cardinality(S)
  PROVE  \E x \in S : Rank(x, S, R) = i - 1
<1> DEFINE n == Cardinality(S)
           f == [x \in S |-> Rank(x, S, R) + 1]
<1>0. n \in Nat
  BY FS_CardinalityType
<1>1. \A x \in S : Rank(x, S, R) \in 0 .. n - 1
  BY RankType
<1>2. f \in [S -> 1 .. n]
  <2>1. \A x \in S : Rank(x, S, R) + 1 \in 1 .. n
    BY <1>0, <1>1
  <2> QED BY <2>1
<1>3. ASSUME NEW x \in S, NEW y \in S, f[x] = f[y]
      PROVE  x = y
  <2>1. Rank(x, S, R) + 1 = Rank(y, S, R) + 1
    BY <1>3
  <2>2. Rank(x, S, R) = Rank(y, S, R)
    BY <1>0, <1>1, <2>1
  <2> QED BY <2>2, RankDiffers
<1>f. \A x \in S : f[x] = Rank(x, S, R) + 1
  OBVIOUS
<1> HIDE DEF f
<1>4. f \in Injection(S, 1 .. n)
  BY <1>2, <1>3 DEF Injection, IsInjective
<1>5. IsFiniteSet(1 .. n) /\ Cardinality(1 .. n) = n
  BY <1>0, FS_Interval
<1>6. f \in Surjection(S, 1 .. n)
  BY <1>4, <1>5, FS_Injection
<1>7. PICK x \in S : f[x] = i
  BY <1>6 DEF Surjection
<1>8. Rank(x, S, R) + 1 = i /\ Rank(x, S, R) \in 0 .. n - 1
  BY <1>1, <1>7, <1>f
<1> QED BY <1>0, <1>8

\* The sorted sequence lists each element once, in order, at its place.
LEMMA SortedByProperties ==
  ASSUME NEW S, IsFiniteSet(S), NEW R, StrictTotal(R, S)
  PROVE  /\ Cardinality(S) \in Nat
         /\ SortedBy(S, R) \in [1 .. Cardinality(S) -> S]
         /\ \A i \in 1 .. Cardinality(S) : Rank(SortedBy(S, R)[i], S, R) = i - 1
         /\ \A i, j \in 1 .. Cardinality(S) : i < j => <<SortedBy(S, R)[i], SortedBy(S, R)[j]>> \in R
         /\ \A x \in S : \E i \in 1 .. Cardinality(S) : SortedBy(S, R)[i] = x /\ i = Rank(x, S, R) + 1
<1> DEFINE n == Cardinality(S)
           s == SortedBy(S, R)
<1>0. n \in Nat
  BY FS_CardinalityType
<1>1. ASSUME NEW i \in 1 .. n PROVE s[i] \in S /\ Rank(s[i], S, R) = i - 1
  <2>1. s[i] = CHOOSE x \in S : Rank(x, S, R) = i - 1
    BY DEF SortedBy
  <2>2. \E x \in S : Rank(x, S, R) = i - 1
    BY RankReached
  <2> QED BY <2>1, <2>2
<1>2. s \in [1 .. n -> S]
  <2>1. s = [i \in 1 .. n |-> s[i]]
    BY DEF SortedBy
  <2> HIDE DEF s
  <2> QED BY <1>1, <2>1
<1> HIDE DEF s
<1>3. ASSUME NEW i \in 1 .. n, NEW j \in 1 .. n, i < j PROVE <<s[i], s[j]>> \in R
  <2>1. s[i] # s[j]
    <3>1. i - 1 # j - 1
      BY <1>3
    <3> QED BY <1>1, <3>1
  <2>2. CASE <<s[j], s[i]>> \in R
    <3>1. Rank(s[j], S, R) < Rank(s[i], S, R)
      BY <1>1, <2>2, RankGrows
    <3>2. j - 1 < i - 1
      BY <1>1, <3>1
    <3> QED BY <1>0, <1>3, <3>2
  <2> QED BY <1>1, <2>1, <2>2 DEF StrictTotal
<1>4. ASSUME NEW x \in S PROVE \E i \in 1 .. n : s[i] = x /\ i = Rank(x, S, R) + 1
  <2>1. Rank(x, S, R) \in 0 .. n - 1
    BY RankType
  <2>2. Rank(x, S, R) + 1 \in 1 .. n
    BY <1>0, <2>1
  <2> DEFINE k == Rank(x, S, R) + 1
  <2>3. s[k] \in S /\ Rank(s[k], S, R) = k - 1
    BY <1>1, <2>2
  <2>4. k - 1 = Rank(x, S, R)
    BY <2>1
  <2>5. s[k] = x
    BY <2>3, <2>4, RankDiffers
  <2> QED BY <2>2, <2>5
<1>5. \A i \in 1 .. n : Rank(s[i], S, R) = i - 1
  BY <1>1
<1> QED BY <1>0, <1>2, <1>3, <1>4, <1>5 DEF s

\* The sorted sequence is the only one in that order.
LEMMA SortedByUnique ==
  ASSUME NEW S, IsFiniteSet(S), NEW R, StrictTotal(R, S), NEW n \in Nat, NEW t \in [1 .. n -> S],
         \A i, j \in 1 .. n : i < j => <<t[i], t[j]>> \in R,
         \A x \in S : \E i \in 1 .. n : t[i] = x
  PROVE  t = SortedBy(S, R) /\ n = Cardinality(S)
<1>1. \A i, j \in 1 .. n : i # j => t[i] # t[j]
  <2>1. ASSUME NEW i \in 1 .. n, NEW j \in 1 .. n, i # j PROVE t[i] # t[j]
    <3>1. i < j \/ j < i
      BY <2>1
    <3> QED BY <3>1 DEF StrictTotal
  <2> QED BY <2>1
<1>2. t \in Bijection(1 .. n, S)
  BY <1>1 DEF Bijection, Injection, Surjection, IsInjective
<1>3. n = Cardinality(S)
  BY <1>2, FS_CountingElements DEF ExistsBijection
<1>4. ASSUME NEW i \in 1 .. n PROVE Rank(t[i], S, R) = i - 1
  <2> DEFINE P == {y \in S : <<y, t[i]>> \in R}
             g == [j \in 1 .. i - 1 |-> t[j]]
  <2>1. \A j \in 1 .. i - 1 : j \in 1 .. n /\ j < i
    OBVIOUS
  <2>2. ASSUME NEW y \in P PROVE \E j \in 1 .. i - 1 : t[j] = y
    <3>1. PICK j \in 1 .. n : t[j] = y
      OBVIOUS
    <3>2. ~(i < j)
      <4>1. SUFFICES ASSUME i < j PROVE FALSE
        OBVIOUS
      <4>2. <<t[i], t[j]>> \in R /\ <<t[j], t[i]>> \in R
        BY <3>1, <4>1
      <4> QED BY <4>2 DEF StrictTotal
    <3>3. i # j
      BY <3>1 DEF StrictTotal
    <3> QED BY <3>1, <3>2, <3>3
  <2>3. g \in [1 .. i - 1 -> P]
    BY <2>1
  <2>4. \A j \in 1 .. i - 1 : g[j] = t[j]
    OBVIOUS
  <2>5. Rank(t[i], S, R) = Cardinality(P)
    BY DEF Rank
  <2> HIDE DEF P, g
  <2>6. g \in Surjection(1 .. i - 1, P)
    BY <2>2, <2>3, <2>4 DEF Surjection
  <2>7. g \in Injection(1 .. i - 1, P)
    BY <1>1, <2>1, <2>3, <2>4 DEF Injection, IsInjective
  <2>8. ExistsBijection(1 .. i - 1, P)
    BY <2>6, <2>7 DEF ExistsBijection, Bijection
  <2>9. i - 1 \in Nat
    OBVIOUS
  <2> QED BY <2>5, <2>8, <2>9, FS_CountingElements
<1>5. ASSUME NEW i \in 1 .. n PROVE t[i] = SortedBy(S, R)[i]
  <2>1. SortedBy(S, R)[i] \in S /\ Rank(SortedBy(S, R)[i], S, R) = i - 1
    BY <1>3, SortedByProperties
  <2> QED BY <1>4, <2>1, RankDiffers
<1>6. SortedBy(S, R) \in [1 .. n -> S]
  BY <1>3, SortedByProperties
<1> QED BY <1>3, <1>5, <1>6


\* A sequence in which each element is where its rank says is the sorted one.
LEMMA RankedIsSorted ==
  ASSUME NEW S, IsFiniteSet(S), NEW R, StrictTotal(R, S),
         NEW n \in Nat, n = Cardinality(S), NEW t \in [1 .. n -> S],
         \A i \in 1 .. n : Rank(t[i], S, R) = i - 1
  PROVE  t = SortedBy(S, R)
<1>1. SortedBy(S, R) \in [1 .. n -> S]
  BY SortedByProperties
<1>2. ASSUME NEW i \in 1 .. n PROVE t[i] = SortedBy(S, R)[i]
  <2>1. SortedBy(S, R)[i] \in S /\ Rank(SortedBy(S, R)[i], S, R) = i - 1
    BY SortedByProperties
  <2>2. t[i] \in S /\ Rank(t[i], S, R) = i - 1
    OBVIOUS
  <2> QED BY <2>1, <2>2, RankDiffers
<1> QED BY <1>1, <1>2

\* The segments of a symbol, in the order SegmentBefore.
SegmentsOf(symbol) == [symbol : {symbol}, start : Int, end : Int]

SegmentOrder(own) == {p \in own \X own : SegmentBefore(p[1], p[2])}

\* SegmentBefore orders the segments of one symbol.
LEMMA SegmentOrderIsStrict ==
  ASSUME NEW symbol, NEW own \in SUBSET SegmentsOf(symbol)
  PROVE  StrictTotal(SegmentOrder(own), own)
<1>1. \A x \in own : x = [symbol |-> symbol, start |-> x.start, end |-> x.end] /\ x.start \in Int /\ x.end \in Int
  BY DEF SegmentsOf
<1>2. \A x, y \in own : <<x, y>> \in SegmentOrder(own) <=> SegmentBefore(x, y)
  BY DEF SegmentOrder
<1>3. \A x \in own : ~SegmentBefore(x, x)
  BY <1>1 DEF SegmentBefore
<1>4. \A x, y, z \in own : SegmentBefore(x, y) /\ SegmentBefore(y, z) => SegmentBefore(x, z)
  BY <1>1 DEF SegmentBefore
<1>5. \A x, y \in own : x # y => SegmentBefore(x, y) \/ SegmentBefore(y, x)
  BY <1>1 DEF SegmentBefore
<1> QED BY <1>2, <1>3, <1>4, <1>5 DEF StrictTotal

\* Sorted segments, in the terms of SortedBy.
LEMMA SortedSegments ==
  ASSUME NEW symbol, NEW own \in SUBSET SegmentsOf(symbol), IsFiniteSet(own)
  PROVE  Sorted(own, SegmentBefore) = SortedBy(own, SegmentOrder(own))
<1> DEFINE n == Cardinality(own)
           t == Sorted(own, SegmentBefore)
           Lower(x) == {y \in own : SegmentBefore(y, x)}
<1>1. StrictTotal(SegmentOrder(own), own)
  BY SegmentOrderIsStrict
<1>2. ASSUME NEW x \in own PROVE Cardinality(Lower(x)) = Rank(x, own, SegmentOrder(own))
  <2>1. Lower(x) = {y \in own : <<y, x>> \in SegmentOrder(own)}
    BY DEF SegmentOrder
  <2> QED BY <2>1 DEF Rank
<1>3. ASSUME NEW i \in 1 .. n PROVE t[i] \in own /\ Rank(t[i], own, SegmentOrder(own)) = i - 1
  <2>1. t[i] = CHOOSE x \in own : Cardinality(Lower(x)) = i - 1
    BY DEF Sorted
  <2>2. \E x \in own : Rank(x, own, SegmentOrder(own)) = i - 1
    BY <1>1, RankReached
  <2>3. \E x \in own : Cardinality(Lower(x)) = i - 1
    BY <1>2, <2>2
  <2> HIDE DEF t, Lower
  <2>4. t[i] \in own /\ Cardinality(Lower(t[i])) = i - 1
    BY <2>1, <2>3
  <2> QED BY <1>2, <2>4
<1>4. t \in [1 .. n -> own]
  <2>1. t = [i \in 1 .. n |-> CHOOSE x \in own : Cardinality(Lower(x)) = i - 1]
    BY DEF Sorted
  <2> HIDE DEF t, Lower
  <2>2. t = [i \in 1 .. n |-> t[i]]
    BY <2>1
  <2> QED BY <1>3, <2>2
<1> HIDE DEF t
<1>5. n \in Nat
  BY FS_CardinalityType
<1>6. t = SortedBy(own, SegmentOrder(own))
  BY <1>1, <1>3, <1>4, <1>5, RankedIsSorted
<1> QED BY <1>6 DEF t


(***************************************************************************)
(* The sweep as a sequence of states: acc[i] after the first i segments.   *)
(***************************************************************************)
VisitAll(base, ranges, symbol, req) ==
  FoldLeft(LAMBDA a, r : Visit(a, r, symbol, req), base, ranges)

VisitsWithin(n, ranges, symbol, req, States) ==
  /\ DOMAIN ranges = 1 .. n
  /\ \A a \in States, i \in 1 .. n : Visit(a, ranges[i], symbol, req) \in States

IsTrace(acc, n, ranges, symbol, req, base) ==
  /\ acc[0] = base
  /\ \A i \in 1 .. n : acc[i] = Visit(acc[i - 1], ranges[i], symbol, req)
  /\ VisitAll(base, ranges, symbol, req) = acc[n]

\* The sweep of the planner goes through one state for each segment.
LEMMA SweepTrace ==
  ASSUME NEW n \in Nat, NEW ranges, NEW symbol, NEW req, NEW States, NEW base \in States,
         VisitsWithin(n, ranges, symbol, req, States)
  PROVE  \E acc \in [0 .. n -> States] : IsTrace(acc, n, ranges, symbol, req, base)
<1> DEFINE V(a, i) == Visit(a, ranges[i], symbol, req)
           h == [i \in 1 .. n |-> [a \in States |-> V(a, i)]]
           IsTable(f) == f = [T \in SUBSET (1 .. n) |->
                                IF T = {} THEN base ELSE V(f[T \ {Max(T)}], Max(T))]
           table == CHOOSE f : IsTable(f)
           acc == [i \in 0 .. n |-> table[1 .. i]]
<1>0. DOMAIN ranges = 1 .. n
  BY DEF VisitsWithin
<1>1. VisitAll(base, ranges, symbol, req) = table[1 .. n]
  <2>1. VisitAll(base, ranges, symbol, req)
          = (CHOOSE f : f = [T \in SUBSET DOMAIN ranges |->
               IF T = {} THEN base
               ELSE Visit(f[T \ {Max(T)}], ranges[Max(T)], symbol, req)])[DOMAIN ranges]
    BY DEF VisitAll, FoldLeft, MapThenFoldSet
  <2> QED BY <1>0, <2>1
<1> HIDE DEF V
<1>2. \A a \in States, i \in 1 .. n : V(a, i) \in States
  BY DEF V, VisitsWithin
<1>3. h \in [1 .. n -> [States -> States]]
  BY <1>2
<1>4. \A i \in 1 .. n : \A a \in States : h[i][a] = V(a, i)
  OBVIOUS
<1> HIDE DEF h
<1>5. PICK F \in [SUBSET (1 .. n) -> States] : FoldTable(F, n, base, h)
  BY <1>3, FoldTableExists
<1>6. \A T \in SUBSET (1 .. n) : T # {} => Max(T) \in 1 .. n /\ T \ {Max(T)} \in SUBSET (1 .. n)
  BY MaxOfNumbers
<1>7. IsTable(F)
  <2>1. \A T \in SUBSET (1 .. n) : F[T] = IF T = {} THEN base ELSE V(F[T \ {Max(T)}], Max(T))
    <3>1. ASSUME NEW T \in SUBSET (1 .. n) PROVE F[T] = IF T = {} THEN base ELSE V(F[T \ {Max(T)}], Max(T))
      <4>1. F[T] = IF T = {} THEN base ELSE h[Max(T)][F[T \ {Max(T)}]]
        BY <1>5 DEF FoldTable
      <4>2. CASE T # {}
        <5>1. Max(T) \in 1 .. n /\ F[T \ {Max(T)}] \in States
          BY <1>6, <4>2
        <5> QED BY <1>4, <4>1, <4>2, <5>1
      <4> QED BY <4>1, <4>2
    <3> QED BY <3>1
  <2>2. F = [T \in SUBSET (1 .. n) |-> F[T]]
    OBVIOUS
  <2> QED BY <2>1, <2>2
<1>8. IsTable(table)
  BY <1>7
<1>9. \A T \in SUBSET (1 .. n) : table[T] = IF T = {} THEN base ELSE V(table[T \ {Max(T)}], Max(T))
  <2> HIDE DEF table
  <2> QED BY <1>8
<1> HIDE DEF table, IsTable
<1>10. acc[0] = base
  <2>1. 1 .. 0 = {} /\ 0 \in 0 .. n
    OBVIOUS
  <2> QED BY <1>9, <2>1
<1>11. ASSUME NEW i \in 1 .. n PROVE acc[i] = V(acc[i - 1], i)
  <2>a. 1 .. i \in SUBSET (1 .. n)
    OBVIOUS
  <2>b. i \in Nat /\ i - 1 \in 0 .. n /\ i \in 0 .. n /\ i \in 1 .. i
    OBVIOUS
  <2>1. 1 .. i \in SUBSET (1 .. n) /\ 1 .. i # {} /\ i \in Nat /\ i - 1 \in 0 .. n /\ i \in 0 .. n
    BY <2>a, <2>b
  <2>2. Max(1 .. i) = i
    <3>1. Max(1 .. i) \in 1 .. i /\ \A x \in 1 .. i : x <= Max(1 .. i)
      BY <2>1, MaxOfNumbers
    <3>2. i \in 1 .. i
      OBVIOUS
    <3>3. i <= Max(1 .. i)
      BY <3>1, <3>2
    <3> QED BY <3>1, <3>3
  <2>3. (1 .. i) \ {i} = 1 .. i - 1
    OBVIOUS
  <2>4. table[1 .. i] = V(table[1 .. i - 1], i)
    BY <1>9, <2>1, <2>2, <2>3
  <2> QED BY <2>1, <2>4
<1>12. \A i \in 0 .. n : acc[i] \in States
  <2> DEFINE Good == {i \in Nat : i <= n => acc[i] \in States}
  <2> HIDE DEF acc
  <2>1. 0 \in Good
    BY <1>10
  <2>2. ASSUME NEW i \in Nat, i \in Good PROVE i + 1 \in Good
    <3>1. ASSUME i + 1 <= n PROVE acc[i + 1] \in States
      <4>1. i <= n /\ i + 1 \in 1 .. n /\ (i + 1) - 1 = i
        BY <3>1
      <4>2. acc[i + 1] = V(acc[i], i + 1) /\ acc[i] \in States
        BY <1>11, <2>2, <4>1
      <4> QED BY <1>2, <4>1, <4>2
    <3> QED BY <3>1
  <2> HIDE DEF Good
  <2>3. \A i \in Nat : i \in Good
    BY <2>1, <2>2, GoodNumbers
  <2> QED BY <2>3 DEF Good
<1>13. acc \in [0 .. n -> States] /\ acc[n] = table[1 .. n]
  BY <1>12
<1> HIDE DEF acc
<1> QED BY <1>1, <1>10, <1>11, <1>13 DEF V, IsTrace

(***************************************************************************)
(* What the sweep keeps, segment by segment.  Of the times from the start  *)
(* of the request up to the cursor each is in a gap or spanned by a        *)
(* segment; for daily bars no gap reaches into a segment, gaps end before  *)
(* the cursor and no two of them meet.                                     *)
(***************************************************************************)
GapsOf(symbol, req) ==
  [symbol : {symbol}, start : req.start .. req.end, end : {t \in Int : t <= req.end},
   reason : {"segment_gap", "no_matching_coverage"}]

Spans(own, t) == \E s \in own : s.start <= t /\ t <= s.end

InGap(gaps, t) == \E g \in gaps : g.start <= t /\ t <= g.end

Apart(gaps) == \A g, h \in gaps : g # h => g.end < h.start \/ h.end < g.start

SweepStates(symbol, req) ==
  {a \in [gaps : SUBSET GapsOf(symbol, req), cursor : Int] :
     IsFiniteSet(a.gaps) /\ req.start <= a.cursor}

NothingSkipped(a, own, req) ==
  \A t \in Int : req.start <= t /\ t < a.cursor /\ t <= req.end => Spans(own, t) \/ InGap(a.gaps, t)

NothingTwice(a, own, req) ==
  /\ \A t \in Int : InGap(a.gaps, t) => ~Spans(own, t)
  /\ \A g \in a.gaps : g.end < a.cursor
  /\ Apart(a.gaps)

\* What is known after the first i segments.
SweptSo(a, i, own, ranges, req) ==
  /\ NothingSkipped(a, own, req)
  /\ req.kind = "daily_bars" =>
       /\ NothingTwice(a, own, req)
       /\ a.cursor <= req.end => \A j \in 1 .. i : ranges[j].end < a.cursor

\* A request with dates in order.
DatedRequests == {req \in [kind : KindNames, symbols : SUBSET Symbols, start : Int, end : Int] :
                    req.start <= req.end}

\* A visit leads to a state of the sweep.
LEMMA VisitType ==
  ASSUME NEW symbol, NEW req \in DatedRequests, NEW r \in SegmentsOf(symbol), r.start <= req.end,
         NEW a \in SweepStates(symbol, req)
  PROVE  Visit(a, r, symbol, req) \in SweepStates(symbol, req)
<1> DEFINE g == Gap(symbol, a.cursor, PreviousValue(r.start, req), "segment_gap")
           gaps == IF r.start > a.cursor THEN a.gaps \union {g} ELSE a.gaps
           cursor == IF r.end >= a.cursor THEN NextValue(r.end, req) ELSE a.cursor
<1>1. a.gaps \in SUBSET GapsOf(symbol, req) /\ a.cursor \in Int /\ IsFiniteSet(a.gaps) /\ req.start <= a.cursor
  BY DEF SweepStates
<1>2. r.start \in Int /\ r.end \in Int /\ Day(req) \in 0 .. 1 /\ req.start \in Int /\ req.end \in Int
  BY DEF SegmentsOf, Day, DatedRequests
<1>3. PreviousValue(r.start, req) \in Int /\ PreviousValue(r.start, req) <= req.end
  BY <1>2 DEF PreviousValue
<1>4. NextValue(r.end, req) \in Int /\ r.end <= NextValue(r.end, req)
  BY <1>2 DEF NextValue
<1>5. Visit(a, r, symbol, req) = IF a.cursor > req.end THEN a ELSE [gaps |-> gaps, cursor |-> cursor]
  BY DEF Visit
<1>6. CASE a.cursor > req.end
  BY <1>5, <1>6
<1>7. CASE ~(a.cursor > req.end)
  <2>1. a.cursor \in req.start .. req.end
    BY <1>1, <1>2, <1>7
  <2>2. g \in GapsOf(symbol, req)
    BY <1>3, <2>1 DEF Gap, GapsOf
  <2> HIDE DEF g
  <2>3. a.gaps \union {g} \in SUBSET GapsOf(symbol, req) /\ IsFiniteSet(a.gaps \union {g})
    BY <1>1, <2>2, FS_AddElement
  <2>4. gaps \in SUBSET GapsOf(symbol, req) /\ IsFiniteSet(gaps)
    BY <1>1, <2>3
  <2>5. cursor \in Int /\ req.start <= cursor
    BY <1>1, <1>2, <1>4
  <2> HIDE DEF gaps, cursor
  <2>6. [gaps |-> gaps, cursor |-> cursor] \in SweepStates(symbol, req)
    BY <2>4, <2>5 DEF SweepStates
  <2> QED BY <1>5, <1>7, <2>6
<1> QED BY <1>6, <1>7

\* What a visit moves the cursor over is in a gap or spanned.
LEMMA VisitSkipsNothing ==
  ASSUME NEW symbol, NEW req \in DatedRequests, NEW own \in SUBSET SegmentsOf(symbol), NEW r \in own,
         NEW a \in SweepStates(symbol, req), NothingSkipped(a, own, req)
  PROVE  NothingSkipped(Visit(a, r, symbol, req), own, req)
<1> DEFINE g == Gap(symbol, a.cursor, PreviousValue(r.start, req), "segment_gap")
           b == Visit(a, r, symbol, req)
<1>1. a.gaps \in SUBSET GapsOf(symbol, req) /\ a.cursor \in Int
  BY DEF SweepStates
<1>2. r.start \in Int /\ r.end \in Int /\ Day(req) \in 0 .. 1 /\ req.end \in Int /\ req.start \in Int
  BY DEF SegmentsOf, Day, DatedRequests
<1>3. CASE a.cursor > req.end
  BY <1>3 DEF Visit
<1>4. CASE ~(a.cursor > req.end)
  <2>1. b.cursor = (IF r.end >= a.cursor THEN r.end + Day(req) ELSE a.cursor)
        /\ b.gaps = (IF r.start > a.cursor THEN a.gaps \union {g} ELSE a.gaps)
    BY <1>4 DEF Visit, NextValue
  <2>2. g.start = a.cursor /\ g.end = r.start - Day(req)
    BY DEF Gap, PreviousValue
  <2> HIDE DEF g, b
  <2>3. ASSUME NEW t \in Int, req.start <= t, t < b.cursor, t <= req.end
        PROVE  Spans(own, t) \/ InGap(b.gaps, t)
    <3>1. CASE t < a.cursor
      <4>1. Spans(own, t) \/ InGap(a.gaps, t)
        BY <2>3, <3>1 DEF NothingSkipped
      <4>2. a.gaps \subseteq b.gaps
        BY <2>1
      <4> QED BY <4>1, <4>2 DEF InGap
    <3>2. CASE ~(t < a.cursor) /\ r.start <= t
      <4>1. r.start <= t /\ t <= r.end
        BY <1>1, <1>2, <2>1, <2>3, <3>2
      <4> QED BY <4>1 DEF Spans
    <3>3. CASE ~(t < a.cursor) /\ ~(r.start <= t)
      <4>1. r.start > a.cursor /\ g.start <= t /\ t <= g.end
        BY <1>1, <1>2, <2>2, <3>3
      <4>2. g \in b.gaps
        BY <2>1, <4>1
      <4> QED BY <4>1, <4>2 DEF InGap
    <3> QED BY <3>1, <3>2, <3>3
  <2>4. NothingSkipped(b, own, req)
    BY <2>3 DEF NothingSkipped
  <2> QED BY <2>4 DEF b
<1> QED BY <1>3, <1>4


\* r is the next segment: the others are behind the cursor or begin no earlier.
LEMMA VisitCoversOnce ==
  ASSUME NEW symbol, NEW req \in DatedRequests, req.kind = "daily_bars",
         NEW own \in SUBSET SegmentsOf(symbol), NEW r \in own, r.start <= r.end,
         NEW a \in SweepStates(symbol, req), NothingTwice(a, own, req),
         a.cursor <= req.end => \A s \in own : s.end < a.cursor \/ r.start <= s.start
  PROVE  /\ NothingTwice(Visit(a, r, symbol, req), own, req)
         /\ a.cursor <= Visit(a, r, symbol, req).cursor
         /\ Visit(a, r, symbol, req).cursor <= req.end => r.end < Visit(a, r, symbol, req).cursor
<1> DEFINE g == Gap(symbol, a.cursor, PreviousValue(r.start, req), "segment_gap")
           b == Visit(a, r, symbol, req)
<1>1. a.gaps \in SUBSET GapsOf(symbol, req) /\ a.cursor \in Int
  BY DEF SweepStates
<1>2. r.start \in Int /\ r.end \in Int /\ Day(req) = 1 /\ req.end \in Int /\ req.start \in Int
  BY DEF SegmentsOf, Day, DatedRequests
<1>a. \A s \in own : s.start \in Int /\ s.end \in Int
  BY DEF SegmentsOf
<1>b. \A h \in a.gaps : h.start \in Int /\ h.end \in Int
  BY <1>1 DEF GapsOf
<1>3. CASE a.cursor > req.end
  <2>1. b = a
    BY <1>3 DEF Visit
  <2> QED BY <1>1, <1>2, <1>3, <2>1
<1>4. CASE ~(a.cursor > req.end)
  <2>1. b.cursor = (IF r.end >= a.cursor THEN r.end + 1 ELSE a.cursor)
        /\ b.gaps = (IF r.start > a.cursor THEN a.gaps \union {g} ELSE a.gaps)
    BY <1>2, <1>4 DEF Visit, NextValue
  <2>2. g.start = a.cursor /\ g.end = r.start - 1
    BY <1>2 DEF Gap, PreviousValue
  <2>3. \A s \in own : s.end < a.cursor \/ r.start <= s.start
    BY <1>1, <1>2, <1>4
  <2> HIDE DEF g, b
  <2>4. a.cursor <= b.cursor /\ r.end < b.cursor
    BY <1>1, <1>2, <2>1
  <2>5. ASSUME NEW t \in Int, InGap(b.gaps, t) PROVE ~Spans(own, t)
    <3>1. CASE InGap(a.gaps, t)
      BY <3>1 DEF NothingTwice
    <3>2. CASE ~InGap(a.gaps, t)
      <4>1. g.start <= t /\ t <= g.end
        BY <2>1, <2>5, <3>2 DEF InGap
      <4>2. ASSUME NEW s \in own, s.start <= t, t <= s.end PROVE FALSE
        <5>1. s.start \in Int /\ s.end \in Int
          BY <1>a
        <5>2. s.end < a.cursor \/ r.start <= s.start
          BY <2>3
        <5> QED BY <1>1, <1>2, <2>2, <4>1, <4>2, <5>1, <5>2
      <4> QED BY <4>2 DEF Spans
    <3> QED BY <3>1, <3>2
  <2>6. ASSUME NEW h \in b.gaps PROVE h.end < b.cursor
    <3>1. CASE h \in a.gaps
      <4>1. h.end < a.cursor /\ h.end \in Int
        BY <1>b, <3>1 DEF NothingTwice
      <4> QED BY <1>1, <1>2, <2>1, <4>1
    <3>2. CASE h \notin a.gaps
      <4>1. h = g
        BY <2>1, <3>2
      <4> QED BY <1>1, <1>2, <2>1, <2>2, <4>1
    <3> QED BY <3>1, <3>2
  <2>7. ASSUME NEW h \in b.gaps, NEW k \in b.gaps, h # k PROVE h.end < k.start \/ k.end < h.start
    <3>1. CASE h \in a.gaps /\ k \in a.gaps
      BY <2>7, <3>1 DEF NothingTwice, Apart
    <3>2. CASE h \notin a.gaps
      <4>1. h = g /\ k \in a.gaps
        BY <2>1, <2>7, <3>2
      <4>2. k.end < a.cursor
        BY <4>1 DEF NothingTwice
      <4> QED BY <2>2, <4>1, <4>2
    <3>3. CASE k \notin a.gaps
      <4>1. k = g /\ h \in a.gaps
        BY <2>1, <2>7, <3>3
      <4>2. h.end < a.cursor
        BY <4>1 DEF NothingTwice
      <4> QED BY <2>2, <4>1, <4>2
    <3> QED BY <3>1, <3>2, <3>3
  <2>8. NothingTwice(b, own, req)
    BY <2>5, <2>6, <2>7 DEF NothingTwice, Apart
  <2> QED BY <2>4, <2>8 DEF b
<1> QED BY <1>1, <1>2, <1>3, <1>4

(***************************************************************************)
(* The gaps of a symbol with segments are exact.                           *)
(***************************************************************************)
ExactGaps(gaps, own, req) ==
  /\ IsFiniteSet(gaps)
  /\ \A g \in gaps : g.start \in Int /\ g.end \in Int /\ g.start <= g.end
  /\ \A t \in Int : req.start <= t /\ t <= req.end => Spans(own, t) \/ InGap(gaps, t)
  /\ req.kind = "daily_bars" => Apart(gaps) /\ \A t \in Int : InGap(gaps, t) => ~Spans(own, t)

\* The gaps of one symbol, swept over the segments in their order.
LEMMA SweepIsExact ==
  ASSUME NEW symbol, NEW req \in DatedRequests,
         NEW own \in SUBSET SegmentsOf(symbol), IsFiniteSet(own),
         \A s \in own : s.start <= s.end /\ s.start <= req.end
  PROVE  /\ ExactGaps(Sweep(symbol, Sorted(own, SegmentBefore), req), own, req)
         /\ Sweep(symbol, Sorted(own, SegmentBefore), req) \subseteq GapsOf(symbol, req)
<1> DEFINE n == Cardinality(own)
           ranges == Sorted(own, SegmentBefore)
           base == [gaps |-> {}, cursor |-> req.start]
           States == SweepStates(symbol, req)
<1>1. req.start \in Int /\ req.end \in Int /\ req.start <= req.end /\ req.kind \in KindNames
  BY DEF DatedRequests
<1>2. ranges = SortedBy(own, SegmentOrder(own)) /\ StrictTotal(SegmentOrder(own), own)
  BY SortedSegments, SegmentOrderIsStrict
<1>3. /\ n \in Nat
      /\ ranges \in [1 .. n -> own]
      /\ \A i, j \in 1 .. n : i < j => <<ranges[i], ranges[j]>> \in SegmentOrder(own)
      /\ \A s \in own : \E i \in 1 .. n : ranges[i] = s
  <2> HIDE DEF ranges
  <2> QED BY <1>2, SortedByProperties
<1> HIDE DEF ranges, n
<1>4. \A i, j \in 1 .. n : i < j => ranges[i].start <= ranges[j].start
  <2>1. ASSUME NEW i \in 1 .. n, NEW j \in 1 .. n, i < j PROVE ranges[i].start <= ranges[j].start
    <3>1. SegmentBefore(ranges[i], ranges[j])
      BY <1>3, <2>1 DEF SegmentOrder
    <3>2. ranges[i].start \in Int /\ ranges[j].start \in Int
      BY <1>3 DEF SegmentsOf
    <3> QED BY <3>1, <3>2 DEF SegmentBefore
  <2> QED BY <2>1
<1>5. base \in States
  <2>1. IsFiniteSet({})
    BY FS_EmptySet
  <2> QED BY <1>1, <2>1 DEF SweepStates
<1>6. \A a \in States, i \in 1 .. n : Visit(a, ranges[i], symbol, req) \in States
  <2>1. \A i \in 1 .. n : ranges[i] \in SegmentsOf(symbol) /\ ranges[i].start <= req.end
    BY <1>3
  <2> QED BY <2>1, VisitType
<1>b. base.gaps = {} /\ base.cursor = req.start
  OBVIOUS
<1>d. DOMAIN ranges = 1 .. n
  BY <1>3
<1>7. VisitsWithin(n, ranges, symbol, req, States)
  BY <1>3, <1>6, <1>d DEF VisitsWithin
<1>8. PICK acc \in [0 .. n -> States] :
           /\ acc[0] = base
           /\ \A i \in 1 .. n : acc[i] = Visit(acc[i - 1], ranges[i], symbol, req)
           /\ VisitAll(base, ranges, symbol, req) = acc[n]
  <2> HIDE DEF base, States
  <2>1. \E acc \in [0 .. n -> States] : IsTrace(acc, n, ranges, symbol, req, base)
    BY <1>3, <1>5, <1>7, SweepTrace
  <2> QED BY <2>1 DEF IsTrace
<1> DEFINE So(i) == SweptSo(acc[i], i, own, ranges, req)
           Good == {i \in Nat : i <= n => So(i)}
<1>9. 0 \in Good
  <2>1. NothingSkipped(base, own, req)
    BY <1>1, <1>b DEF NothingSkipped
  <2>2. NothingTwice(base, own, req)
    BY <1>b DEF NothingTwice, InGap, Apart
  <2>3. SweptSo(base, 0, own, ranges, req)
    BY <2>1, <2>2 DEF SweptSo
  <2> HIDE DEF base
  <2> QED BY <1>8, <2>3
<1>10. ASSUME NEW k \in Nat, k \in Good PROVE k + 1 \in Good
  <2>1. ASSUME k + 1 <= n PROVE So(k + 1)
    <3> DEFINE a == acc[k]
               r == ranges[k + 1]
               b == acc[k + 1]
    <3>1. k <= n /\ k + 1 \in 1 .. n /\ (k + 1) - 1 = k /\ k \in 0 .. n
      BY <1>3, <2>1
    <3>2. a \in States /\ r \in own /\ b = Visit(a, r, symbol, req) /\ SweptSo(a, k, own, ranges, req)
      BY <1>3, <1>8, <1>10, <3>1
    <3>3. NothingSkipped(b, own, req)
      <4> HIDE DEF a, b, r
      <4>1. NothingSkipped(a, own, req)
        BY <3>2 DEF SweptSo
      <4> QED BY <3>2, <4>1, VisitSkipsNothing
    <3>4. ASSUME req.kind = "daily_bars"
          PROVE  NothingTwice(b, own, req) /\ (b.cursor <= req.end => \A j \in 1 .. k + 1 : ranges[j].end < b.cursor)
      <4>1. NothingTwice(a, own, req) /\ (a.cursor <= req.end => \A j \in 1 .. k : ranges[j].end < a.cursor)
        BY <3>2, <3>4 DEF SweptSo
      <4>2. r.start <= r.end
        BY <3>2
      <4>3. a.cursor <= req.end => \A s \in own : s.end < a.cursor \/ r.start <= s.start
        <5>1. ASSUME a.cursor <= req.end, NEW s \in own PROVE s.end < a.cursor \/ r.start <= s.start
          <6>1. PICK j \in 1 .. n : ranges[j] = s
            BY <1>3
          <6>2. CASE j <= k
            <7>1. j \in 1 .. k
              BY <6>2
            <7> QED BY <4>1, <5>1, <6>1, <7>1
          <6>3. CASE j = k + 1
            <7>1. r.start \in Int
              BY <3>2 DEF SegmentsOf
            <7> QED BY <6>1, <6>3, <7>1
          <6>4. CASE k + 1 < j
            BY <1>4, <3>1, <6>1, <6>4
          <6>5. j <= k \/ j = k + 1 \/ k + 1 < j
            OBVIOUS
          <6> QED BY <6>2, <6>3, <6>4, <6>5
        <5> QED BY <5>1
      <4>a. a.cursor \in Int /\ req.end \in Int
        BY <1>1, <3>2 DEF SweepStates
      <4>b. b.cursor \in Int
        <5>1. b \in States
          BY <1>6, <3>1, <3>2
        <5> QED BY <5>1 DEF SweepStates
      <4>c. \A j \in 1 .. n : ranges[j].end \in Int
        BY <1>3 DEF SegmentsOf
      <4> HIDE DEF a, b, r
      <4>4. NothingTwice(b, own, req) /\ a.cursor <= b.cursor /\ (b.cursor <= req.end => r.end < b.cursor)
        BY <3>2, <3>4, <4>1, <4>2, <4>3, VisitCoversOnce
      <4>5. ASSUME b.cursor <= req.end, NEW j \in 1 .. k + 1 PROVE ranges[j].end < b.cursor
        <5>1. CASE j = k + 1
          BY <4>4, <4>5, <5>1 DEF r
        <5>2. CASE j # k + 1
          <6>0. j \in Int /\ 1 <= j /\ j <= k + 1 /\ k + 1 <= n
            BY <2>1, <4>5
          <6>1. j \in 1 .. k /\ j \in 1 .. n
            BY <1>3, <5>2, <6>0
          <6>2. a.cursor <= req.end
            BY <1>1, <4>a, <4>b, <4>4, <4>5
          <6>3. ranges[j].end < a.cursor /\ ranges[j].end \in Int
            BY <4>1, <4>c, <6>1, <6>2
          <6> QED BY <4>a, <4>b, <4>4, <6>3
        <5> QED BY <5>1, <5>2
      <4> QED BY <4>4, <4>5
    <3> QED BY <3>3, <3>4 DEF SweptSo
  <2> HIDE DEF So
  <2> QED BY <2>1
<1> HIDE DEF Good
<1>11. n \in Good
  BY <1>3, <1>9, <1>10, GoodNumbers
<1>12. SweptSo(acc[n], n, own, ranges, req)
  BY <1>3, <1>11 DEF Good
<1> DEFINE z == acc[n]
           rest == Gap(symbol, z.cursor, req.end, "segment_gap")
           final == {g \in z.gaps \union {rest} : g.start <= g.end}
<1>13. Sweep(symbol, ranges, req) = final
  BY <1>8 DEF Sweep, VisitAll
<1>14. z \in States
  <2>1. n \in 0 .. n
    BY <1>3
  <2> HIDE DEF States
  <2> QED BY <1>8, <2>1
<1> HIDE DEF z
<1>15. z.cursor \in Int /\ z.gaps \subseteq GapsOf(symbol, req) /\ IsFiniteSet(z.gaps)
  BY <1>14 DEF SweepStates
<1>16. rest.start = z.cursor /\ rest.end = req.end
  BY DEF Gap
<1>r. rest.start <= rest.end => rest \in GapsOf(symbol, req)
  <2>1. ASSUME z.cursor <= req.end PROVE z.cursor \in req.start .. req.end
    BY <1>1, <1>14, <1>15, <2>1 DEF SweepStates
  <2> QED BY <1>1, <1>16, <2>1 DEF Gap, GapsOf
<1> HIDE DEF rest
<1>17. final \subseteq GapsOf(symbol, req) /\ IsFiniteSet(final)
  <2>1. IsFiniteSet(z.gaps \union {rest})
    BY <1>15, FS_AddElement
  <2>2. final \in SUBSET (z.gaps \union {rest})
    OBVIOUS
  <2>3. final \subseteq GapsOf(symbol, req)
    BY <1>15, <1>r
  <2> HIDE DEF final
  <2>4. IsFiniteSet(final)
    BY <2>1, <2>2, FS_Subset
  <2> QED BY <2>3, <2>4
<1>18. \A g \in final : g.start \in Int /\ g.end \in Int /\ g.start <= g.end
  <2>1. \A g \in GapsOf(symbol, req) : g.start \in Int /\ g.end \in Int
    BY DEF GapsOf
  <2> QED BY <1>17, <2>1
<1>19. ASSUME NEW t \in Int, req.start <= t, t <= req.end PROVE Spans(own, t) \/ InGap(final, t)
  <2>1. CASE t < z.cursor
    <3>1. Spans(own, t) \/ InGap(z.gaps, t)
      BY <1>12, <1>19, <2>1 DEF SweptSo, NothingSkipped, z
    <3>2. ASSUME NEW g \in z.gaps, g.start <= t, t <= g.end PROVE g \in final
      <4>1. g.start \in Int /\ g.end \in Int
        BY <1>15 DEF GapsOf
      <4> QED BY <3>2, <4>1
    <3> HIDE DEF final
    <3> QED BY <3>1, <3>2 DEF InGap
  <2>2. CASE ~(t < z.cursor)
    <3>1. rest.start <= t /\ t <= rest.end /\ rest.start <= rest.end
      BY <1>1, <1>15, <1>16, <1>19, <2>2
    <3> QED BY <3>1 DEF InGap
  <2> QED BY <2>1, <2>2
<1>20. ASSUME req.kind = "daily_bars"
       PROVE  Apart(final) /\ \A t \in Int : InGap(final, t) => ~Spans(own, t)
  <2>1. NothingTwice(z, own, req) /\ (z.cursor <= req.end => \A j \in 1 .. n : ranges[j].end < z.cursor)
    BY <1>12, <1>20 DEF SweptSo, z
  <2>2. \A g \in final : g \in z.gaps \/ g = rest
    OBVIOUS
  <2>3. rest \in final => z.cursor <= req.end
    BY <1>16
  <2> HIDE DEF final
  <2>4. Apart(final)
    <3>1. \A g, h \in z.gaps : g # h => g.end < h.start \/ h.end < g.start
      BY <2>1 DEF NothingTwice, Apart
    <3>2. \A g \in z.gaps : g.end < rest.start
      BY <1>16, <2>1 DEF NothingTwice
    <3> QED BY <2>2, <3>1, <3>2 DEF Apart
  <2>5. ASSUME NEW t \in Int, InGap(final, t) PROVE ~Spans(own, t)
    <3>1. PICK g \in final : g.start <= t /\ t <= g.end
      BY <2>5 DEF InGap
    <3>2. CASE g \in z.gaps
      BY <2>1, <3>1, <3>2 DEF NothingTwice, InGap
    <3>3. CASE g = rest
      <4>1. z.cursor <= req.end /\ z.cursor <= t
        BY <1>16, <2>3, <3>1, <3>3
      <4>2. ASSUME NEW s \in own, s.start <= t, t <= s.end PROVE FALSE
        <5>1. PICK j \in 1 .. n : ranges[j] = s
          BY <1>3
        <5>2. s.end < z.cursor
          BY <2>1, <4>1, <5>1
        <5>3. s.end \in Int
          BY DEF SegmentsOf
        <5> QED BY <1>15, <4>1, <4>2, <5>2, <5>3
      <4> QED BY <4>2 DEF Spans
    <3> QED BY <2>2, <3>2, <3>3
  <2> QED BY <2>4, <2>5
<1> HIDE DEF final
<1>21. ExactGaps(final, own, req)
  BY <1>17, <1>18, <1>19, <1>20 DEF ExactGaps
<1> QED BY <1>13, <1>17, <1>21 DEF ranges


(***************************************************************************)
(* The planner.                                                            *)
(***************************************************************************)
SegmentSet(recorded) ==
  /\ recorded \subseteq [symbol : Symbols, start : Int, end : Int]
  /\ \A q : IsFiniteSet({s \in recorded : s.symbol = q})
  /\ \A s \in recorded : s.start <= s.end

Matching(recorded, req) == {s \in recorded : FileMatchesRequest(s, req)}

OwnSegments(symbol, recorded, req) == {s \in Matching(recorded, req) : s.symbol = symbol}

GapsFor(symbol, recorded, req) == SymbolGaps(symbol, Matching(recorded, req), req)

Spanned(recorded, symbol, t) == \E s \in recorded : s.symbol = symbol /\ s.start <= t /\ t <= s.end

\* The segments of files that match the request tell as much as all of them.
LEMMA OwnSegmentsSpan ==
  ASSUME NEW recorded, SegmentSet(recorded), NEW req \in DatedRequests, NEW symbol \in req.symbols,
         NEW t \in Int, req.start <= t, t <= req.end
  PROVE  Spans(OwnSegments(symbol, recorded, req), t) <=> Spanned(recorded, symbol, t)
<1>1. req.start \in Int /\ req.end \in Int
  BY DEF DatedRequests
<1>2. ASSUME NEW s \in recorded, s.symbol = symbol, s.start <= t, t <= s.end
      PROVE  s \in OwnSegments(symbol, recorded, req)
  <2>1. s.start \in Int /\ s.end \in Int
    BY DEF SegmentSet
  <2>2. s.start <= req.end /\ s.end >= req.start
    BY <1>1, <1>2, <2>1
  <2>3. FileMatchesRequest(s, req)
    BY <1>2, <2>2 DEF FileMatchesRequest
  <2> QED BY <1>2, <2>3 DEF OwnSegments, Matching
<1>3. \A s \in OwnSegments(symbol, recorded, req) : s \in recorded /\ s.symbol = symbol
  BY DEF OwnSegments, Matching
<1> QED BY <1>2, <1>3 DEF Spans, Spanned

\* The gaps of one symbol, also with no segment: all of the request is one.
LEMMA SymbolGapsAreExact ==
  ASSUME NEW recorded, SegmentSet(recorded), NEW req \in DatedRequests, NEW symbol \in req.symbols
  PROVE  /\ ExactGaps(GapsFor(symbol, recorded, req), OwnSegments(symbol, recorded, req), req)
         /\ GapsFor(symbol, recorded, req) \subseteq GapsOf(symbol, req)
         /\ OwnSegments(symbol, recorded, req) = {} => GapsFor(symbol, recorded, req) # {}
<1> DEFINE own == OwnSegments(symbol, recorded, req)
           all == Gap(symbol, req.start, req.end, "no_matching_coverage")
<1>1. req.start \in Int /\ req.end \in Int /\ req.start <= req.end /\ Bounded(req)
  BY PlannerAssumption DEF DatedRequests, Bounded
<1>2. own \in SUBSET recorded
  BY DEF OwnSegments, Matching
<1>3. IsFiniteSet(own)
  <2> DEFINE ofSymbol == {s \in recorded : s.symbol = symbol}
  <2>1. IsFiniteSet(ofSymbol)
    BY DEF SegmentSet
  <2>2. own \in SUBSET ofSymbol
    BY DEF OwnSegments, Matching
  <2> HIDE DEF own, ofSymbol
  <2> QED BY <2>1, <2>2, FS_Subset
<1>4. \A s \in own : s.start <= s.end /\ s.start <= req.end
  <2>1. \A s \in own : s.start <= s.end
    BY <1>2 DEF SegmentSet
  <2>2. \A s \in own : FileMatchesRequest(s, req)
    BY DEF OwnSegments, Matching
  <2> QED BY <1>1, <2>1, <2>2 DEF FileMatchesRequest, Bounded
<1>5. own \in SUBSET SegmentsOf(symbol)
  <2>1. ASSUME NEW s \in own PROVE s \in SegmentsOf(symbol)
    <3>1. s \in [symbol : Symbols, start : Int, end : Int]
      BY <1>2 DEF SegmentSet
    <3>2. s.symbol = symbol
      BY DEF OwnSegments
    <3> QED BY <3>1, <3>2 DEF SegmentsOf
  <2> QED BY <2>1
<1>6. GapsFor(symbol, recorded, req) =
        IF own = {} THEN {all} ELSE Sweep(symbol, Sorted(own, SegmentBefore), req)
  BY <1>1 DEF GapsFor, SymbolGaps, OwnSegments
<1> HIDE DEF own
<1>7. CASE own = {}
  <2>1. all \in GapsOf(symbol, req) /\ all.start = req.start /\ all.end = req.end
    BY <1>1 DEF Gap, GapsOf
  <2> HIDE DEF all
  <2>2. IsFiniteSet({all})
    BY FS_Singleton
  <2>3. ExactGaps({all}, own, req)
    BY <1>1, <1>7, <2>1, <2>2 DEF ExactGaps, Spans, InGap, Apart
  <2> QED BY <1>6, <1>7, <2>1, <2>3 DEF own
<1>8. CASE own # {}
  <2>1. ExactGaps(Sweep(symbol, Sorted(own, SegmentBefore), req), own, req)
        /\ Sweep(symbol, Sorted(own, SegmentBefore), req) \subseteq GapsOf(symbol, req)
    BY <1>3, <1>4, <1>5, SweepIsExact
  <2> QED BY <1>6, <1>8, <2>1 DEF own
<1> QED BY <1>7, <1>8

\* What the planner answers, symbol by symbol.
LEMMA CoverageParts ==
  ASSUME NEW recorded, SegmentSet(recorded), NEW req \in DatedRequests
  PROVE  /\ Coverage(recorded, req).gaps = UNION {GapsFor(s, recorded, req) : s \in req.symbols}
         /\ Coverage(recorded, req).missing_symbols = {s \in req.symbols : GapsFor(s, recorded, req) # {}}
         /\ Coverage(recorded, req).fully_covered <=>
              req.symbols # {} /\ \A s \in req.symbols : GapsFor(s, recorded, req) = {}
<1> DEFINE covered == CoveredSymbols(Matching(recorded, req), req)
<1>1. covered = {s \in req.symbols : GapsFor(s, recorded, req) = {}}
  <2>1. ASSUME NEW s \in req.symbols
        PROVE  s \in covered <=> GapsFor(s, recorded, req) = {}
    <3>1. s \in covered <=> /\ OwnSegments(s, recorded, req) # {}
                            /\ GapsFor(s, recorded, req) = {}
      BY DEF CoveredSymbols, OwnSegments, GapsFor
    <3>2. OwnSegments(s, recorded, req) = {} => GapsFor(s, recorded, req) # {}
      BY SymbolGapsAreExact
    <3> QED BY <3>1, <3>2
  <2>2. covered \subseteq req.symbols
    BY DEF CoveredSymbols
  <2> HIDE DEF covered
  <2> QED BY <2>1, <2>2
<1>2. Coverage(recorded, req) =
        [fully_covered   |-> req.symbols # {} /\ req.symbols \subseteq covered,
         gaps            |-> UNION {GapsFor(s, recorded, req) : s \in req.symbols},
         missing_symbols |-> req.symbols \ covered]
  BY DEF Coverage, Matching, GapsFor
<1> HIDE DEF covered
<1>3. Coverage(recorded, req).gaps = UNION {GapsFor(s, recorded, req) : s \in req.symbols}
  BY <1>2
<1>4. Coverage(recorded, req).missing_symbols = req.symbols \ covered
  BY <1>2
<1>5. Coverage(recorded, req).fully_covered <=> (req.symbols # {} /\ req.symbols \subseteq covered)
  <2> DEFINE full == req.symbols # {} /\ req.symbols \subseteq covered
  <2>1. Coverage(recorded, req) =
          [fully_covered   |-> full,
           gaps            |-> UNION {GapsFor(s, recorded, req) : s \in req.symbols},
           missing_symbols |-> req.symbols \ covered]
    BY <1>2
  <2> HIDE DEF full
  <2>2. Coverage(recorded, req).fully_covered = full
    BY <2>1
  <2> QED BY <2>2 DEF full
<1> QED BY <1>1, <1>3, <1>4, <1>5

\* A gap of the coverage is a gap of its symbol.
LEMMA GapsBySymbol ==
  ASSUME NEW recorded, SegmentSet(recorded), NEW req \in DatedRequests, NEW symbol \in req.symbols,
         NEW g \in Coverage(recorded, req).gaps
  PROVE  /\ g.symbol \in req.symbols
         /\ g \in GapsFor(g.symbol, recorded, req)
         /\ g.symbol = symbol <=> g \in GapsFor(symbol, recorded, req)
<1>1. PICK s \in req.symbols : g \in GapsFor(s, recorded, req)
  BY CoverageParts
<1>2. \A q \in req.symbols : g \in GapsFor(q, recorded, req) => g.symbol = q
  <2>1. ASSUME NEW q \in req.symbols, g \in GapsFor(q, recorded, req) PROVE g.symbol = q
    <3>1. g \in GapsOf(q, req)
      BY <2>1, SymbolGapsAreExact
    <3> QED BY <3>1 DEF GapsOf
  <2> QED BY <2>1
<1> QED BY <1>1, <1>2


\* The values of a function of a finite domain.
LEMMA FiniteImage ==
  ASSUME NEW S, IsFiniteSet(S), NEW f, DOMAIN f = S
  PROVE  IsFiniteSet({f[x] : x \in S})
<1> DEFINE T == {f[x] : x \in S}
           g == [x \in S |-> f[x]]
<1>1. g \in Surjection(S, T)
  BY DEF Surjection
<1> HIDE DEF T, g
<1>2. IsFiniteSet(T)
  BY <1>1, FS_Surjection
<1> QED BY <1>2 DEF T

(***************************************************************************)
(* The lake: finitely many files, each with the bars of a finite and not   *)
(* empty set of times.                                                     *)
(***************************************************************************)
LakeOK == lake \subseteq Files /\ IsFiniteSet(lake)

\* No step records anything but a file, and each records one at most.
LEMMA LakeStaysOK == ReadSpec => []LakeOK
<1>1. ReadInit => LakeOK
  BY FS_EmptySet DEF ReadInit, LakeOK
<1>2. LakeOK /\ [ReadNext]_readVars => LakeOK'
  <2> SUFFICES ASSUME LakeOK, [ReadNext]_readVars PROVE LakeOK'
    OBVIOUS
  <2>1. CASE Record
    <3>1. PICK f \in Files \ lake : lake' = lake \union {f}
      BY <2>1 DEF Record
    <3>2. IsFiniteSet(lake \union {f})
      BY FS_AddElement DEF LakeOK
    <3> QED BY <3>1, <3>2 DEF LakeOK
  <2>2. CASE StartReading
    BY <2>2 DEF StartReading, LakeOK
  <2>3. CASE ReadPage
    BY <2>3 DEF ReadPage, LakeOK
  <2>4. CASE UNCHANGED readVars
    BY <2>4 DEF readVars, LakeOK
  <2> QED BY <2>1, <2>2, <2>3, <2>4 DEF ReadNext
<1> QED BY <1>1, <1>2, PTL DEF ReadSpec

\* A file spans the times from its first to its last bar.
LEMMA SegmentOfFile ==
  ASSUME NEW f \in Files
  PROVE  /\ Segment(f) \in [symbol : Symbols, start : Int, end : Int]
         /\ Segment(f).symbol = f.symbol
         /\ Segment(f).start <= Segment(f).end
<1>1. PICK T \in BarTimes : f.bars \in [T -> Prices]
  BY DEF Files
<1>2. DOMAIN f.bars = T /\ T \in SUBSET Int /\ IsFiniteSet(T) /\ T # {}
  BY <1>1, PlannerAssumption DEF BarTimes
<1>3. Min(T) \in T /\ \A t \in T : Min(T) <= t
  BY <1>2, MinProperties
<1>4. Max(T) \in T /\ \A t \in T : t <= Max(T)
  BY <1>2, MaxProperties
<1>5. Min(T) \in Int /\ Max(T) \in Int /\ Min(T) <= Max(T)
  BY <1>2, <1>3, <1>4
<1>6. f.symbol \in Symbols
  BY DEF Files
<1> QED BY <1>2, <1>5, <1>6 DEF Segment

\* What the planner is given for the recorded files.
LEMMA SegmentsAreSegments ==
  ASSUME LakeOK
  PROVE  SegmentSet(Segments)
<1>1. IsFiniteSet(Segments)
  <2> DEFINE g == [f \in lake |-> Segment(f)]
  <2>1. {g[f] : f \in lake} = Segments
    BY DEF Segments
  <2>2. DOMAIN g = lake
    OBVIOUS
  <2> HIDE DEF g
  <2>3. IsFiniteSet({g[f] : f \in lake})
    BY <2>2, FiniteImage DEF LakeOK
  <2> QED BY <2>1, <2>3
<1>2. \A s \in Segments : s \in [symbol : Symbols, start : Int, end : Int] /\ s.start <= s.end
  BY SegmentOfFile DEF LakeOK, Segments
<1>3. ASSUME NEW q PROVE IsFiniteSet({s \in Segments : s.symbol = q})
  <2>1. {s \in Segments : s.symbol = q} \in SUBSET Segments
    OBVIOUS
  <2> QED BY <1>1, <2>1, FS_Subset
<1> QED BY <1>2, <1>3 DEF SegmentSet

\* The requests the planner has to answer exactly have both dates, in order.
LEMMA RangesAreDated ==
  ASSUME NEW kinds, NEW req \in Ranges(kinds)
  PROVE  /\ req \in DatedRequests /\ req.kind \in kinds
         /\ req.start \in Times /\ req.end \in Times
<1>1. req \in Requests /\ Bounded(req) /\ req.start <= req.end /\ req.kind \in kinds
  BY DEF Ranges
<1>2. req = [kind |-> req.kind, symbols |-> req.symbols, start |-> req.start, end |-> req.end]
      /\ req.kind \in Kinds /\ req.symbols \in SUBSET Symbols
      /\ req.start \in Times \union {NoTime} /\ req.end \in Times \union {NoTime}
  BY <1>1 DEF Requests
<1>3. req.start \in Times /\ req.end \in Times
  BY <1>1, <1>2 DEF Bounded
<1>4. req.start \in Int /\ req.end \in Int /\ req.kind \in KindNames
  BY <1>2, <1>3, PlannerAssumption
<1> QED BY <1>1, <1>2, <1>3, <1>4 DEF DatedRequests

\* The parts of GapsAreExact, for one request.
Missing(recorded, symbol, req) == {t \in Asked(req) : ~Spanned(recorded, symbol, t)}

\* Nothing that is missing is outside the gaps.
LEMMA MissingIsInGaps ==
  ASSUME NEW recorded, SegmentSet(recorded), NEW req \in DatedRequests, NEW symbol \in req.symbols
  PROVE  /\ Missing(recorded, symbol, req) \subseteq InGaps(Coverage(recorded, req), symbol)
         /\ GapsFor(symbol, recorded, req) = {} => Missing(recorded, symbol, req) = {}
<1>1. ASSUME NEW t \in Missing(recorded, symbol, req)
      PROVE  t \in Times /\ t \in Int /\ InGap(GapsFor(symbol, recorded, req), t)
  <2>1. t \in Times /\ t \in Int /\ req.start <= t /\ t <= req.end /\ ~Spanned(recorded, symbol, t)
    BY PlannerAssumption DEF Missing, Asked
  <2>2. ~Spans(OwnSegments(symbol, recorded, req), t)
    BY <2>1, OwnSegmentsSpan
  <2>3. ExactGaps(GapsFor(symbol, recorded, req), OwnSegments(symbol, recorded, req), req)
    BY SymbolGapsAreExact
  <2> QED BY <2>1, <2>2, <2>3 DEF ExactGaps
<1>2. ASSUME NEW t \in Missing(recorded, symbol, req)
      PROVE  t \in InGaps(Coverage(recorded, req), symbol)
  <2>1. PICK g \in GapsFor(symbol, recorded, req) : g.start <= t /\ t <= g.end
    BY <1>1 DEF InGap
  <2>2. g \in Coverage(recorded, req).gaps
    BY CoverageParts
  <2>3. g.symbol = symbol
    BY <2>2, GapsBySymbol
  <2> QED BY <1>1, <2>1, <2>2, <2>3 DEF InGaps
<1>3. ASSUME GapsFor(symbol, recorded, req) = {} PROVE Missing(recorded, symbol, req) = {}
  BY <1>1, <1>3 DEF InGap
<1> QED BY <1>2, <1>3

\* Daily bars: nothing in a gap is spanned, and gaps do not meet.
LEMMA DailyGapsAreMissing ==
  ASSUME NEW recorded, SegmentSet(recorded), NEW req \in DatedRequests, req.kind = "daily_bars",
         req.start \in Times, req.end \in Times, NEW symbol \in req.symbols
  PROVE  /\ InGaps(Coverage(recorded, req), symbol) \subseteq Missing(recorded, symbol, req)
         /\ GapsFor(symbol, recorded, req) # {} => Missing(recorded, symbol, req) # {}
<1> DEFINE gaps == GapsFor(symbol, recorded, req)
<1>0. req.start \in Int /\ req.end \in Int
  BY DEF DatedRequests
<1>1. ExactGaps(gaps, OwnSegments(symbol, recorded, req), req) /\ gaps \subseteq GapsOf(symbol, req)
  BY SymbolGapsAreExact
<1> HIDE DEF gaps
<1>2. ASSUME NEW g \in gaps, NEW t \in Int, g.start <= t, t <= g.end
      PROVE  t \in Missing(recorded, symbol, req)
  <2>1. g.start \in Int /\ g.end \in Int /\ req.start <= g.start /\ g.end <= req.end
    BY <1>0, <1>1 DEF GapsOf
  <2>2. req.start <= t /\ t <= req.end
    BY <1>0, <1>2, <2>1
  <2>3. t \in Times
    <3>1. t \in req.start .. req.end
      BY <1>0, <2>2
    <3> QED BY <3>1, PlannerAssumption
  <2>4. ~Spans(OwnSegments(symbol, recorded, req), t)
    BY <1>1, <1>2 DEF ExactGaps, InGap
  <2>5. ~Spanned(recorded, symbol, t)
    BY <2>2, <2>4, OwnSegmentsSpan
  <2> QED BY <2>2, <2>3, <2>5 DEF Missing, Asked
<1>3. ASSUME NEW t \in InGaps(Coverage(recorded, req), symbol) PROVE t \in Missing(recorded, symbol, req)
  <2>1. t \in Int
    BY PlannerAssumption DEF InGaps
  <2>2. PICK g \in Coverage(recorded, req).gaps : g.symbol = symbol /\ g.start <= t /\ t <= g.end
    BY DEF InGaps
  <2>3. g \in gaps
    BY <2>2, GapsBySymbol DEF gaps
  <2> QED BY <1>2, <2>1, <2>2, <2>3
<1>4. ASSUME gaps # {} PROVE Missing(recorded, symbol, req) # {}
  <2>1. PICK g : g \in gaps
    BY <1>4
  <2>2. g.start \in Int /\ g.start <= g.start /\ g.start <= g.end
    BY <1>1, <2>1 DEF ExactGaps
  <2> QED BY <1>2, <2>1, <2>2
<1> QED BY <1>3, <1>4 DEF gaps

\* A request that leaves a date open is covered by one segment alone.
LEMMA OpenRequestsCovered ==
  ASSUME NEW recorded, SegmentSet(recorded), NEW req \in Requests, ~Bounded(req),
         Coverage(recorded, req).fully_covered, NEW symbol \in req.symbols,
         NEW t \in Times, t \in {req.start, req.end}
  PROVE  Spanned(recorded, symbol, t)
<1> DEFINE own == OwnSegments(symbol, recorded, req)
           covered == CoveredSymbols(Matching(recorded, req), req)
<1>1. symbol \in covered
  <2> DEFINE full == req.symbols # {} /\ req.symbols \subseteq covered
  <2>1. Coverage(recorded, req) =
          [fully_covered   |-> full,
           gaps            |-> UNION {GapsFor(s, recorded, req) : s \in req.symbols},
           missing_symbols |-> req.symbols \ covered]
    BY DEF Coverage, Matching, GapsFor
  <2> HIDE DEF full
  <2>2. Coverage(recorded, req).fully_covered = full
    BY <2>1
  <2>3. full
    BY <2>2
  <2> QED BY <2>3 DEF full
<1>2. GapsFor(symbol, recorded, req) = {}
  BY <1>1 DEF CoveredSymbols, GapsFor
<1>3. GapsFor(symbol, recorded, req) =
        IF \E s \in own : RowCoversRequest(s, req) THEN {}
        ELSE {Gap(symbol, req.start, req.end, "no_matching_coverage")}
  BY DEF GapsFor, SymbolGaps, OwnSegments
<1>4. PICK s \in own : RowCoversRequest(s, req)
  BY <1>2, <1>3
<1>5. s \in recorded /\ FileMatchesRequest(s, req) /\ s.symbol = symbol
  BY DEF OwnSegments, Matching
<1>6. t \in Int /\ t # NoTime /\ s.start \in Int /\ s.end \in Int
  BY <1>5, PlannerAssumption DEF SegmentSet
<1>7. s.start <= t /\ t <= s.end
  <2>1. CASE t = req.start
    BY <1>4, <1>5, <1>6, <2>1 DEF RowCoversRequest, FileMatchesRequest
  <2>2. CASE t = req.end
    BY <1>4, <1>5, <1>6, <2>2 DEF RowCoversRequest, FileMatchesRequest
  <2> QED BY <2>1, <2>2
<1> QED BY <1>5, <1>7 DEF Spanned

(***************************************************************************)
(* The gaps the coverage planner reports are right: for daily bars they    *)
(* are exactly the requested days no recorded file spans, no day is in two *)
(* of them, and a request is fully covered exactly when no day is missing; *)
(* for intraday bars nothing missing is taken for covered.                 *)
(***************************************************************************)
THEOREM GapsExact == ReadSpec => []GapsAreExact
<1>1. LakeOK => GapsAreExact
  <2> SUFFICES ASSUME LakeOK PROVE GapsAreExact
    OBVIOUS
  <2>0. SegmentSet(Segments)
    BY SegmentsAreSegments
  <2>c. \A s, t : Covers(s, t) <=> Spanned(Segments, s, t)
    BY DEF Covers, Spanned
  <2>1. ASSUME NEW req \in Ranges(Kinds)
        PROVE  LET answer == Coverage(Segments, req)
                   missing(s) == {t \in Asked(req) : ~Covers(s, t)}
               IN  /\ \A s \in req.symbols : missing(s) \subseteq InGaps(answer, s)
                   /\ answer.fully_covered => \A s \in req.symbols : missing(s) = {}
                   /\ req.kind = "daily_bars" => \A s \in req.symbols :
                        /\ InGaps(answer, s) = missing(s)
                        /\ s \in answer.missing_symbols <=> missing(s) # {}
                   /\ req.kind = "daily_bars" => \A g, h \in answer.gaps :
                        g # h /\ g.symbol = h.symbol => g.end < h.start \/ h.end < g.start
    <3> DEFINE answer == Coverage(Segments, req)
               missing(s) == {t \in Asked(req) : ~Covers(s, t)}
    <3>1. req \in DatedRequests /\ req.start \in Times /\ req.end \in Times
      BY RangesAreDated
    <3>2. \A s : missing(s) = Missing(Segments, s, req)
      BY <2>c DEF Missing
    <3>3. /\ answer.missing_symbols = {s \in req.symbols : GapsFor(s, Segments, req) # {}}
          /\ answer.fully_covered => \A s \in req.symbols : GapsFor(s, Segments, req) = {}
      BY <2>0, <3>1, CoverageParts
    <3>4. \A s \in req.symbols :
            /\ Missing(Segments, s, req) \subseteq InGaps(answer, s)
            /\ GapsFor(s, Segments, req) = {} => Missing(Segments, s, req) = {}
      BY <2>0, <3>1, MissingIsInGaps
    <3>5. ASSUME req.kind = "daily_bars", NEW s \in req.symbols
          PROVE  /\ InGaps(answer, s) \subseteq Missing(Segments, s, req)
                 /\ GapsFor(s, Segments, req) # {} => Missing(Segments, s, req) # {}
      BY <2>0, <3>1, <3>5, DailyGapsAreMissing
    <3>6. ASSUME req.kind = "daily_bars", NEW g \in answer.gaps, NEW h \in answer.gaps,
                 g # h, g.symbol = h.symbol
          PROVE  g.end < h.start \/ h.end < g.start
      <4>1. g.symbol \in req.symbols /\ g \in GapsFor(g.symbol, Segments, req)
            /\ h \in GapsFor(h.symbol, Segments, req)
        <5>1. PICK s \in req.symbols : g \in GapsFor(s, Segments, req)
          BY <2>0, <3>1, CoverageParts
        <5> HIDE DEF answer
        <5>2. req.symbols # {}
          BY <5>1
        <5> QED BY <2>0, <3>1, <5>1, GapsBySymbol DEF answer
      <4>2. ExactGaps(GapsFor(g.symbol, Segments, req), OwnSegments(g.symbol, Segments, req), req)
        BY <2>0, <3>1, <4>1, SymbolGapsAreExact
      <4>3. h \in GapsFor(g.symbol, Segments, req)
        BY <3>6, <4>1
      <4> QED BY <3>6, <4>1, <4>2, <4>3 DEF ExactGaps, Apart
    <3> HIDE DEF answer, missing
    <3>7. \A s \in req.symbols : missing(s) \subseteq InGaps(answer, s)
      BY <3>2, <3>4
    <3>8. answer.fully_covered => \A s \in req.symbols : missing(s) = {}
      BY <3>2, <3>3, <3>4
    <3>9. req.kind = "daily_bars" => \A s \in req.symbols :
            /\ InGaps(answer, s) = missing(s)
            /\ s \in answer.missing_symbols <=> missing(s) # {}
      BY <3>2, <3>3, <3>4, <3>5
    <3> QED BY <3>6, <3>7, <3>8, <3>9 DEF answer, missing
  <2>2. ASSUME NEW req \in Requests, ~Bounded(req), Coverage(Segments, req).fully_covered,
               NEW s \in req.symbols, NEW t \in Times, t \in {req.start, req.end}
        PROVE  Covers(s, t)
    BY <2>0, <2>2, <2>c, OpenRequestsCovered
  <2> QED BY <2>1, <2>2 DEF GapsAreExact
<1> QED BY <1>1, LakeStaysOK, PTL


(***************************************************************************)
(* Chunks.                                                                 *)
(***************************************************************************)
\* A product with a number grows.
LEMMA ProductGrows ==
  ASSUME NEW a \in Int, NEW b \in Int, NEW d \in Nat, a <= b
  PROVE  a * d <= b * d
OBVIOUS

\* Division with a remainder.
LEMMA Quotient ==
  ASSUME NEW x \in Nat, NEW d \in Nat \ {0}
  PROVE  /\ x \div d \in Nat
         /\ (x \div d) * d <= x
         /\ x < (x \div d) * d + d
OBVIOUS

\* Every time of a request for daily bars is a date, and a day is one time.
LEMMA DailyDates ==
  ASSUME NEW req, req.kind = "daily_bars", NEW t \in Int
  PROVE  IsDate(t, req) /\ DateUnit(req) = 1
BY DEF IsDate, DateUnit

\* The days of a chunk, from any number a client asks for.
LEMMA ChunkDaysType ==
  ASSUME NEW n \in Int
  PROVE  ChunkDays(n) \in Nat \ {0}
<1>1. MaxChunkDays \in Nat \ {0}
  BY PlannerAssumption
<1>2. Min({n, MaxChunkDays}) \in Int
  BY <1>1, MinOfTwo
<1> DEFINE m == Min({n, MaxChunkDays})
<1> HIDE DEF m
<1>3. m \in Int
  BY <1>2 DEF m
<1>4. Max({1, m}) = IF 1 <= m THEN m ELSE 1
  BY <1>3, MaxOfTwo
<1> QED BY <1>3, <1>4 DEF ChunkDays, m

\* What a list of date ranges has to be, to split the dates from .. to.
RangesSplit(ranges, from, to, days) ==
  /\ IsFiniteSet(ranges)
  /\ \A r \in ranges : /\ r[1] \in Int /\ r[2] \in Int
                       /\ from <= r[1] /\ r[1] <= r[2] /\ r[2] <= to
                       /\ r[2] - r[1] < days
  /\ \A t \in Int : from <= t /\ t <= to => \E r \in ranges : r[1] <= t /\ t <= r[2]
  /\ \A t \in Int : \A r, q \in ranges :
       r[1] <= t /\ t <= r[2] /\ q[1] <= t /\ t <= q[2] => r = q

\* A sequence has finitely many elements.
LEMMA FiniteRange ==
  ASSUME NEW f, IsFiniteSet(DOMAIN f)
  PROVE  IsFiniteSet(Range(f))
BY FiniteImage DEF Range

\* The ranges of a chunked request split its dates.
LEMMA DateRangesSplit ==
  ASSUME NEW req, req.kind = "daily_bars", NEW from \in Int, NEW to \in Int, from <= to,
         NEW days \in Nat \ {0}
  PROVE  RangesSplit(Range(DateRanges(req, from, to, days)), from, to, days)
<1> DEFINE n == (to - from) \div days + 1
           Start(k) == from + (k - 1) * days
           End(k) == Min({Start(k) + (days - 1), to})
           R == DateRanges(req, from, to, days)
<1>0. from # NoTime /\ to # NoTime
  BY PlannerAssumption
<1>1. R = [k \in 1 .. n |-> <<Start(k), End(k)>>]
  <2>1. IsDate(from, req) /\ IsDate(to, req) /\ DateUnit(req) = 1
    BY DailyDates
  <2>2. R = [k \in 1 .. (to - from) \div (days * 1) + 1 |->
               <<from + (k - 1) * days * 1, Min({from + (k - 1) * days * 1 + (days - 1) * 1, to})>>]
    BY <1>0, <2>1 DEF DateRanges
  <2>3. days * 1 = days /\ (days - 1) * 1 = days - 1
    OBVIOUS
  <2>4. \A k \in Int : (k - 1) * days * 1 = (k - 1) * days
    OBVIOUS
  <2>5. n = (to - from) \div (days * 1) + 1
    BY <2>3
  <2>6. ASSUME NEW k \in 1 .. n
        PROVE  <<from + (k - 1) * days * 1, Min({from + (k - 1) * days * 1 + (days - 1) * 1, to})>>
                 = <<Start(k), End(k)>>
    <3>1. k \in Int
      OBVIOUS
    <3>2. (k - 1) * days * 1 = (k - 1) * days
      BY <2>4, <3>1
    <3>3. from + (k - 1) * days * 1 = Start(k)
      BY <3>2
    <3>4. End(k) = Min({Start(k) + (days - 1) * 1, to})
      BY <2>3
    <3> QED BY <3>3, <3>4
  <2> HIDE DEF n, Start, End, R
  <2> QED BY <2>2, <2>5, <2>6
<1>2. to - from \in Nat
  OBVIOUS
<1>3. n \in Nat /\ (n - 1) * days <= to - from /\ to - from < (n - 1) * days + days
  <2>1. (n - 1) = (to - from) \div days
    BY <1>2, Quotient
  <2> QED BY <1>2, <2>1, Quotient
<1> HIDE DEF n, R
<1>4. ASSUME NEW k \in 1 .. n
      PROVE  /\ Start(k) \in Int /\ End(k) \in Int
             /\ from <= Start(k) /\ Start(k) <= End(k) /\ End(k) <= to
             /\ End(k) <= Start(k) + (days - 1)
             /\ End(k) = Start(k) + (days - 1) \/ End(k) = to
  <2>1. (k - 1) * days \in Int /\ 0 * days <= (k - 1) * days /\ (k - 1) * days <= (n - 1) * days
    <3>1. k - 1 \in Int /\ 0 <= k - 1 /\ k - 1 <= n - 1 /\ n - 1 \in Int
      BY <1>3
    <3> QED BY <3>1, ProductGrows
  <2>2. from <= Start(k) /\ Start(k) <= to /\ Start(k) \in Int
    BY <1>3, <2>1
  <2> HIDE DEF Start
  <2>3. End(k) = IF Start(k) + (days - 1) <= to THEN Start(k) + (days - 1) ELSE to
    BY <2>2, MinOfTwo
  <2> QED BY <2>2, <2>3
<1>5. Range(R) = {R[k] : k \in 1 .. n}
  <2>1. DOMAIN R = 1 .. n
    BY <1>1
  <2> QED BY <2>1 DEF Range
<1>6. \A k \in 1 .. n : R[k] = <<Start(k), End(k)>>
  BY <1>1
<1>e. \A k \in 1 .. n : R[k][1] = Start(k) /\ R[k][2] = End(k)
  <2> HIDE DEF Start, End
  <2> QED BY <1>6
<1>7. IsFiniteSet(Range(R))
  <2>1. IsFiniteSet(1 .. n) /\ DOMAIN R = 1 .. n
    BY <1>1, <1>3, FS_Interval
  <2> QED BY <2>1, FiniteRange
<1>8. ASSUME NEW r \in Range(R)
      PROVE  /\ r[1] \in Int /\ r[2] \in Int
             /\ from <= r[1] /\ r[1] <= r[2] /\ r[2] <= to
             /\ r[2] - r[1] < days
  <2>1. PICK k \in 1 .. n : r = R[k]
    BY <1>5
  <2>2. r[1] = Start(k) /\ r[2] = End(k)
    BY <1>6, <2>1
  <2> HIDE DEF Start, End
  <2> QED BY <1>4, <2>2
<1>9. ASSUME NEW t \in Int, from <= t, t <= to PROVE \E r \in Range(R) : r[1] <= t /\ t <= r[2]
  <2> DEFINE q == (t - from) \div days
  <2>1. q \in Nat /\ q * days <= t - from /\ t - from < q * days + days /\ q * days \in Int
    <3>1. t - from \in Nat
      BY <1>9
    <3> QED BY <3>1, Quotient
  <2> HIDE DEF q
  <2>2. q + 1 \in 1 .. n
    <3>1. ASSUME n <= q PROVE FALSE
      <4>1. n * days <= q * days
        BY <1>3, <2>1, <3>1, ProductGrows
      <4>2. n * days = (n - 1) * days + days
        BY <1>3
      <4>3. (n - 1) * days \in Int /\ n * days \in Int
        BY <1>3
      <4> QED BY <1>3, <1>9, <2>1, <4>1, <4>2, <4>3
    <3> QED BY <1>3, <2>1, <3>1
  <2>3. Start(q + 1) = from + q * days
    BY <2>1
  <2>4. Start(q + 1) <= t /\ t <= End(q + 1)
    <3> HIDE DEF Start, End
    <3> QED BY <1>4, <1>9, <2>1, <2>2, <2>3
  <2>5. R[q + 1] \in Range(R)
    BY <1>5, <2>2
  <2>6. R[q + 1][1] = Start(q + 1) /\ R[q + 1][2] = End(q + 1)
    BY <1>e, <2>2
  <2> HIDE DEF Start, End
  <2> QED BY <2>4, <2>5, <2>6
<1>10. ASSUME NEW i \in 1 .. n, NEW k \in 1 .. n, i < k PROVE End(i) < Start(k)
  <2>1. i * days <= (k - 1) * days
    <3>1. i \in Int /\ k - 1 \in Int /\ i <= k - 1
      BY <1>10
    <3> QED BY <3>1, ProductGrows
  <2>2. Start(i) + days = from + i * days
    BY <1>4
  <2>3. Start(i) + days <= Start(k)
    BY <2>1, <2>2
  <2> HIDE DEF Start, End
  <2> QED BY <1>4, <2>3
<1>11. ASSUME NEW t \in Int, NEW r \in Range(R), NEW q \in Range(R),
              r[1] <= t, t <= r[2], q[1] <= t, t <= q[2]
       PROVE  r = q
  <2>1. PICK i \in 1 .. n : r = R[i]
    BY <1>5
  <2>2. PICK k \in 1 .. n : q = R[k]
    BY <1>5
  <2>3. r[1] = Start(i) /\ r[2] = End(i) /\ q[1] = Start(k) /\ q[2] = End(k)
    BY <1>e, <2>1, <2>2
  <2> HIDE DEF Start, End
  <2>4. ~(i < k) /\ ~(k < i)
    BY <1>4, <1>10, <1>11, <2>3
  <2>5. i = k
    BY <2>4
  <2> QED BY <2>1, <2>2, <2>5
<1>12. RangesSplit(Range(R), from, to, days)
  BY <1>7, <1>8, <1>9, <1>11 DEF RangesSplit
<1> QED BY <1>12 DEF R


(***************************************************************************)
(* The chunks of a set of gaps.                                            *)
(***************************************************************************)
ChunksOfGap(g, req, days) ==
  {Chunk(g.symbol, range, g.reason) :
     range \in Range(DateRanges(req, g.start, g.end, ChunkDays(days)))}

ChunksOf(gaps, req, days) == UNION {ChunksOfGap(g, req, days) : g \in gaps}

GapSet(gaps) ==
  /\ \A g \in gaps : g.start \in Int /\ g.end \in Int /\ g.start <= g.end
  /\ \A g, h \in gaps : g # h /\ g.symbol = h.symbol => g.end < h.start \/ h.end < g.start

\* The chunks of one gap split it.
LEMMA ChunksOfOneGap ==
  ASSUME NEW req, req.kind = "daily_bars", NEW days \in Int,
         NEW g, g.start \in Int, g.end \in Int, g.start <= g.end
  PROVE  /\ IsFiniteSet(ChunksOfGap(g, req, days))
         /\ \A c \in ChunksOfGap(g, req, days) :
              /\ c.symbol = g.symbol /\ c.start \in Int /\ c.end \in Int
              /\ g.start <= c.start /\ c.start <= c.end /\ c.end <= g.end
              /\ c.end - c.start < ChunkDays(days)
         /\ \A t \in Int : g.start <= t /\ t <= g.end =>
              \E c \in ChunksOfGap(g, req, days) : c.start <= t /\ t <= c.end
         /\ \A t \in Int : \A c, d \in ChunksOfGap(g, req, days) :
              c.start <= t /\ t <= c.end /\ d.start <= t /\ d.end >= t => c = d
<1> DEFINE ranges == Range(DateRanges(req, g.start, g.end, ChunkDays(days)))
           chunk == [r \in ranges |-> Chunk(g.symbol, r, g.reason)]
           chunks == ChunksOfGap(g, req, days)
<1>1. RangesSplit(ranges, g.start, g.end, ChunkDays(days))
  BY ChunkDaysType, DateRangesSplit
<1>2. chunks = {chunk[r] : r \in ranges} /\ DOMAIN chunk = ranges
  BY DEF ChunksOfGap
<1>3. \A r \in ranges : chunk[r].symbol = g.symbol /\ chunk[r].start = r[1] /\ chunk[r].end = r[2]
  BY DEF Chunk
<1> HIDE DEF ranges, chunk, chunks
<1>4. IsFiniteSet(chunks)
  <2>1. IsFiniteSet({chunk[r] : r \in ranges})
    BY <1>1, <1>2, FiniteImage DEF RangesSplit
  <2> QED BY <1>2, <2>1
<1>5. ASSUME NEW c \in chunks
      PROVE  /\ c.symbol = g.symbol /\ c.start \in Int /\ c.end \in Int
             /\ g.start <= c.start /\ c.start <= c.end /\ c.end <= g.end
             /\ c.end - c.start < ChunkDays(days)
  <2>1. PICK r \in ranges : c = chunk[r]
    BY <1>2
  <2>2. c.symbol = g.symbol /\ c.start = r[1] /\ c.end = r[2]
    BY <1>3, <2>1
  <2> QED BY <1>1, <2>2 DEF RangesSplit
<1>6. ASSUME NEW t \in Int, g.start <= t, t <= g.end PROVE \E c \in chunks : c.start <= t /\ t <= c.end
  <2>1. PICK r \in ranges : r[1] <= t /\ t <= r[2]
    BY <1>1, <1>6 DEF RangesSplit
  <2>2. chunk[r] \in chunks /\ chunk[r].start = r[1] /\ chunk[r].end = r[2]
    BY <1>2, <1>3
  <2> QED BY <2>1, <2>2
<1>7. ASSUME NEW t \in Int, NEW c \in chunks, NEW d \in chunks,
             c.start <= t, t <= c.end, d.start <= t, d.end >= t
      PROVE  c = d
  <2>1. PICK r \in ranges : c = chunk[r]
    BY <1>2
  <2>2. PICK q \in ranges : d = chunk[q]
    BY <1>2
  <2>3. c.start = r[1] /\ c.end = r[2] /\ d.start = q[1] /\ d.end = q[2]
    BY <1>3, <2>1, <2>2
  <2>4. d.end \in Int
    BY <1>5
  <2>5. r[1] <= t /\ t <= r[2] /\ q[1] <= t /\ t <= q[2]
    BY <1>7, <2>3, <2>4
  <2>6. r = q
    BY <1>1, <2>5 DEF RangesSplit
  <2> QED BY <2>1, <2>2, <2>6
<1> QED BY <1>4, <1>5, <1>6, <1>7 DEF chunks

\* One element.
LEMMA CardinalityOfOne ==
  ASSUME NEW x
  PROVE  Cardinality({x}) = 1
BY FS_Singleton

Holding(chunks, s, t) == {c \in chunks : c.symbol = s /\ c.start <= t /\ t <= c.end}

HasGap(gaps, s, t) == \E g \in gaps : g.symbol = s /\ g.start <= t /\ t <= g.end

\* Each time of a gap is in one chunk, the others are in none.
LEMMA ChunksTile ==
  ASSUME NEW req, req.kind = "daily_bars", NEW days \in Int, NEW gaps, GapSet(gaps)
  PROVE  /\ \A c \in ChunksOf(gaps, req, days) : c.start <= c.end /\ c.end - c.start < ChunkDays(days)
         /\ \A s : \A t \in Int :
              Cardinality(Holding(ChunksOf(gaps, req, days), s, t)) = IF HasGap(gaps, s, t) THEN 1 ELSE 0
<1> DEFINE chunks == ChunksOf(gaps, req, days)
<1>1. \A c \in chunks : \E g \in gaps : c \in ChunksOfGap(g, req, days)
  BY DEF ChunksOf
<1>2. \A g \in gaps : \A c \in ChunksOfGap(g, req, days) : c \in chunks
  BY DEF ChunksOf
<1>3. \A g \in gaps : g.start \in Int /\ g.end \in Int /\ g.start <= g.end
  BY DEF GapSet
<1> HIDE DEF chunks
<1>4. ASSUME NEW c \in chunks PROVE c.start <= c.end /\ c.end - c.start < ChunkDays(days)
  <2>1. PICK g \in gaps : c \in ChunksOfGap(g, req, days)
    BY <1>1
  <2> QED BY <1>3, <2>1, ChunksOfOneGap
<1>5. ASSUME NEW s, NEW t \in Int
      PROVE  Cardinality({c \in chunks : c.symbol = s /\ c.start <= t /\ t <= c.end})
               = IF \E g \in gaps : g.symbol = s /\ g.start <= t /\ t <= g.end THEN 1 ELSE 0
  <2> DEFINE C == {c \in chunks : c.symbol = s /\ c.start <= t /\ t <= c.end}
  <2>1. ASSUME NEW c \in C
        PROVE  \E g \in gaps : /\ g.symbol = s /\ g.start <= t /\ t <= g.end
                               /\ c \in ChunksOfGap(g, req, days)
    <3>1. c \in chunks /\ c.symbol = s /\ c.start <= t /\ t <= c.end
      OBVIOUS
    <3>2. PICK g \in gaps : c \in ChunksOfGap(g, req, days)
      BY <1>1, <3>1
    <3>3. c.symbol = g.symbol /\ c.start \in Int /\ c.end \in Int /\ g.start <= c.start /\ c.end <= g.end
      BY <1>3, <3>2, ChunksOfOneGap
    <3>4. g.start <= t /\ t <= g.end
      BY <1>3, <3>1, <3>3
    <3> QED BY <3>1, <3>2, <3>3, <3>4
  <2>2. CASE \E g \in gaps : g.symbol = s /\ g.start <= t /\ t <= g.end
    <3>1. PICK g \in gaps : g.symbol = s /\ g.start <= t /\ t <= g.end
      BY <2>2
    <3>2. PICK c \in ChunksOfGap(g, req, days) : c.start <= t /\ t <= c.end
      BY <1>3, <3>1, ChunksOfOneGap
    <3>3. c.symbol = s
      BY <1>3, <3>1, <3>2, ChunksOfOneGap
    <3>4. c \in C
      BY <1>2, <3>2, <3>3
    <3>5. ASSUME NEW d \in C PROVE d = c
      <4>1. PICK h \in gaps : h.symbol = s /\ h.start <= t /\ t <= h.end /\ d \in ChunksOfGap(h, req, days)
        BY <2>1
      <4>2. g = h
        <5>1. ASSUME g # h PROVE FALSE
          <6>1. g.end < h.start \/ h.end < g.start
            BY <3>1, <4>1, <5>1 DEF GapSet
          <6> QED BY <1>3, <3>1, <4>1, <6>1
        <5> QED BY <5>1
      <4>3. d.start <= t /\ t <= d.end
        OBVIOUS
      <4>4. d.end \in Int /\ d.start \in Int
        BY <1>3, <4>1, ChunksOfOneGap
      <4>5. d.end >= t
        BY <4>3, <4>4
      <4>6. d \in ChunksOfGap(g, req, days)
        BY <4>1, <4>2
      <4>7. g.start \in Int /\ g.end \in Int /\ g.start <= g.end
        BY <1>3
      <4> HIDE DEF C
      <4> QED BY <3>2, <4>3, <4>5, <4>6, <4>7, ChunksOfOneGap
    <3>6. C = {c}
      <4> HIDE DEF C
      <4> QED BY <3>4, <3>5
    <3> HIDE DEF C
    <3>7. Cardinality(C) = 1
      BY <3>6, CardinalityOfOne
    <3> QED BY <2>2, <3>7 DEF C
  <2>3. CASE ~ \E g \in gaps : g.symbol = s /\ g.start <= t /\ t <= g.end
    <3>1. C = {}
      <4> HIDE DEF C
      <4> QED BY <2>1, <2>3
    <3> HIDE DEF C
    <3>2. Cardinality(C) = 0
      BY <3>1, FS_EmptySet
    <3> QED BY <2>3, <3>2 DEF C
  <2> QED BY <2>2, <2>3
<1>6. ASSUME NEW s, NEW t \in Int
      PROVE  Cardinality(Holding(chunks, s, t)) = IF HasGap(gaps, s, t) THEN 1 ELSE 0
  BY <1>5 DEF Holding, HasGap
<1> QED BY <1>4, <1>6 DEF chunks


\* The gaps of a request of several symbols, as a set to be split into chunks.
LEMMA GapsOfCoverage ==
  ASSUME NEW recorded, SegmentSet(recorded), NEW req \in DatedRequests, req.kind = "daily_bars"
  PROVE  GapSet(Coverage(recorded, req).gaps)
<1> DEFINE gaps == Coverage(recorded, req).gaps
<1>1. ASSUME NEW g \in gaps
      PROVE  /\ g.symbol \in req.symbols /\ g \in GapsFor(g.symbol, recorded, req)
             /\ ExactGaps(GapsFor(g.symbol, recorded, req), OwnSegments(g.symbol, recorded, req), req)
  <2>1. PICK s \in req.symbols : g \in GapsFor(s, recorded, req)
    BY CoverageParts
  <2>2. g.symbol \in req.symbols /\ g \in GapsFor(g.symbol, recorded, req)
    BY <2>1, GapsBySymbol
  <2> QED BY <2>2, SymbolGapsAreExact
<1> HIDE DEF gaps
<1>2. \A g \in gaps : g.start \in Int /\ g.end \in Int /\ g.start <= g.end
  BY <1>1 DEF ExactGaps
<1>3. ASSUME NEW g \in gaps, NEW h \in gaps, g # h, g.symbol = h.symbol
      PROVE  g.end < h.start \/ h.end < g.start
  <2>1. h \in GapsFor(g.symbol, recorded, req)
    BY <1>1, <1>3
  <2> QED BY <1>1, <1>3, <2>1 DEF ExactGaps, Apart
<1>4. GapSet(gaps)
  BY <1>2, <1>3 DEF GapSet
<1> QED BY <1>4 DEF gaps

\* A full download: one gap for each symbol.
LEMMA ChunksOfRequest ==
  ASSUME NEW req \in DatedRequests, NEW days
  PROVE  LET whole == {Gap(s, req.start, req.end, "none") : s \in req.symbols}
         IN  PlanDownloadChunks(req, days) = ChunksOf(whole, req, days) /\ GapSet(whole)
<1> DEFINE ranges == Range(DateRanges(req, req.start, req.end, ChunkDays(days)))
           whole == {Gap(s, req.start, req.end, "none") : s \in req.symbols}
           planned == {Chunk(s, r, "none") : s \in req.symbols, r \in ranges}
<1>1. PlanDownloadChunks(req, days) = planned
  BY DEF PlanDownloadChunks
<1>2. ASSUME NEW s \in req.symbols
      PROVE  ChunksOfGap(Gap(s, req.start, req.end, "none"), req, days) = {Chunk(s, r, "none") : r \in ranges}
  BY DEF ChunksOfGap, Gap
<1> HIDE DEF ranges
<1>3. ChunksOf(whole, req, days) = UNION {{Chunk(s, r, "none") : r \in ranges} : s \in req.symbols}
  <2>1. ChunksOf(whole, req, days)
          = UNION {ChunksOfGap(Gap(s, req.start, req.end, "none"), req, days) : s \in req.symbols}
    BY DEF ChunksOf
  <2> QED BY <1>2, <2>1
<1>4. planned = UNION {{Chunk(s, r, "none") : r \in ranges} : s \in req.symbols}
  OBVIOUS
<1>5. GapSet(whole)
  <2>1. \A g \in whole : \E s \in req.symbols : g.symbol = s /\ g = Gap(s, req.start, req.end, "none")
    BY DEF Gap
  <2>2. \A g \in whole : g.start = req.start /\ g.end = req.end
    BY DEF Gap
  <2>3. req.start \in Int /\ req.end \in Int /\ req.start <= req.end
    BY DEF DatedRequests
  <2> HIDE DEF whole
  <2>4. \A g, h \in whole : g.symbol = h.symbol => g = h
    BY <2>1
  <2> QED BY <2>2, <2>3, <2>4 DEF GapSet
<1> QED BY <1>1, <1>3, <1>4, <1>5

(***************************************************************************)
(* The chunks of a download tile what is to be downloaded: with a full     *)
(* download each requested day, with an ensure download each missing day,  *)
(* is in exactly one chunk of at most chunk_days days.                     *)
(***************************************************************************)
THEOREM ChunksTileAlways == ReadSpec => []ChunksTileGaps
<1>1. LakeOK => ChunksTileGaps
  <2> SUFFICES ASSUME LakeOK, NEW req \in Ranges({"daily_bars"} \intersect Kinds), NEW days \in DownloadDays
               PROVE  /\ Tile(PlanDownloadChunks(req, days), days, req, LAMBDA s, t : TRUE)
                      /\ Tile(PlanGapDownloadChunks(req, Coverage(Segments, req), days), days, req,
                              LAMBDA s, t : ~Covers(s, t))
    BY DEF ChunksTileGaps
  <2>0. SegmentSet(Segments)
    BY SegmentsAreSegments
  <2>1. req \in DatedRequests /\ req.kind = "daily_bars" /\ req.start \in Times /\ req.end \in Times
    BY RangesAreDated
  <2>2. days \in Int
    BY ReadAssumption
  <2>3. \A t \in Asked(req) : t \in Int /\ req.start <= t /\ t <= req.end
    BY PlannerAssumption DEF Asked
  <2>4. Tile(PlanDownloadChunks(req, days), days, req, LAMBDA s, t : TRUE)
    <3> DEFINE whole == {Gap(s, req.start, req.end, "none") : s \in req.symbols}
               chunks == ChunksOf(whole, req, days)
    <3>1. PlanDownloadChunks(req, days) = chunks /\ GapSet(whole)
      BY <2>1, ChunksOfRequest
    <3>2. ASSUME NEW s \in req.symbols, NEW t \in Asked(req)
          PROVE  HasGap(whole, s, t)
      <4> DEFINE g == Gap(s, req.start, req.end, "none")
      <4>1. g \in whole /\ g.symbol = s /\ g.start <= t /\ t <= g.end
        BY <2>3 DEF Gap
      <4> HIDE DEF g, whole
      <4> QED BY <4>1 DEF HasGap
    <3> HIDE DEF whole
    <3>3. \A c \in chunks : c.start <= c.end /\ c.end - c.start < ChunkDays(days)
      BY <2>1, <2>2, <3>1, ChunksTile
    <3>4. ASSUME NEW s \in req.symbols, NEW t \in Asked(req)
          PROVE  Cardinality(Holding(chunks, s, t)) = 1
      BY <2>1, <2>2, <2>3, <3>1, <3>2, ChunksTile
    <3> HIDE DEF chunks
    <3>5. Tile(chunks, days, req, LAMBDA s, t : TRUE)
      BY <3>3, <3>4 DEF Tile, Holding
    <3> QED BY <3>1, <3>5
  <2>5. Tile(PlanGapDownloadChunks(req, Coverage(Segments, req), days), days, req,
             LAMBDA s, t : ~Covers(s, t))
    <3> DEFINE gaps == Coverage(Segments, req).gaps
               chunks == ChunksOf(gaps, req, days)
    <3>1. PlanGapDownloadChunks(req, Coverage(Segments, req), days) = chunks
      BY DEF PlanGapDownloadChunks, ChunksOf, ChunksOfGap
    <3>2. GapSet(gaps)
      BY <2>0, <2>1, GapsOfCoverage
    <3>3. ASSUME NEW s \in req.symbols, NEW t \in Asked(req)
          PROVE  HasGap(gaps, s, t) <=> ~Covers(s, t)
      <4>1. t \in InGaps(Coverage(Segments, req), s) <=> t \in Missing(Segments, s, req)
        BY <2>0, <2>1, MissingIsInGaps, DailyGapsAreMissing
      <4>2. t \in Missing(Segments, s, req) <=> ~Covers(s, t)
        BY DEF Missing, Spanned, Covers
      <4>3. t \in InGaps(Coverage(Segments, req), s) <=> HasGap(gaps, s, t)
        BY DEF InGaps, Asked, HasGap
      <4> QED BY <4>1, <4>2, <4>3
    <3> HIDE DEF gaps
    <3>4. \A c \in chunks : c.start <= c.end /\ c.end - c.start < ChunkDays(days)
      BY <2>1, <2>2, <3>2, ChunksTile
    <3>5. ASSUME NEW s \in req.symbols, NEW t \in Asked(req)
          PROVE  Cardinality(Holding(chunks, s, t)) = IF ~Covers(s, t) THEN 1 ELSE 0
      <4>1. Cardinality(Holding(chunks, s, t)) = IF HasGap(gaps, s, t) THEN 1 ELSE 0
        BY <2>1, <2>2, <2>3, <3>2, ChunksTile
      <4> QED BY <3>3, <4>1
    <3> HIDE DEF chunks
    <3>6. Tile(chunks, days, req, LAMBDA s, t : ~Covers(s, t))
      BY <3>4, <3>5 DEF Tile, Holding
    <3> QED BY <3>1, <3>6
  <2> QED BY <2>4, <2>5
<1> QED BY <1>1, LakeStaysOK, PTL


\* The segment a chunk leaves when its download succeeds.
SegmentOfChunk(req, c) ==
  [symbol |-> c.symbol, start |-> RequestForChunk(req, c).start, end |-> RequestForChunk(req, c).end]

Downloaded(chunks, req) == {SegmentOfChunk(req, c) : c \in chunks}

\* The request sent for a chunk is for the dates of the chunk.
LEMMA ChunkRequest ==
  ASSUME NEW req \in DatedRequests, NEW c, c.start \in Int, c.end \in Int
  PROVE  SegmentOfChunk(req, c) = [symbol |-> c.symbol, start |-> c.start, end |-> c.end]
<1>1. c.start # NoTime /\ c.end # NoTime
  BY PlannerAssumption
<1>2. req \in [kind : KindNames, symbols : SUBSET Symbols, start : Int, end : Int]
  BY DEF DatedRequests
<1>3. RequestForChunk(req, c).start = c.start /\ RequestForChunk(req, c).end = c.end
  BY <1>1, <1>2 DEF RequestForChunk
<1> QED BY <1>3 DEF SegmentOfChunk

\* The segments after an ensure download are segments of files again.
LEMMA DownloadedSegments ==
  ASSUME NEW recorded, SegmentSet(recorded), NEW req \in DatedRequests, req.kind = "daily_bars",
         NEW days \in Int
  PROVE  SegmentSet(recorded \union Downloaded(ChunksOf(Coverage(recorded, req).gaps, req, days), req))
<1> DEFINE gaps == Coverage(recorded, req).gaps
           chunks == ChunksOf(gaps, req, days)
           after == recorded \union Downloaded(chunks, req)
<1>1. ASSUME NEW g \in gaps
      PROVE  /\ g.symbol \in req.symbols /\ g \in GapsFor(g.symbol, recorded, req)
             /\ g.start \in Int /\ g.end \in Int /\ g.start <= g.end
  <2>1. PICK s \in req.symbols : g \in GapsFor(s, recorded, req)
    BY CoverageParts
  <2>2. g.symbol \in req.symbols /\ g \in GapsFor(g.symbol, recorded, req)
    BY <2>1, GapsBySymbol
  <2>3. g.start \in Int /\ g.end \in Int /\ g.start <= g.end
    BY GapsOfCoverage DEF GapSet
  <2> QED BY <2>2, <2>3
<1>2. \A c \in chunks : \E g \in gaps : c \in ChunksOfGap(g, req, days)
  BY DEF ChunksOf
<1> HIDE DEF gaps, chunks
<1>3. ASSUME NEW c \in chunks
      PROVE  /\ SegmentOfChunk(req, c) = [symbol |-> c.symbol, start |-> c.start, end |-> c.end]
             /\ c.symbol \in req.symbols /\ c.start \in Int /\ c.end \in Int /\ c.start <= c.end
             /\ \E g \in GapsFor(c.symbol, recorded, req) : c \in ChunksOfGap(g, req, days)
  <2>1. PICK g \in gaps : c \in ChunksOfGap(g, req, days)
    BY <1>2
  <2>2. c.symbol = g.symbol /\ c.start \in Int /\ c.end \in Int /\ c.start <= c.end
    BY <1>1, <2>1, ChunksOfOneGap
  <2> QED BY <1>1, <2>1, <2>2, ChunkRequest
<1>4. ASSUME NEW x \in after
      PROVE  x \in [symbol : Symbols, start : Int, end : Int] /\ x.start <= x.end
  <2>1. CASE x \in recorded
    BY <2>1 DEF SegmentSet
  <2>2. CASE x \notin recorded
    <3>1. PICK c \in chunks : x = SegmentOfChunk(req, c)
      BY <2>2 DEF Downloaded
    <3>2. x = [symbol |-> c.symbol, start |-> c.start, end |-> c.end]
      BY <1>3, <3>1
    <3>3. c.symbol \in Symbols /\ c.start \in Int /\ c.end \in Int /\ c.start <= c.end
      BY <1>3 DEF DatedRequests
    <3> QED BY <3>2, <3>3
  <2> QED BY <2>1, <2>2
<1>5. ASSUME NEW q PROVE IsFiniteSet({x \in after : x.symbol = q})
  <2> DEFINE own == {x \in recorded : x.symbol = q}
             new == {c \in chunks : c.symbol = q}
             segment == [c \in new |-> SegmentOfChunk(req, c)]
             left == {segment[c] : c \in new}
             found == {x \in after : x.symbol = q}
  <2>1. IsFiniteSet(own)
    BY DEF SegmentSet
  <2>2. IsFiniteSet(new)
    <3>1. CASE q \in req.symbols
      <4> DEFINE G == GapsFor(q, recorded, req)
                 pieces == [g \in G |-> ChunksOfGap(g, req, days)]
                 all == {pieces[g] : g \in G}
      <4>1. IsFiniteSet(G) /\ \A g \in G : g.start \in Int /\ g.end \in Int /\ g.start <= g.end
        BY <3>1, SymbolGapsAreExact DEF ExactGaps
      <4> HIDE DEF G
      <4>2. DOMAIN pieces = G /\ \A g \in G : pieces[g] = ChunksOfGap(g, req, days)
        OBVIOUS
      <4> HIDE DEF pieces
      <4>3. IsFiniteSet(all)
        BY <4>1, <4>2, FiniteImage
      <4>4. \A T \in all : IsFiniteSet(T)
        BY <4>1, <4>2, ChunksOfOneGap
      <4>5. \A c \in new : \E g \in G : c \in pieces[g]
        BY <1>3, <4>2 DEF G
      <4>6. new \in SUBSET UNION all
        BY <4>5
      <4> HIDE DEF all, new
      <4>7. IsFiniteSet(UNION all)
        BY <4>3, <4>4, FS_UNION
      <4> QED BY <4>6, <4>7, FS_Subset
    <3>2. CASE q \notin req.symbols
      <4>1. new = {}
        BY <1>3, <3>2
      <4> QED BY <4>1, FS_EmptySet
    <3> QED BY <3>1, <3>2
  <2>3. DOMAIN segment = new /\ \A c \in new : segment[c] = SegmentOfChunk(req, c)
    OBVIOUS
  <2>4. \A c \in chunks : SegmentOfChunk(req, c).symbol = c.symbol
    BY <1>3
  <2>5. ASSUME NEW x \in found, x \notin own PROVE x \in left
    <3>1. PICK c \in chunks : x = SegmentOfChunk(req, c)
      BY <2>5 DEF Downloaded
    <3>2. c \in new
      BY <2>4, <3>1
    <3> QED BY <2>3, <3>1, <3>2
  <2> HIDE DEF segment, new
  <2>6. IsFiniteSet(left)
    BY <2>2, <2>3, FiniteImage
  <2> HIDE DEF left, found, own
  <2>7. found \in SUBSET (own \union left)
    BY <2>5
  <2>8. IsFiniteSet(own \union left)
    BY <2>1, <2>6, FS_Union
  <2>9. IsFiniteSet(found)
    BY <2>7, <2>8, FS_Subset
  <2> QED BY <2>9 DEF found
<1> HIDE DEF after
<1>6. SegmentSet(after)
  BY <1>4, <1>5 DEF SegmentSet
<1> QED BY <1>6 DEF after, chunks, gaps

\* What was missing is spanned when the chunks are downloaded.
LEMMA DownloadedSpans ==
  ASSUME NEW recorded, SegmentSet(recorded), NEW req \in DatedRequests, req.kind = "daily_bars",
         NEW days \in Int, NEW s \in req.symbols, NEW t \in Missing(recorded, s, req)
  PROVE  Spanned(recorded \union Downloaded(ChunksOf(Coverage(recorded, req).gaps, req, days), req), s, t)
<1> DEFINE gaps == Coverage(recorded, req).gaps
           chunks == ChunksOf(gaps, req, days)
<1>1. t \in Int
  BY PlannerAssumption DEF Missing, Asked
<1>2. PICK g \in gaps : g.symbol = s /\ g.start <= t /\ t <= g.end
  BY MissingIsInGaps DEF InGaps
<1>3. g.start \in Int /\ g.end \in Int /\ g.start <= g.end
  BY GapsOfCoverage DEF GapSet
<1>4. PICK c \in ChunksOfGap(g, req, days) : c.start <= t /\ t <= c.end
  BY <1>1, <1>2, <1>3, ChunksOfOneGap
<1>5. c.symbol = s /\ c.start \in Int /\ c.end \in Int
  BY <1>2, <1>3, ChunksOfOneGap
<1>6. c \in chunks
  BY DEF ChunksOf
<1>7. SegmentOfChunk(req, c) = [symbol |-> c.symbol, start |-> c.start, end |-> c.end]
  BY <1>5, ChunkRequest
<1> HIDE DEF chunks
<1>8. SegmentOfChunk(req, c) \in Downloaded(chunks, req)
  BY <1>6 DEF Downloaded
<1>9. Spanned(recorded \union Downloaded(chunks, req), s, t)
  BY <1>4, <1>5, <1>7, <1>8 DEF Spanned
<1> QED BY <1>9 DEF chunks

(***************************************************************************)
(* Asking again after an ensure download whose chunks all left files that  *)
(* span them finds the request fully covered (daily bars): no day is       *)
(* downloaded a second time.                                               *)
(***************************************************************************)
THEOREM EnsureConvergesAlways == ReadSpec => []EnsureConverges
<1>1. LakeOK => EnsureConverges
  <2> SUFFICES ASSUME LakeOK, NEW req \in Ranges({"daily_bars"} \intersect Kinds), NEW days \in DownloadDays,
                      req.symbols # {}
               PROVE  LET chunks == PlanGapDownloadChunks(req, Coverage(Segments, req), days)
                          after  == Segments \union
                            {[symbol |-> c.symbol, start |-> RequestForChunk(req, c).start,
                              end |-> RequestForChunk(req, c).end] : c \in chunks}
                      IN  Coverage(after, req).fully_covered
    BY DEF EnsureConverges
  <2> DEFINE chunks == ChunksOf(Coverage(Segments, req).gaps, req, days)
             after == Segments \union Downloaded(chunks, req)
  <2>0. SegmentSet(Segments)
    BY SegmentsAreSegments
  <2>1. req \in DatedRequests /\ req.kind = "daily_bars" /\ req.start \in Times /\ req.end \in Times
    BY RangesAreDated
  <2>2. days \in Int
    BY ReadAssumption
  <2>3. PlanGapDownloadChunks(req, Coverage(Segments, req), days) = chunks
    BY DEF PlanGapDownloadChunks, ChunksOf, ChunksOfGap
  <2>4. SegmentSet(after)
    BY <2>0, <2>1, <2>2, DownloadedSegments
  <2>5. \A s \in req.symbols : \A t \in Missing(Segments, s, req) : Spanned(after, s, t)
    BY <2>0, <2>1, <2>2, DownloadedSpans
  <2>s. Segments \subseteq after
    OBVIOUS
  <2>a. after = Segments \union
          {[symbol |-> c.symbol, start |-> RequestForChunk(req, c).start,
            end |-> RequestForChunk(req, c).end] : c \in chunks}
    BY DEF Downloaded, SegmentOfChunk
  <2> HIDE DEF chunks, after
  <2>6. ASSUME NEW s \in req.symbols PROVE GapsFor(s, after, req) = {}
    <3>1. SUFFICES ASSUME GapsFor(s, after, req) # {} PROVE FALSE
      OBVIOUS
    <3>2. PICK t : t \in Missing(after, s, req)
      BY <2>1, <2>4, <3>1, DailyGapsAreMissing
    <3>3. ~Spanned(after, s, t) /\ t \in Asked(req)
      BY <3>2 DEF Missing
    <3>4. t \in Missing(Segments, s, req)
      BY <2>s, <3>3 DEF Missing, Spanned
    <3> QED BY <2>5, <3>3, <3>4
  <2>7. Coverage(after, req).fully_covered
    BY <2>1, <2>4, <2>6, CoverageParts
  <2> QED BY <2>3, <2>7, <2>a
<1> QED BY <1>1, LakeStaysOK, PTL


(***************************************************************************)
(* Keys and pages.                                                         *)
(***************************************************************************)
KeyOrder(S) == {p \in S \X S : KeyBefore(p[1], p[2])}

\* Keys are ordered by symbol, then by time.
LEMMA KeyOrderIsStrict ==
  ASSUME NEW S \in SUBSET (Int \X Int)
  PROVE  StrictTotal(KeyOrder(S), S)
<1>1. \A x \in S : x = <<x[1], x[2]>> /\ x[1] \in Int /\ x[2] \in Int
  OBVIOUS
<1>2. \A x, y \in S : <<x, y>> \in KeyOrder(S) <=> KeyBefore(x, y)
  BY DEF KeyOrder
<1>3. \A x \in S : ~KeyBefore(x, x)
  BY <1>1 DEF KeyBefore
<1>4. \A x, y, z \in S : KeyBefore(x, y) /\ KeyBefore(y, z) => KeyBefore(x, z)
  BY <1>1 DEF KeyBefore
<1>5. \A x, y \in S : x # y => KeyBefore(x, y) \/ KeyBefore(y, x)
  BY <1>1 DEF KeyBefore
<1> QED BY <1>2, <1>3, <1>4, <1>5 DEF StrictTotal

\* Sorted keys, in the terms of SortedBy.
LEMMA SortedKeys ==
  ASSUME NEW S \in SUBSET (Int \X Int), IsFiniteSet(S)
  PROVE  Sorted(S, KeyBefore) = SortedBy(S, KeyOrder(S))
<1> DEFINE n == Cardinality(S)
           t == Sorted(S, KeyBefore)
           Lower(x) == {y \in S : KeyBefore(y, x)}
<1>1. StrictTotal(KeyOrder(S), S)
  BY KeyOrderIsStrict
<1>2. ASSUME NEW x \in S PROVE Cardinality(Lower(x)) = Rank(x, S, KeyOrder(S))
  <2>1. Lower(x) = {y \in S : <<y, x>> \in KeyOrder(S)}
    BY DEF KeyOrder
  <2> QED BY <2>1 DEF Rank
<1>3. ASSUME NEW i \in 1 .. n PROVE t[i] \in S /\ Rank(t[i], S, KeyOrder(S)) = i - 1
  <2>1. t[i] = CHOOSE x \in S : Cardinality(Lower(x)) = i - 1
    BY DEF Sorted
  <2>2. \E x \in S : Rank(x, S, KeyOrder(S)) = i - 1
    BY <1>1, RankReached
  <2>3. \E x \in S : Cardinality(Lower(x)) = i - 1
    BY <1>2, <2>2
  <2> HIDE DEF t, Lower
  <2>4. t[i] \in S /\ Cardinality(Lower(t[i])) = i - 1
    BY <2>1, <2>3
  <2> QED BY <1>2, <2>4
<1>4. t \in [1 .. n -> S]
  <2>1. t = [i \in 1 .. n |-> CHOOSE x \in S : Cardinality(Lower(x)) = i - 1]
    BY DEF Sorted
  <2> HIDE DEF t, Lower
  <2>2. t = [i \in 1 .. n |-> t[i]]
    BY <2>1
  <2> QED BY <1>3, <2>2
<1> HIDE DEF t
<1>5. n \in Nat
  BY FS_CardinalityType
<1>6. t = SortedBy(S, KeyOrder(S))
  BY <1>1, <1>3, <1>4, <1>5, RankedIsSorted
<1> QED BY <1>6 DEF t

\* A page holds at least one row, whatever limit a client asks for.
LEMMA LimitType ==
  ASSUME NEW n \in Int
  PROVE  Limit(n) \in Nat \ {0}
<1>1. MaxLimit \in Nat \ {0}
  BY ReadAssumption
<1> DEFINE m == Min({n, MaxLimit})
<1>2. m \in Int
  BY <1>1, MinOfTwo
<1> HIDE DEF m
<1>4. Max({1, m}) = IF 1 <= m THEN m ELSE 1
  BY <1>2, MaxOfTwo
<1> QED BY <1>2, <1>4 DEF Limit, m

\* An offset that is not negative is taken as it is.
LEMMA OffsetValue ==
  ASSUME NEW n \in Nat
  PROVE  Offset(n) = n
<1>1. Max({0, n}) = IF 0 <= n THEN n ELSE 0
  BY MaxOfTwo
<1> QED BY <1>1 DEF Offset

\* The symbol, the bars and the keys of a file.
LEMMA FileParts ==
  ASSUME NEW f \in Files
  PROVE  /\ f.symbol \in Symbols /\ f.symbol \in Int
         /\ DOMAIN f.bars \in BarTimes
         /\ \A t \in DOMAIN f.bars : f.bars[t] \in Prices /\ t \in Times /\ t \in Int
         /\ Keys(f) \in SUBSET (Int \X Int) /\ Keys(f) \subseteq Symbols \X Times
         /\ IsFiniteSet(Keys(f))
<1>1. PICK T \in BarTimes : f.bars \in [T -> Prices]
  BY DEF Files
<1>2. DOMAIN f.bars = T /\ f.symbol \in Symbols /\ T \subseteq Times /\ IsFiniteSet(T)
  BY <1>1 DEF Files, BarTimes
<1>3. Symbols \subseteq Int /\ Times \subseteq Int
  BY ReadAssumption, PlannerAssumption
<1>4. Keys(f) \in SUBSET (Int \X Int) /\ Keys(f) \subseteq Symbols \X Times
  <2>1. ASSUME NEW k \in Keys(f) PROVE k \in Int \X Int /\ k \in Symbols \X Times
    <3>1. PICK t \in T : k = <<f.symbol, t>>
      BY <1>2 DEF Keys
    <3> QED BY <1>2, <1>3, <3>1
  <2> QED BY <2>1
<1>5. IsFiniteSet(Keys(f))
  <2> DEFINE g == [t \in T |-> <<f.symbol, t>>]
  <2>1. Keys(f) = {g[t] : t \in T}
    BY <1>2 DEF Keys
  <2>2. DOMAIN g = T
    OBVIOUS
  <2> HIDE DEF g
  <2> QED BY <1>2, <2>1, <2>2, FiniteImage
<1> QED BY <1>1, <1>2, <1>3, <1>4, <1>5

KeysOf(files, req) == {k \in UNION {Keys(f) : f \in files} : InRequest(k, req)}

\* Finitely many files have finitely many keys.
LEMMA KeysOfType ==
  ASSUME NEW files, files \subseteq Files, IsFiniteSet(files), NEW req
  PROVE  /\ KeysOf(files, req) \in SUBSET (Int \X Int)
         /\ KeysOf(files, req) \subseteq Symbols \X Times
         /\ IsFiniteSet(KeysOf(files, req))
<1> DEFINE all == UNION {Keys(f) : f \in files}
<1>1. \A f \in files : Keys(f) \in SUBSET (Int \X Int) /\ Keys(f) \subseteq Symbols \X Times /\ IsFiniteSet(Keys(f))
  BY FileParts
<1>2. IsFiniteSet(all)
  <2> DEFINE g == [f \in files |-> Keys(f)]
  <2>1. {g[f] : f \in files} = {Keys(f) : f \in files} /\ DOMAIN g = files
    OBVIOUS
  <2> HIDE DEF g
  <2>2. IsFiniteSet({g[f] : f \in files})
    BY <2>1, FiniteImage
  <2>3. IsFiniteSet({Keys(f) : f \in files})
    BY <2>1, <2>2
  <2> QED BY <1>1, <2>3, FS_UNION
<1>3. KeysOf(files, req) \in SUBSET all
  BY DEF KeysOf
<1>4. all \in SUBSET (Int \X Int) /\ all \subseteq Symbols \X Times
  BY <1>1
<1> HIDE DEF all
<1> QED BY <1>2, <1>3, <1>4, FS_Subset

\* The keys that match a request.
LEMMA MatchingKeysType ==
  ASSUME LakeOK, NEW req
  PROVE  /\ MatchingKeys(req) \in SUBSET (Int \X Int)
         /\ MatchingKeys(req) \subseteq Symbols \X Times
         /\ IsFiniteSet(MatchingKeys(req))
<1>1. MatchingKeys(req) = KeysOf(lake, req)
  BY DEF MatchingKeys, KeysOf
<1> QED BY <1>1, KeysOfType DEF LakeOK

\* A file with a bar in the request is listed.
LEMMA ListedKeys ==
  ASSUME LakeOK, NEW req \in Requests
  PROVE  /\ \A f \in lake : \A k \in Keys(f) : InRequest(k, req) => f \in ListFiles(req)
         /\ {r.key : r \in Source(ListFiles(req), req)} = MatchingKeys(req)
         /\ ListFiles(req) = {} => MatchingKeys(req) = {}
<1>1. ASSUME NEW f \in lake, NEW k \in Keys(f), InRequest(k, req) PROVE f \in ListFiles(req)
  <2> DEFINE T == DOMAIN f.bars
  <2>1. f \in Files
    BY DEF LakeOK
  <2>2. k = <<f.symbol, k[2]>> /\ k[1] = f.symbol /\ k[2] \in T
    BY DEF Keys
  <2>3. T \in SUBSET Int /\ IsFiniteSet(T) /\ T # {}
    BY <2>1, FileParts, PlannerAssumption DEF BarTimes
  <2>4. Segment(f).symbol = f.symbol /\ Segment(f).start = Min(T) /\ Segment(f).end = Max(T)
    BY DEF Segment
  <2> HIDE DEF T
  <2>5. Min(T) \in T /\ Min(T) <= k[2] /\ Max(T) \in T /\ k[2] <= Max(T)
    BY <2>2, <2>3, MinProperties, MaxProperties
  <2>6. Min(T) \in Int /\ Max(T) \in Int /\ k[2] \in Int
    BY <2>2, <2>3, <2>5
  <2>7. (req.end # NoTime => req.end \in Int) /\ (req.start # NoTime => req.start \in Int)
    BY PlannerAssumption DEF Requests
  <2>8. req.end # NoTime => Segment(f).start <= req.end
    BY <1>1, <2>4, <2>5, <2>6, <2>7 DEF InRequest
  <2>9. req.start # NoTime => Segment(f).end >= req.start
    BY <1>1, <2>4, <2>5, <2>6, <2>7 DEF InRequest
  <2>10. req.symbols = {} \/ Segment(f).symbol \in req.symbols
    BY <1>1, <2>2, <2>4 DEF InRequest
  <2> QED BY <2>8, <2>9, <2>10 DEF ListFiles, FileMatchesRequest
<1>2. ASSUME NEW k \in MatchingKeys(req) PROVE \E f \in ListFiles(req) : k \in KeysIn(f, req)
  <2>1. PICK f \in lake : k \in Keys(f) /\ InRequest(k, req)
    BY DEF MatchingKeys
  <2> QED BY <1>1, <2>1 DEF KeysIn
<1>3. ASSUME NEW f \in ListFiles(req), NEW k \in KeysIn(f, req) PROVE k \in MatchingKeys(req)
  BY DEF ListFiles, KeysIn, MatchingKeys
<1>4. {r.key : r \in Source(ListFiles(req), req)} = MatchingKeys(req)
  <2>1. ASSUME NEW r \in Source(ListFiles(req), req) PROVE r.key \in MatchingKeys(req)
    <3>1. PICK f \in ListFiles(req) : r \in {[key |-> k, price |-> f.bars[k[2]], file |-> f] : k \in KeysIn(f, req)}
      BY DEF Source
    <3>2. PICK k \in KeysIn(f, req) : r = [key |-> k, price |-> f.bars[k[2]], file |-> f]
      BY <3>1
    <3> QED BY <1>3, <3>2
  <2>2. ASSUME NEW k \in MatchingKeys(req) PROVE \E r \in Source(ListFiles(req), req) : k = r.key
    <3>1. PICK f \in ListFiles(req) : k \in KeysIn(f, req)
      BY <1>2
    <3> DEFINE r == [key |-> k, price |-> f.bars[k[2]], file |-> f]
    <3>2. r \in Source(ListFiles(req), req) /\ r.key = k
      BY <3>1 DEF Source
    <3> HIDE DEF r
    <3> QED BY <3>2
  <2> QED BY <2>1, <2>2
<1> QED BY <1>1, <1>2, <1>4

(***************************************************************************)
(* A page of the DuckDB reader holds the keys from its offset on, in       *)
(* order, as many as the limit allows, each with the price of a row.       *)
(***************************************************************************)
SortedMatches(req) == SortedBy(MatchingKeys(req), KeyOrder(MatchingKeys(req)))

PageEnd(req, n, from) == Min({from + Limit(n), Cardinality(MatchingKeys(req))})

\* The keys that match a request, each once.
LEMMA SortedMatchesType ==
  ASSUME LakeOK, NEW req
  PROVE  /\ Cardinality(MatchingKeys(req)) \in Nat
         /\ SortedMatches(req) \in Seq(MatchingKeys(req))
         /\ Len(SortedMatches(req)) = Cardinality(MatchingKeys(req))
         /\ SortedMatches(req) = Sorted(MatchingKeys(req), KeyBefore)
         /\ \A i, j \in 1 .. Cardinality(MatchingKeys(req)) :
              i # j => SortedMatches(req)[i] # SortedMatches(req)[j]
         /\ \A k \in MatchingKeys(req) : \E i \in 1 .. Cardinality(MatchingKeys(req)) : SortedMatches(req)[i] = k
<1> DEFINE M == MatchingKeys(req)
           R == KeyOrder(M)
           K == SortedBy(M, R)
           N == Cardinality(M)
<1>1. M \in SUBSET (Int \X Int) /\ IsFiniteSet(M)
  BY MatchingKeysType
<1> HIDE DEF M
<1>2. StrictTotal(R, M) /\ K = Sorted(M, KeyBefore)
  BY <1>1, KeyOrderIsStrict, SortedKeys
<1>3. /\ N \in Nat
      /\ K \in [1 .. N -> M]
      /\ \A i, j \in 1 .. N : i < j => <<K[i], K[j]>> \in R
      /\ \A x \in M : \E i \in 1 .. N : K[i] = x
  <2>1. K = SortedBy(M, R)
    OBVIOUS
  <2> HIDE DEF R, K
  <2> QED BY <1>1, <1>2, <2>1, SortedByProperties
<1> HIDE DEF R, K, N
<1>4. ASSUME NEW i \in 1 .. N, NEW j \in 1 .. N, i # j PROVE K[i] # K[j]
  <2>1. i < j \/ j < i
    BY <1>3, <1>4
  <2> QED BY <1>2, <1>3, <2>1 DEF StrictTotal
<1>5. K \in Seq(M) /\ Len(K) = N
  BY <1>3
<1> QED BY <1>2, <1>3, <1>4, <1>5 DEF SortedMatches, M, R, K, N

\* What a page of the DuckDB reader holds and what its next_offset is.
LEMMA PagesOfKeys ==
  ASSUME LakeOK, NEW req \in Requests, NEW n \in Int, NEW from \in Nat,
         from <= Cardinality(MatchingKeys(req)), NEW page \in DuckDbPages(req, n, from)
  PROVE  /\ [i \in DOMAIN page.rows |-> page.rows[i][1]]
              = SubSeq(SortedMatches(req), from + 1, PageEnd(req, n, from))
         /\ PageEnd(req, n, from) \in Nat
         /\ from <= PageEnd(req, n, from) /\ PageEnd(req, n, from) <= Cardinality(MatchingKeys(req))
         /\ PageEnd(req, n, from) = from => from = Cardinality(MatchingKeys(req))
         /\ DOMAIN page.rows = 1 .. PageEnd(req, n, from) - from
         /\ page.truncated <=> PageEnd(req, n, from) < Cardinality(MatchingKeys(req))
         /\ page.next_offset = IF PageEnd(req, n, from) < Cardinality(MatchingKeys(req))
                               THEN PageEnd(req, n, from) ELSE NoOffset
         /\ \A i \in DOMAIN page.rows :
              \E r \in Source(ListFiles(req), req) : page.rows[i] = <<r.key, r.price>>
<1> DEFINE M == MatchingKeys(req)
           N == Cardinality(M)
           K == SortedMatches(req)
           lim == Limit(n)
           e == PageEnd(req, n, from)
           bars == Source(ListFiles(req), req)
<1>1. N \in Nat /\ K \in Seq(M) /\ Len(K) = N /\ K = Sorted(M, KeyBefore)
  BY SortedMatchesType
<1>2. lim \in Nat \ {0}
  BY LimitType
<1>3. e = IF from + lim <= N THEN from + lim ELSE N
  BY <1>1, <1>2, MinOfTwo DEF PageEnd
<1>4. e \in Nat /\ from <= e /\ e <= N /\ (e = from => from = N)
  BY <1>1, <1>2, <1>3
<1>5. {r.key : r \in bars} = M /\ (ListFiles(req) = {} => M = {})
  BY ListedKeys
<1> DEFINE P == SubSeq(K, from + 1, e)
<1>6. /\ P \in Seq(M) /\ Len(P) = e - from /\ DOMAIN P = 1 .. e - from
  <2>1. \A i \in from + 1 .. e : K[i] \in M
    BY <1>1, <1>4
  <2>2. from + 1 \in Int /\ e \in Int
    BY <1>4
  <2> HIDE DEF e, K, M
  <2>3. SubSeq(K, from + 1, e) \in Seq(M)
        /\ Len(SubSeq(K, from + 1, e)) = IF from + 1 <= e THEN e - (from + 1) + 1 ELSE 0
    BY <2>1, <2>2, SubSeqProperties
  <2>4. Len(P) = e - from
    BY <1>4, <2>3
  <2> HIDE DEF P
  <2>5. DOMAIN P = 1 .. Len(P)
    BY <2>3 DEF P
  <2> QED BY <2>3, <2>4, <2>5 DEF P
<1>7. CASE ListFiles(req) = {}
  <2>1. page = EmptyPage
    BY <1>7 DEF DuckDbPages
  <2>2. M = {}
    BY <1>5, <1>7
  <2>3. N = 0
    BY <2>2, FS_EmptySet
  <2>4. from = 0 /\ e = 0
    BY <1>4, <2>3
  <2>5. page.rows = << >> /\ page.next_offset = NoOffset /\ page.truncated = FALSE
    BY <2>1 DEF EmptyPage
  <2>6. P = << >>
    <3>1. P \in Seq(M) /\ Len(P) = 0
      BY <1>6, <2>4
    <3> HIDE DEF P
    <3> QED BY <3>1
  <2>7. [i \in DOMAIN page.rows |-> page.rows[i][1]] = << >>
    BY <2>5
  <2>8. DOMAIN page.rows = 1 .. e - from
    BY <2>4, <2>5
  <2> HIDE DEF e
  <2> QED BY <1>4, <2>3, <2>4, <2>5, <2>6, <2>7, <2>8 DEF e
<1>8. CASE ListFiles(req) # {}
  <2>1. PICK pick \in Picks(bars) : page = PagePicked(bars, lim, Offset(from), pick)
    BY <1>8 DEF DuckDbPages
  <2>2. Offset(from) = from
    BY OffsetValue
  <2>3. Slice(K, lim, from) = P
    BY <1>1 DEF Slice, PageEnd
  <2>4. page = Page([i \in DOMAIN P |-> <<P[i], pick[P[i]]>>], Cardinality(bars), N, from)
    <3>1. page = Page([i \in DOMAIN Slice(K, lim, from) |->
                         <<Slice(K, lim, from)[i], pick[Slice(K, lim, from)[i]]>>],
                      Cardinality(bars), Len(K), from)
      <4>1. Sorted({r.key : r \in bars}, KeyBefore) = K
        BY <1>1, <1>5
      <4> HIDE DEF K
      <4> QED BY <2>1, <2>2, <4>1 DEF PagePicked
    <3> QED BY <1>1, <2>3, <3>1
  <2> DEFINE prs == [i \in DOMAIN P |-> <<P[i], pick[P[i]]>>]
  <2> HIDE DEF P
  <2>5. DOMAIN prs = 1 .. e - from /\ \A i \in 1 .. e - from : prs[i] = <<P[i], pick[P[i]]>>
    BY <1>6
  <2> HIDE DEF prs
  <2>6. Len(prs) = e - from
    <3>1. e - from \in Nat
      BY <1>4
    <3> DEFINE m == e - from
               Q == {prs[i] : i \in 1 .. m}
    <3>2. prs = [i \in 1 .. m |-> prs[i]]
      BY <2>5 DEF prs
    <3>3. \A i \in 1 .. m : prs[i] \in Q
      OBVIOUS
    <3> HIDE DEF m, Q
    <3>4. prs \in [1 .. m -> Q] /\ m \in Nat
      BY <3>1, <3>2, <3>3 DEF m
    <3>5. Len(prs) = m
      BY <3>4
    <3> QED BY <3>5 DEF m
  <2>7. page = [rows |-> prs, raw_row_count |-> Cardinality(bars), total_row_count |-> N,
                truncated |-> from + Len(prs) < N,
                next_offset |-> IF from + Len(prs) < N THEN from + Len(prs) ELSE NoOffset]
    BY <2>4 DEF Page, prs
  <2>8. from + Len(prs) = e
    BY <1>4, <2>6
  <2>9. page.rows = prs /\ page.next_offset = (IF e < N THEN e ELSE NoOffset)
    BY <2>7, <2>8
  <2>10. page.truncated <=> e < N
    <3> DEFINE cut == from + Len(prs) < N
    <3>1. page = [rows |-> prs, raw_row_count |-> Cardinality(bars), total_row_count |-> N,
                  truncated |-> cut,
                  next_offset |-> IF from + Len(prs) < N THEN from + Len(prs) ELSE NoOffset]
      BY <2>7
    <3> HIDE DEF cut
    <3>2. page.truncated = cut
      BY <3>1
    <3>3. cut <=> e < N
      BY <2>8 DEF cut
    <3> QED BY <3>2, <3>3
  <2>11. [i \in DOMAIN page.rows |-> page.rows[i][1]] = P
    <3>1. [i \in DOMAIN page.rows |-> page.rows[i][1]] = [i \in 1 .. e - from |-> P[i]]
      BY <2>5, <2>9
    <3>2. P = [i \in 1 .. e - from |-> P[i]]
      BY <1>6
    <3> QED BY <3>1, <3>2
  <2>12. ASSUME NEW i \in DOMAIN page.rows PROVE \E r \in bars : page.rows[i] = <<r.key, r.price>>
    <3>1. i \in 1 .. e - from /\ page.rows[i] = <<P[i], pick[P[i]]>>
      BY <2>5, <2>9
    <3>2. P[i] \in M
      BY <1>6, <3>1
    <3>3. P[i] \in {r.key : r \in bars}
      BY <1>5, <3>2
    <3>4. pick[P[i]] \in {r.price : r \in {q \in bars : q.key = P[i]}}
      BY <2>1, <3>3 DEF Picks
    <3>5. PICK r \in bars : r.key = P[i] /\ r.price = pick[P[i]]
      BY <3>4
    <3> QED BY <3>1, <3>5
  <2> HIDE DEF e, M, K, bars
  <2>13. page.rows = prs /\ DOMAIN page.rows = 1 .. e - from
    BY <2>5, <2>9
  <2> QED BY <1>4, <2>9, <2>10, <2>11, <2>12, <2>13 DEF e, M, K, P, bars
<1> QED BY <1>7, <1>8


(***************************************************************************)
(* Paging.  What the client has not been given yet stands behind its       *)
(* offset, also when recorded files moved it.                              *)
(***************************************************************************)
Position(k, req) == Rank(k, MatchingKeys(req), KeyOrder(MatchingKeys(req)))

PageInv(req) ==
  /\ atStart \subseteq MatchingKeys(req)
  /\ ~grown => atStart = MatchingKeys(req)
  /\ offset # NoOffset =>
       /\ offset \in Nat /\ offset <= Cardinality(MatchingKeys(req))
       /\ \A k \in atStart : k \in Range(got) \/ offset <= Position(k, req)
       /\ ~grown => got = SubSeq(SortedMatches(req), 1, offset)
  /\ offset = NoOffset =>
       /\ atStart \subseteq Range(got)
       /\ ~grown => got = SortedMatches(req)

PagingInv ==
  /\ ReadTypeOK
  /\ LakeOK
  /\ reading = {} => offset = NoOffset /\ got = << >> /\ grown = FALSE
  /\ reading # {} => \E req \in Paged : reading = {req}
  /\ \A req \in reading : PageInv(req)

\* What a client was given stays given.
LEMMA RangeOfConcat ==
  ASSUME NEW S, NEW s \in Seq(S), NEW t \in Seq(S)
  PROVE  /\ s \o t \in Seq(S)
         /\ \A x : x \in Range(s) \/ x \in Range(t) => x \in Range(s \o t)
<1> DEFINE m == Len(s)
           n == Len(t)
           u == s \o t
<1>1. u \in Seq(S) /\ Len(u) = m + n /\ m \in Nat /\ n \in Nat
      /\ \A i \in 1 .. m + n : u[i] = IF i <= m THEN s[i] ELSE t[i - m]
  BY ConcatProperties
<1>2. DOMAIN s = 1 .. m /\ DOMAIN t = 1 .. n /\ DOMAIN u = 1 .. m + n
  BY <1>1
<1> HIDE DEF m, n, u
<1>3. ASSUME NEW i \in 1 .. m PROVE s[i] \in Range(u)
  <2>1. i \in 1 .. m + n /\ u[i] = s[i]
    BY <1>1
  <2> QED BY <1>2, <2>1 DEF Range
<1>4. ASSUME NEW i \in 1 .. n PROVE t[i] \in Range(u)
  <2>1. i + m \in 1 .. m + n /\ ~(i + m <= m) /\ (i + m) - m = i
    BY <1>1
  <2>2. u[i + m] = t[i]
    BY <1>1, <2>1
  <2>3. u[i + m] \in Range(u)
    BY <1>2, <2>1 DEF Range
  <2> QED BY <2>2, <2>3
<1> QED BY <1>1, <1>2, <1>3, <1>4 DEF Range, u

\* More keys move a key back, never forward.
LEMMA PositionGrows ==
  ASSUME NEW M, NEW N, M \in SUBSET (Int \X Int), N \in SUBSET (Int \X Int), M \subseteq N, IsFiniteSet(N),
         NEW k \in M
  PROVE  /\ Rank(k, M, KeyOrder(M)) \in Nat /\ Rank(k, N, KeyOrder(N)) \in Nat
         /\ Rank(k, M, KeyOrder(M)) <= Rank(k, N, KeyOrder(N))
         /\ Cardinality(M) \in Nat /\ Cardinality(N) \in Nat
         /\ Cardinality(M) <= Cardinality(N)
<1> DEFINE A == {y \in M : <<y, k>> \in KeyOrder(M)}
           B == {y \in N : <<y, k>> \in KeyOrder(N)}
<1>1. A \in SUBSET B /\ B \in SUBSET N
  BY DEF KeyOrder
<1>2. Rank(k, M, KeyOrder(M)) = Cardinality(A) /\ Rank(k, N, KeyOrder(N)) = Cardinality(B)
  BY DEF Rank
<1> HIDE DEF A, B
<1>3. IsFiniteSet(B)
  BY <1>1, FS_Subset
<1>4. IsFiniteSet(A) /\ Cardinality(A) <= Cardinality(B)
  BY <1>1, <1>3, FS_Subset
<1>5. IsFiniteSet(M) /\ Cardinality(M) <= Cardinality(N)
  BY FS_Subset
<1> QED BY <1>2, <1>3, <1>4, <1>5, FS_CardinalityType

\* A key stands at its position.
LEMMA PositionReached ==
  ASSUME LakeOK, NEW req, NEW k \in MatchingKeys(req)
  PROVE  /\ Position(k, req) \in 0 .. Cardinality(MatchingKeys(req)) - 1
         /\ SortedMatches(req)[Position(k, req) + 1] = k
<1> DEFINE M == MatchingKeys(req)
           R == KeyOrder(M)
<1>1. M \in SUBSET (Int \X Int) /\ IsFiniteSet(M)
  BY MatchingKeysType
<1> HIDE DEF M
<1>2. StrictTotal(R, M)
  BY <1>1, KeyOrderIsStrict
<1> HIDE DEF R
<1>3. Rank(k, M, R) \in 0 .. Cardinality(M) - 1
  BY <1>1, <1>2, RankType DEF M
<1>4. \E i \in 1 .. Cardinality(M) : SortedBy(M, R)[i] = k /\ i = Rank(k, M, R) + 1
  BY <1>1, <1>2, SortedByProperties DEF M
<1> QED BY <1>3, <1>4 DEF M, R, Position, SortedMatches

\* No client reads in the initial state.
LEMMA PagingInit == ReadInit => PagingInv
<1> SUFFICES ASSUME ReadInit PROVE PagingInv
  OBVIOUS
<1>1. LakeOK
  BY FS_EmptySet DEF ReadInit, LakeOK
<1>2. ReadTypeOK
  <2>1. lake \subseteq Files /\ reading \subseteq Paged /\ limit \in Limits \union {0}
        /\ offset \in Nat \union {NoOffset} /\ atStart \subseteq Symbols \X Times
    BY DEF ReadInit
  <2>2. got \in Seq(Symbols \X Times)
    BY DEF ReadInit
  <2>3. grown \in BOOLEAN
    BY DEF ReadInit
  <2> QED BY <2>1, <2>2, <2>3 DEF ReadTypeOK
<1> QED BY <1>1, <1>2 DEF ReadInit, PagingInv

\* A recorded file moves keys that were not given yet back, never before the offset.
LEMMA RecordKeepsPaging ==
  ASSUME PagingInv, Record
  PROVE  PagingInv'
<1>1. PICK f \in Files \ lake : lake' = lake \union {f}
  BY DEF Record
<1>2. UNCHANGED <<reading, limit, offset, got, atStart>> /\ grown' = (reading # {})
  BY DEF Record
<1>3. LakeOK'
  <2>1. IsFiniteSet(lake \union {f})
    BY FS_AddElement DEF PagingInv, LakeOK
  <2> QED BY <1>1, <2>1 DEF PagingInv, LakeOK
<1>4. ReadTypeOK'
  BY <1>1, <1>2 DEF PagingInv, ReadTypeOK
<1>5. ASSUME NEW req \in reading PROVE PageInv(req)'
  <2>0. PageInv(req)
    BY DEF PagingInv
  <2>1. MatchingKeys(req) \subseteq MatchingKeys(req)'
    BY <1>1 DEF MatchingKeys
  <2>2. MatchingKeys(req)' \in SUBSET (Int \X Int) /\ IsFiniteSet(MatchingKeys(req)')
    <3>1. MatchingKeys(req)' = KeysOf(lake', req)
      BY DEF MatchingKeys, KeysOf
    <3> QED BY <1>3, <3>1, KeysOfType DEF LakeOK
  <2>3. MatchingKeys(req) \in SUBSET (Int \X Int) /\ IsFiniteSet(MatchingKeys(req))
    BY MatchingKeysType DEF PagingInv
  <2>4. grown' = TRUE
    BY <1>2
  <2>5. ASSUME NEW k \in MatchingKeys(req)
        PROVE  /\ Position(k, req) \in Nat /\ Position(k, req)' \in Nat
               /\ Position(k, req) <= Position(k, req)'
    BY <2>1, <2>2, <2>3, PositionGrows DEF Position
  <2>6. Cardinality(MatchingKeys(req)) \in Nat /\ Cardinality(MatchingKeys(req)') \in Nat
        /\ Cardinality(MatchingKeys(req)) <= Cardinality(MatchingKeys(req)')
    BY <2>1, <2>2, <2>3, FS_Subset, FS_CardinalityType
  <2>7. (atStart \subseteq MatchingKeys(req))'
    BY <1>2, <2>0, <2>1 DEF PageInv
  <2>8. ASSUME offset # NoOffset
        PROVE  /\ offset' \in Nat /\ offset' <= Cardinality(MatchingKeys(req)')
               /\ \A k \in atStart' : k \in Range(got') \/ offset' <= Position(k, req)'
    <3>1. offset \in Nat /\ offset <= Cardinality(MatchingKeys(req))
          /\ \A k \in atStart : k \in Range(got) \/ offset <= Position(k, req)
      BY <2>0, <2>8 DEF PageInv
    <3>2. offset' \in Nat /\ offset' <= Cardinality(MatchingKeys(req)')
      BY <1>2, <2>6, <3>1
    <3>3. ASSUME NEW k \in atStart, k \notin Range(got) PROVE offset <= Position(k, req)'
      <4>1. k \in MatchingKeys(req)
        BY <2>0 DEF PageInv
      <4>2. offset <= Position(k, req)
        BY <3>1, <3>3
      <4> QED BY <2>5, <3>1, <4>1, <4>2
    <3> QED BY <1>2, <3>2, <3>3
  <2>9. offset = NoOffset => atStart' \subseteq Range(got')
    BY <1>2, <2>0 DEF PageInv
  <2> QED BY <1>2, <2>4, <2>7, <2>8, <2>9 DEF PageInv
<1> QED BY <1>2, <1>3, <1>4, <1>5 DEF PagingInv

\* A client begins before the first key.
LEMMA StartKeepsPaging ==
  ASSUME PagingInv, StartReading
  PROVE  PagingInv'
<1>1. PICK req \in Paged : reading' = {req} /\ atStart' = MatchingKeys(req)
  BY DEF StartReading
<1>2. reading = {} /\ offset' = 0 /\ UNCHANGED <<lake, got, grown>> /\ limit' \in Limits
  BY DEF StartReading
<1>3. got = << >> /\ grown = FALSE /\ LakeOK
  BY <1>2 DEF PagingInv
<1>4. MatchingKeys(req)' = MatchingKeys(req)
  BY <1>2 DEF MatchingKeys
<1>5. LakeOK'
  BY <1>2, <1>3 DEF LakeOK
<1>6. MatchingKeys(req) \subseteq Symbols \X Times
  BY <1>3, MatchingKeysType
<1>7. ReadTypeOK'
  BY <1>1, <1>2, <1>6 DEF PagingInv, ReadTypeOK
<1>8. PageInv(req)'
  <2>0. 0 # NoOffset
    BY ReadAssumption
  <2>1. Cardinality(MatchingKeys(req)) \in Nat
    BY <1>3, SortedMatchesType
  <2>2. \A k \in MatchingKeys(req) : 0 <= Position(k, req)'
    <3>1. \A k \in MatchingKeys(req) : Position(k, req) \in 0 .. Cardinality(MatchingKeys(req)) - 1
      BY <1>3, PositionReached
    <3>2. \A k : Position(k, req)' = Position(k, req)
      BY <1>4 DEF Position
    <3> QED BY <2>1, <3>1, <3>2
  <2>3. SubSeq(SortedMatches(req)', 1, 0) = << >>
    BY SubSeqEmpty
  <2> QED BY <1>1, <1>2, <1>3, <1>4, <2>0, <2>1, <2>2, <2>3 DEF PageInv
<1> QED BY <1>1, <1>2, <1>5, <1>7, <1>8 DEF PagingInv

\* A page gives the keys from the offset up to the next one.
LEMMA PageKeepsPaging ==
  ASSUME PagingInv, ReadPage
  PROVE  PagingInv'
<1>1. PICK req \in reading : \E page \in DuckDbPages(req, limit, offset) :
        /\ got' = got \o [i \in DOMAIN page.rows |-> page.rows[i][1]]
        /\ offset' = page.next_offset
  BY DEF ReadPage
<1>2. PICK page \in DuckDbPages(req, limit, offset) :
        /\ got' = got \o [i \in DOMAIN page.rows |-> page.rows[i][1]]
        /\ offset' = page.next_offset
  BY <1>1
<1>3. offset # NoOffset /\ UNCHANGED <<lake, reading, limit, atStart, grown>>
  BY DEF ReadPage
<1>4. PageInv(req) /\ LakeOK /\ reading = {req} /\ req \in Requests /\ limit \in Int
  <2>1. req \in Paged /\ limit \in Limits \union {0}
    BY DEF PagingInv, ReadTypeOK
  <2>2. req \in Requests /\ limit \in Int
    BY <2>1, ReadAssumption
  <2> QED BY <2>2 DEF PagingInv
<1> DEFINE M == MatchingKeys(req)
           N == Cardinality(M)
           K == SortedMatches(req)
           e == PageEnd(req, limit, offset)
           P == SubSeq(K, offset + 1, e)
<1>5. offset \in Nat /\ offset <= N
  BY <1>3, <1>4 DEF PageInv
<1>6. /\ got' = got \o P
      /\ e \in Nat /\ offset <= e /\ e <= N
      /\ offset' = IF e < N THEN e ELSE NoOffset
  <2> DEFINE keys == [i \in DOMAIN page.rows |-> page.rows[i][1]]
  <2>1. got' = got \o keys /\ offset' = page.next_offset
    BY <1>2
  <2>2. keys = P /\ e \in Nat /\ offset <= e /\ e <= N
        /\ page.next_offset = IF e < N THEN e ELSE NoOffset
    BY <1>4, <1>5, PagesOfKeys
  <2> HIDE DEF keys, P, e, N
  <2> QED BY <2>1, <2>2
<1>7. N \in Nat /\ K \in Seq(M) /\ Len(K) = N
  BY <1>4, SortedMatchesType
<1>8. M \subseteq Symbols \X Times /\ atStart \subseteq M
  BY <1>4, MatchingKeysType DEF PageInv
<1>m. M' = M /\ K' = K /\ \A k : Position(k, req)' = Position(k, req)
  BY <1>3 DEF MatchingKeys, SortedMatches, Position
<1>k. \A k \in M : Position(k, req) \in 0 .. N - 1 /\ K[Position(k, req) + 1] = k
  BY <1>4, PositionReached
<1> HIDE DEF M, N, K, e
<1>9. /\ P \in Seq(M) /\ DOMAIN P = 1 .. e - offset
      /\ \A i \in 1 .. e - offset : P[i] = K[offset + i]
  <2>1. \A i \in offset + 1 .. e : K[i] \in M
    <3>1. \A i \in 1 .. N : K[i] \in M
      BY <1>7
    <3> QED BY <1>5, <1>6, <1>7, <3>1
  <2>2. offset + 1 \in Int /\ e \in Int
    BY <1>5, <1>6
  <2>3. /\ P \in Seq(M)
        /\ Len(P) = IF offset + 1 <= e THEN e - (offset + 1) + 1 ELSE 0
        /\ \A i \in 1 .. e - (offset + 1) + 1 : P[i] = K[offset + 1 + i - 1]
    BY <2>1, <2>2, SubSeqProperties
  <2> HIDE DEF P
  <2>4. Len(P) = e - offset /\ e - (offset + 1) + 1 = e - offset
    BY <1>5, <1>6, <2>3
  <2>5. DOMAIN P = 1 .. e - offset
    BY <2>3, <2>4
  <2>6. \A i \in 1 .. e - offset : offset + 1 + i - 1 = offset + i
    BY <1>5
  <2> QED BY <2>3, <2>4, <2>5, <2>6
<1>p. P = SubSeq(K, offset + 1, e)
  OBVIOUS
<1> HIDE DEF P
<1>10. got \in Seq(Symbols \X Times) /\ P \in Seq(Symbols \X Times)
  BY <1>8, <1>9 DEF PagingInv, ReadTypeOK
<1>11. got' \in Seq(Symbols \X Times)
       /\ \A x : x \in Range(got) \/ x \in Range(P) => x \in Range(got')
  BY <1>6, <1>10, RangeOfConcat
<1>12. ASSUME NEW k \in atStart PROVE k \in Range(got') \/ e <= Position(k, req)
  <2>1. k \in M
    BY <1>8
  <2>2. k \in Range(got) \/ offset <= Position(k, req)
    BY <1>3, <1>4 DEF PageInv
  <2>3. CASE offset <= Position(k, req) /\ Position(k, req) < e
    <3> DEFINE i == Position(k, req) + 1 - offset
    <3>1. Position(k, req) \in Nat /\ K[Position(k, req) + 1] = k
      BY <1>7, <1>k, <2>1
    <3>2. i \in 1 .. e - offset /\ offset + i = Position(k, req) + 1
      BY <1>5, <1>6, <2>3, <3>1
    <3> HIDE DEF i
    <3>3. P[i] = k
      BY <1>9, <3>1, <3>2
    <3>4. P[i] \in Range(P)
      BY <1>9, <3>2 DEF Range
    <3> QED BY <1>11, <3>3, <3>4
  <2>4. CASE k \in Range(got)
    BY <1>11, <2>4
  <2>5. Position(k, req) \in Int
    BY <1>7, <1>k, <2>1
  <2> QED BY <1>6, <2>2, <2>3, <2>4, <2>5
<1>13. ASSUME ~grown PROVE got' = SubSeq(K, 1, e)
  <2>1. got = SubSeq(K, 1, offset)
    BY <1>3, <1>4, <1>13 DEF PageInv, K
  <2>2. 1 \in 1 .. Len(K) + 1 /\ offset \in 1 - 1 .. Len(K) /\ e \in offset .. Len(K)
    BY <1>5, <1>6, <1>7
  <2>3. SubSeq(K, 1, offset) \o SubSeq(K, offset + 1, e) = SubSeq(K, 1, e)
    BY <1>7, <2>2, ConcatAdjacentSubSeq
  <2> QED BY <1>6, <1>p, <2>1, <2>3
<1>14. PageInv(req)'
  <2>1. CASE e < N
    <3>1. offset' = e /\ e # NoOffset
      BY <1>6, <2>1, ReadAssumption
    <3>2. (atStart \subseteq MatchingKeys(req))' /\ (~grown => atStart = MatchingKeys(req))'
      BY <1>3, <1>4, <1>m DEF PageInv, M
    <3>3. offset' \in Nat /\ offset' <= Cardinality(MatchingKeys(req)')
      BY <1>6, <1>m, <3>1 DEF M, N
    <3>4. \A k \in atStart' : k \in Range(got') \/ offset' <= Position(k, req)'
      BY <1>3, <1>12, <1>m, <3>1
    <3>5. ~grown' => got' = SubSeq(SortedMatches(req)', 1, offset')
      BY <1>3, <1>13, <1>m, <3>1 DEF K
    <3> QED BY <3>1, <3>2, <3>3, <3>4, <3>5 DEF PageInv
  <2>2. CASE ~(e < N)
    <3>1. offset' = NoOffset /\ e = N
      BY <1>6, <1>7, <2>2
    <3>2. (atStart \subseteq MatchingKeys(req))' /\ (~grown => atStart = MatchingKeys(req))'
      BY <1>3, <1>4, <1>m DEF PageInv, M
    <3>3. ASSUME NEW k \in atStart PROVE k \in Range(got')
      <4>1. Position(k, req) \in 0 .. N - 1
        BY <1>8, <1>k
      <4>2. ~(e <= Position(k, req))
        BY <1>7, <3>1, <4>1
      <4> QED BY <1>12, <4>2
    <3>4. ASSUME ~grown PROVE got' = K
      <4>1. SubSeq(K, 1, Len(K)) = K
        BY <1>7, SubSeqFull
      <4> QED BY <1>7, <1>13, <3>1, <3>4, <4>1
    <3> QED BY <1>3, <1>m, <3>1, <3>2, <3>3, <3>4 DEF PageInv, K
  <2> QED BY <2>1, <2>2
<1>15. LakeOK'
  BY <1>3, <1>4 DEF LakeOK
<1>16. ReadTypeOK'
  <2>1. offset' \in Nat \union {NoOffset}
    BY <1>6
  <2> QED BY <1>3, <1>11, <2>1 DEF PagingInv, ReadTypeOK
<1>17. reading' = {req} /\ req \in Paged
  BY <1>3, <1>4 DEF PagingInv, ReadTypeOK
<1> QED BY <1>14, <1>15, <1>16, <1>17 DEF PagingInv

\* The paging invariant holds in every state.
LEMMA PagingInvariant == ReadSpec => []PagingInv
<1>1. PagingInv /\ [ReadNext]_readVars => PagingInv'
  <2> SUFFICES ASSUME PagingInv, [ReadNext]_readVars PROVE PagingInv'
    OBVIOUS
  <2>1. CASE UNCHANGED readVars
    BY <2>1 DEF readVars, client, PagingInv, ReadTypeOK, LakeOK, PageInv, MatchingKeys, SortedMatches, Position
  <2> QED BY <2>1, RecordKeepsPaging, StartKeepsPaging, PageKeepsPaging DEF ReadNext
<1> QED BY <1>1, PagingInit, PTL DEF ReadSpec

(***************************************************************************)
(* The state of a client that reads pages keeps its type.                  *)
(***************************************************************************)
THEOREM ReadTypeCorrect == ReadSpec => []ReadTypeOK
<1>1. PagingInv => ReadTypeOK
  BY DEF PagingInv
<1> QED BY <1>1, PagingInvariant, PTL

(***************************************************************************)
(* A client that follows next_offset to the end is given every bar that    *)
(* was recorded when it began, although files are recorded between its     *)
(* pages; when none is, each bar once and in order.                        *)
(***************************************************************************)
THEOREM PagesMissNothing == ReadSpec => []PagingMissesNothing
<1>1. PagingInv => PagingMissesNothing
  <2> SUFFICES ASSUME PagingInv, reading # {}, offset = NoOffset
               PROVE  atStart \subseteq Range(got) /\ (~grown => got = Sorted(atStart, KeyBefore))
    BY DEF PagingMissesNothing
  <2>1. PICK req : req \in reading
    OBVIOUS
  <2>2. PageInv(req) /\ LakeOK
    BY <2>1 DEF PagingInv
  <2>3. atStart \subseteq Range(got) /\ (~grown => got = SortedMatches(req) /\ atStart = MatchingKeys(req))
    BY <2>2 DEF PageInv
  <2>4. SortedMatches(req) = Sorted(MatchingKeys(req), KeyBefore)
    BY <2>2, SortedMatchesType
  <2> QED BY <2>3, <2>4
<1> QED BY <1>1, PagingInvariant, PTL


(***************************************************************************)
(* The quality report.                                                     *)
(***************************************************************************)
\* The rows of a page from the first row on.
LEMMA FirstPage ==
  ASSUME LakeOK, NEW req \in Requests, NEW n \in Int, NEW page \in DuckDbPages(req, n, 0)
  PROVE  /\ DOMAIN page.rows \subseteq Nat
         /\ \A i, j \in DOMAIN page.rows : i # j => page.rows[i][1] # page.rows[j][1]
         /\ \A r \in Range(page.rows) :
              /\ r = <<r[1], r[2]>>
              /\ r[1] \in MatchingKeys(req)
              /\ \E f \in lake : r[1] \in Keys(f) /\ f.bars[r[1][2]] = r[2] /\ r[2] \in Prices
         /\ ~page.truncated => \A k \in MatchingKeys(req) : \E r \in Range(page.rows) : r[1] = k
<1> DEFINE M == MatchingKeys(req)
           N == Cardinality(M)
           K == SortedMatches(req)
           e == PageEnd(req, n, 0)
           keys == [i \in DOMAIN page.rows |-> page.rows[i][1]]
<1>1. N \in Nat /\ K \in Seq(M) /\ Len(K) = N
      /\ (\A i, j \in 1 .. N : i # j => K[i] # K[j])
      /\ \A k \in M : \E i \in 1 .. N : K[i] = k
  BY SortedMatchesType
<1>2. /\ keys = SubSeq(K, 0 + 1, e)
      /\ e \in Nat /\ e <= N
      /\ DOMAIN page.rows = 1 .. e - 0
      /\ page.truncated <=> e < N
      /\ \A i \in DOMAIN page.rows :
           \E r \in Source(ListFiles(req), req) : page.rows[i] = <<r.key, r.price>>
  <2>1. 0 \in Nat /\ 0 <= N
    BY <1>1
  <2> QED BY <2>1, PagesOfKeys
<1> HIDE DEF M, N, K, e
<1>3. DOMAIN page.rows = 1 .. e
  BY <1>2
<1>4. \A i \in 1 .. e : page.rows[i][1] = K[i] /\ K[i] \in M
  <2>1. \A i \in 1 .. e : K[i] \in M
    <3>1. \A i \in 1 .. N : K[i] \in M
      BY <1>1
    <3> QED BY <1>1, <1>2, <3>1
  <2>2. \A i \in 1 .. e - 1 + 1 : SubSeq(K, 1, e)[i] = K[1 + i - 1]
    BY <1>2, <2>1, SubSeqProperties
  <2>3. \A i \in 1 .. e : SubSeq(K, 1, e)[i] = K[i]
    BY <1>2, <2>2
  <2>4. 0 + 1 = 1
    OBVIOUS
  <2>5. keys = SubSeq(K, 1, e)
    BY <1>2, <2>4
  <2>6. \A i \in 1 .. e : keys[i] = page.rows[i][1]
    BY <1>3
  <2> QED BY <2>1, <2>3, <2>5, <2>6
<1> HIDE DEF keys
<1>5. \A i, j \in DOMAIN page.rows : i # j => page.rows[i][1] # page.rows[j][1]
  BY <1>1, <1>2, <1>3, <1>4
<1>6. ASSUME NEW r \in Range(page.rows)
      PROVE  /\ r = <<r[1], r[2]>>
             /\ r[1] \in MatchingKeys(req)
             /\ \E f \in lake : r[1] \in Keys(f) /\ f.bars[r[1][2]] = r[2] /\ r[2] \in Prices
  <2>1. PICK i \in DOMAIN page.rows : r = page.rows[i]
    BY DEF Range
  <2>2. r[1] \in M
    BY <1>3, <1>4, <2>1
  <2>3. PICK q \in Source(ListFiles(req), req) : r = <<q.key, q.price>>
    BY <1>2, <2>1
  <2>4. PICK f \in ListFiles(req) : q \in {[key |-> k, price |-> f.bars[k[2]], file |-> f] : k \in KeysIn(f, req)}
    BY DEF Source
  <2>5. PICK k \in KeysIn(f, req) : q = [key |-> k, price |-> f.bars[k[2]], file |-> f]
    BY <2>4
  <2>6. r[1] = k /\ r[2] = f.bars[k[2]] /\ r = <<r[1], r[2]>>
    BY <2>3, <2>5
  <2>7. f \in lake /\ k \in Keys(f) /\ f \in Files
    BY DEF ListFiles, KeysIn, LakeOK
  <2>8. k[2] \in DOMAIN f.bars
    BY <2>7 DEF Keys
  <2>9. f.bars[k[2]] \in Prices
    BY <2>7, <2>8, FileParts
  <2> QED BY <2>2, <2>6, <2>7, <2>9 DEF M
<1>7. ASSUME ~page.truncated, NEW k \in M PROVE \E r \in Range(page.rows) : r[1] = k
  <2>1. e = N
    BY <1>1, <1>2, <1>7
  <2>2. PICK i \in 1 .. N : K[i] = k
    BY <1>1
  <2>3. page.rows[i] \in Range(page.rows) /\ page.rows[i][1] = k
    BY <1>3, <1>4, <2>1, <2>2 DEF Range
  <2> QED BY <2>3
<1>8. DOMAIN page.rows \subseteq Nat
  BY <1>3
<1> QED BY <1>5, <1>6, <1>7, <1>8 DEF M

\* The report of one page.
LEMMA ReportTellsTheLake ==
  ASSUME LakeOK, NEW req \in Requests, req.kind = "daily_bars", NEW n \in Int,
         NEW q \in QualityPages(req, n)
  PROVE  /\ q.report.duplicate_rows = {}
         /\ \A k \in q.report.price_anomalies : Stored(k, BadPrices)
         /\ \A k \in q.report.volume_anomalies : Stored(k, BadVolumes)
         /\ ~q.truncated =>
              /\ q.report.missing_dates =
                   {m \in {k[1] : k \in MatchingKeys(req)} \X ExpectedWeekdays(req) :
                      ~Stored(m, Prices)}
              /\ \A k \in MatchingKeys(req) :
                   ~Stored(k, Prices \ BadPrices) => k \in q.report.price_anomalies
<1>1. PICK page \in DuckDbPages(req, n, 0) :
        q = [report |-> QualityReport(page.rows, req), truncated |-> page.truncated]
  BY DEF QualityPages
<1> DEFINE bars == page.rows
           M == MatchingKeys(req)
<1>2. /\ q.truncated = page.truncated
      /\ q.report.missing_dates = MissingDates(bars, req)
      /\ q.report.duplicate_rows = DuplicateRows(bars)
      /\ q.report.price_anomalies = Anomalies(bars, BadPrices)
      /\ q.report.volume_anomalies = Anomalies(bars, BadVolumes)
  BY <1>1 DEF QualityReport
<1>3. /\ DOMAIN bars \subseteq Nat
      /\ \A i, j \in DOMAIN bars : i # j => bars[i][1] # bars[j][1]
      /\ \A r \in Range(bars) :
           /\ r = <<r[1], r[2]>>
           /\ r[1] \in M
           /\ \E f \in lake : r[1] \in Keys(f) /\ f.bars[r[1][2]] = r[2] /\ r[2] \in Prices
      /\ ~page.truncated => \A k \in M : \E r \in Range(bars) : r[1] = k
  BY FirstPage
<1> HIDE DEF bars
<1>4. DuplicateRows(bars) = {}
  <2>1. ASSUME NEW i \in DOMAIN bars, NEW k \in 1 .. i - 1, bars[k][1] = bars[i][1] PROVE FALSE
    <3>1. i \in Nat /\ k # i
      BY <1>3
    <3>2. k \in DOMAIN bars
      <4>1. \E N \in Nat : DOMAIN bars = 1 .. N
        <5>1. PageEnd(req, n, 0) \in Nat /\ DOMAIN page.rows = 1 .. PageEnd(req, n, 0) - 0
          <6>1. 0 \in Nat /\ 0 <= Cardinality(MatchingKeys(req))
            BY SortedMatchesType
          <6> QED BY <6>1, PagesOfKeys
        <5>2. DOMAIN bars = 1 .. PageEnd(req, n, 0)
          BY <5>1 DEF bars
        <5> QED BY <5>1, <5>2
      <4>2. PICK N \in Nat : DOMAIN bars = 1 .. N
        BY <4>1
      <4>3. i \in 1 .. N
        BY <4>2
      <4>4. k \in 1 .. N
        BY <4>3
      <4> QED BY <4>2, <4>4
    <3> QED BY <1>3, <2>1, <3>1, <3>2
  <2> QED BY <2>1 DEF DuplicateRows
<1>5. ASSUME NEW bad, NEW k \in Anomalies(bars, bad) PROVE Stored(k, bad)
  <2>1. PICK r \in Range(bars) : r[2] \in bad /\ k = r[1]
    BY DEF Anomalies
  <2>2. PICK f \in lake : r[1] \in Keys(f) /\ f.bars[r[1][2]] = r[2]
    BY <1>3
  <2> QED BY <2>1, <2>2 DEF Stored
<1>6. ASSUME ~page.truncated, NEW k \in M, ~Stored(k, Prices \ BadPrices)
      PROVE  k \in Anomalies(bars, BadPrices)
  <2>1. PICK r \in Range(bars) : r[1] = k
    BY <1>3, <1>6
  <2>2. PICK f \in lake : r[1] \in Keys(f) /\ f.bars[r[1][2]] = r[2] /\ r[2] \in Prices
    BY <1>3
  <2>3. r[2] \in BadPrices
    BY <1>6, <2>1, <2>2 DEF Stored
  <2> QED BY <2>1, <2>3 DEF Anomalies
<1>7. ASSUME ~page.truncated
      PROVE  MissingDates(bars, req) =
               {m \in {k[1] : k \in M} \X ExpectedWeekdays(req) : ~Stored(m, Prices)}
  <2>1. Observed(bars) = {k[1] : k \in M}
    <3>1. ASSUME NEW s \in Observed(bars) PROVE s \in {k[1] : k \in M}
      <4>1. PICK r \in Range(bars) : s = r[1][1]
        BY DEF Observed
      <4> QED BY <1>3, <4>1
    <3>2. ASSUME NEW k \in M PROVE k[1] \in Observed(bars)
      <4>1. PICK r \in Range(bars) : r[1] = k
        BY <1>3, <1>7
      <4> QED BY <4>1 DEF Observed
    <3> QED BY <3>1, <3>2
  <2>2. ASSUME NEW m \in Observed(bars) \X ExpectedWeekdays(req)
        PROVE  m[2] \in RowDates(bars, m[1], req.kind) <=> Stored(m, Prices)
    <3>0. m = <<m[1], m[2]>> /\ m[1] \in Observed(bars) /\ m[2] \in ExpectedWeekdays(req)
      OBVIOUS
    <3>1. m[2] \in RowDates(bars, m[1], req.kind) <=>
            \E r \in Range(bars) : r[1][1] = m[1] /\ r[1][2] = m[2]
      BY DEF RowDates
    <3>m. \A k \in M : k = <<k[1], k[2]>>
      <4>1. M \in SUBSET (Int \X Int)
        BY MatchingKeysType
      <4> HIDE DEF M
      <4> QED BY <4>1
    <3>2. ASSUME NEW r \in Range(bars), r[1][1] = m[1], r[1][2] = m[2] PROVE Stored(m, Prices)
      <4>1. r[1] = m
        <5>1. r[1] \in M
          BY <1>3
        <5>2. r[1] = <<r[1][1], r[1][2]>>
          BY <3>m, <5>1
        <5> QED BY <3>0, <3>2, <5>2
      <4>2. PICK f \in lake : r[1] \in Keys(f) /\ f.bars[r[1][2]] = r[2] /\ r[2] \in Prices
        BY <1>3
      <4> QED BY <4>1, <4>2 DEF Stored
    <3>3. ASSUME Stored(m, Prices) PROVE \E r \in Range(bars) : r[1][1] = m[1] /\ r[1][2] = m[2]
      <4>1. PICK f \in lake : m \in Keys(f)
        BY <3>3 DEF Stored
      <4>2. PICK k \in M : m[1] = k[1]
        BY <2>1, <3>0
      <4>3. req.symbols = {} \/ m[1] \in req.symbols
        BY <4>2 DEF MatchingKeys, InRequest
      <4>4. req.start # NoTime /\ req.end # NoTime /\ req.start <= m[2] /\ m[2] <= req.end
        BY <3>0 DEF ExpectedWeekdays
      <4>5. InRequest(m, req)
        BY <4>3, <4>4 DEF InRequest
      <4>6. m \in M
        BY <4>1, <4>5 DEF MatchingKeys
      <4>7. PICK r \in Range(bars) : r[1] = m
        BY <1>3, <1>7, <4>6
      <4> QED BY <4>7
    <3> QED BY <3>1, <3>2, <3>3
  <2> HIDE DEF M
  <2>3. MissingDates(bars, req) =
          {m \in Observed(bars) \X ExpectedWeekdays(req) : m[2] \notin RowDates(bars, m[1], req.kind)}
    BY DEF MissingDates
  <2>4. MissingDates(bars, req) = {m \in Observed(bars) \X ExpectedWeekdays(req) : ~Stored(m, Prices)}
    BY <2>2, <2>3
  <2> QED BY <2>1, <2>4
<1> HIDE DEF M
<1>8. \A k \in q.report.price_anomalies : Stored(k, BadPrices)
  BY <1>2, <1>5
<1>9. \A k \in q.report.volume_anomalies : Stored(k, BadVolumes)
  BY <1>2, <1>5
<1> QED BY <1>2, <1>4, <1>6, <1>7, <1>8, <1>9 DEF M

(***************************************************************************)
(* A quality report on daily bars tells what the lake holds: overlapping   *)
(* files are no duplicates, what is reported as bad is recorded and bad,   *)
(* and a report on a page that was not cut off misses no weekday and no    *)
(* bar that is bad in every file.                                          *)
(***************************************************************************)
THEOREM QualityIsTrue == ReadSpec => []QualityTellsTheLake
<1>1. LakeOK => QualityTellsTheLake
  <2> SUFFICES ASSUME LakeOK, NEW req \in Paged \union Ranges({"daily_bars"} \intersect Kinds),
                      NEW n \in Limits, req.kind = "daily_bars", NEW q \in QualityPages(req, n)
               PROVE  /\ q.report.duplicate_rows = {}
                      /\ \A k \in q.report.price_anomalies : Stored(k, BadPrices)
                      /\ \A k \in q.report.volume_anomalies : Stored(k, BadVolumes)
                      /\ ~q.truncated =>
                           /\ q.report.missing_dates =
                                {m \in {k[1] : k \in MatchingKeys(req)} \X ExpectedWeekdays(req) :
                                   ~Stored(m, Prices)}
                           /\ \A k \in MatchingKeys(req) :
                                ~Stored(k, Prices \ BadPrices) => k \in q.report.price_anomalies
    BY DEF QualityTellsTheLake
  <2>1. req \in Requests /\ n \in Int
    BY ReadAssumption DEF Ranges
  <2> QED BY <2>1, ReportTellsTheLake
<1> QED BY <1>1, LakeStaysOK, PTL


(***************************************************************************)
(* The fallback reader.                                                    *)
(***************************************************************************)
TimeOrder(T) == {p \in T \X T : p[1] < p[2]}

\* Times in their order.
LEMMA SortedTimes ==
  ASSUME NEW T \in SUBSET Int, IsFiniteSet(T)
  PROVE  /\ StrictTotal(TimeOrder(T), T)
         /\ Sorted(T, LAMBDA t, u : t < u) = SortedBy(T, TimeOrder(T))
<1> DEFINE n == Cardinality(T)
           s == Sorted(T, LAMBDA t, u : t < u)
           Lower(x) == {y \in T : y < x}
<1>1. StrictTotal(TimeOrder(T), T)
  BY DEF StrictTotal, TimeOrder
<1>2. ASSUME NEW x \in T PROVE Cardinality(Lower(x)) = Rank(x, T, TimeOrder(T))
  <2>1. Lower(x) = {y \in T : <<y, x>> \in TimeOrder(T)}
    BY DEF TimeOrder
  <2> QED BY <2>1 DEF Rank
<1>3. ASSUME NEW i \in 1 .. n PROVE s[i] \in T /\ Rank(s[i], T, TimeOrder(T)) = i - 1
  <2>1. s[i] = CHOOSE x \in T : Cardinality(Lower(x)) = i - 1
    BY DEF Sorted
  <2>2. \E x \in T : Rank(x, T, TimeOrder(T)) = i - 1
    BY <1>1, RankReached
  <2>3. \E x \in T : Cardinality(Lower(x)) = i - 1
    BY <1>2, <2>2
  <2> HIDE DEF s, Lower
  <2>4. s[i] \in T /\ Cardinality(Lower(s[i])) = i - 1
    BY <2>1, <2>3
  <2> QED BY <1>2, <2>4
<1>4. s \in [1 .. n -> T]
  <2>1. s = [i \in 1 .. n |-> CHOOSE x \in T : Cardinality(Lower(x)) = i - 1]
    BY DEF Sorted
  <2> HIDE DEF s, Lower
  <2>2. s = [i \in 1 .. n |-> s[i]]
    BY <2>1
  <2> QED BY <1>3, <2>2
<1> HIDE DEF s
<1>5. n \in Nat
  BY FS_CardinalityType
<1>6. s = SortedBy(T, TimeOrder(T))
  BY <1>1, <1>3, <1>4, <1>5, RankedIsSorted
<1> QED BY <1>1, <1>6 DEF s

\* The rows of one file.
SourceOf(f, req) == {[key |-> k, price |-> f.bars[k[2]], file |-> f] : k \in KeysIn(f, req)}

FileRows == (Int \X Int) \X Prices

\* rows are those of the entries E: each has its entry, each entry its row,
\* and there are as many.
RowsTell(bars, E) ==
  /\ bars \in Seq(FileRows)
  /\ IsFiniteSet(E) /\ Len(bars) = Cardinality(E)
  /\ \A i \in 1 .. Len(bars) : \E r \in E : bars[i] = <<r.key, r.price>>
  /\ \A r \in E : \E i \in 1 .. Len(bars) : bars[i] = <<r.key, r.price>>

\* The rows the fallback reads from one file.
LEMMA RowsOfFile ==
  ASSUME NEW f \in Files, NEW req
  PROVE  RowsTell(RowsOf(f, req), SourceOf(f, req))
<1> DEFINE T == {k[2] : k \in KeysIn(f, req)}
           N == Cardinality(T)
           s == SortedBy(T, TimeOrder(T))
           E == SourceOf(f, req)
           bars == RowsOf(f, req)
           entry(t) == [key |-> <<f.symbol, t>>, price |-> f.bars[t], file |-> f]
           g == [t \in T |-> entry(t)]
<1>1. \A k \in KeysIn(f, req) : k = <<f.symbol, k[2]>> /\ k[2] \in DOMAIN f.bars
  BY DEF KeysIn, Keys
<1>2. \A t \in T : t \in DOMAIN f.bars /\ t \in Int /\ f.bars[t] \in Prices /\ <<f.symbol, t>> \in KeysIn(f, req)
  BY <1>1, FileParts
<1>3. T \in SUBSET Int /\ IsFiniteSet(T)
  <2>1. IsFiniteSet(DOMAIN f.bars)
    BY FileParts DEF BarTimes
  <2>2. T \in SUBSET (DOMAIN f.bars) /\ T \in SUBSET Int
    BY <1>2
  <2> QED BY <2>1, <2>2, FS_Subset
<1>4. \A r \in E : \E t \in T : r = entry(t)
  <2>1. ASSUME NEW r \in E PROVE \E t \in T : r = entry(t)
    <3>1. PICK k \in KeysIn(f, req) : r = [key |-> k, price |-> f.bars[k[2]], file |-> f]
      BY DEF SourceOf
    <3>2. k[2] \in T /\ k = <<f.symbol, k[2]>>
      BY <1>1
    <3> QED BY <3>1, <3>2
  <2> QED BY <2>1
<1>5. \A t \in T : entry(t) \in E
  <2>1. ASSUME NEW t \in T PROVE entry(t) \in E
    <3>1. <<f.symbol, t>> \in KeysIn(f, req) /\ <<f.symbol, t>>[2] = t
      BY <1>2
    <3> QED BY <3>1 DEF SourceOf
  <2> QED BY <2>1
<1>6. \A t \in T : entry(t).key = <<f.symbol, t>> /\ entry(t).price = f.bars[t]
  OBVIOUS
<1> HIDE DEF entry, E
<1>7. g \in [T -> E] /\ (\A t \in T : g[t] = entry(t))
  BY <1>5
<1> HIDE DEF g, T
<1>8. \A t, u \in T : g[t] = g[u] => t = u
  BY <1>6, <1>7
<1>9. g \in Bijection(T, E)
  BY <1>4, <1>7, <1>8 DEF Bijection, Injection, Surjection, IsInjective
<1>10. IsFiniteSet(E) /\ Cardinality(E) = N
  BY <1>3, <1>9, FS_Bijection DEF ExistsBijection
<1>11. StrictTotal(TimeOrder(T), T) /\ Sorted(T, LAMBDA t, u : t < u) = s
  BY <1>3, SortedTimes
<1>12. /\ N \in Nat /\ s \in [1 .. N -> T]
       /\ \A t \in T : \E i \in 1 .. N : s[i] = t
  <2> DEFINE R == TimeOrder(T)
  <2>1. StrictTotal(R, T)
    BY <1>11
  <2> HIDE DEF R
  <2>2. /\ Cardinality(T) \in Nat /\ SortedBy(T, R) \in [1 .. Cardinality(T) -> T]
        /\ \A t \in T : \E i \in 1 .. Cardinality(T) : SortedBy(T, R)[i] = t
    BY <1>3, <2>1, SortedByProperties
  <2> QED BY <2>2 DEF R
<1> HIDE DEF s, N
<1>13. bars = [i \in 1 .. N |-> <<<<f.symbol, s[i]>>, f.bars[s[i]]>>]
  <2>1. bars = [i \in DOMAIN Sorted(T, LAMBDA t, u : t < u) |->
                  <<<<f.symbol, Sorted(T, LAMBDA t, u : t < u)[i]>>, f.bars[Sorted(T, LAMBDA t, u : t < u)[i]]>>]
    BY DEF RowsOf, T
  <2>2. DOMAIN s = 1 .. N
    BY <1>12
  <2> QED BY <1>11, <2>1, <2>2
<1>14. \A i \in 1 .. N : bars[i] = <<entry(s[i]).key, entry(s[i]).price>> /\ s[i] \in T /\ bars[i] \in FileRows
  <2>1. ASSUME NEW i \in 1 .. N PROVE bars[i] = <<entry(s[i]).key, entry(s[i]).price>> /\ s[i] \in T /\ bars[i] \in FileRows
    <3>1. s[i] \in T
      BY <1>12
    <3>2. f.symbol \in Int /\ s[i] \in Int /\ f.bars[s[i]] \in Prices
      BY <1>2, <3>1, FileParts
    <3>3. bars[i] = <<<<f.symbol, s[i]>>, f.bars[s[i]]>>
      BY <1>13
    <3> QED BY <1>6, <3>1, <3>2, <3>3 DEF FileRows
  <2> QED BY <2>1
<1>15. DOMAIN bars = 1 .. N /\ bars = [i \in 1 .. N |-> bars[i]]
  BY <1>13
<1> HIDE DEF bars
<1>16. bars \in Seq(FileRows) /\ Len(bars) = N
  <2>1. bars \in [1 .. N -> FileRows]
    BY <1>14, <1>15
  <2> QED BY <1>12, <2>1
<1>17. \A i \in 1 .. N : \E r \in E : bars[i] = <<r.key, r.price>>
  BY <1>5, <1>14
<1>18. \A r \in E : \E i \in 1 .. N : bars[i] = <<r.key, r.price>>
  <2>1. ASSUME NEW r \in E PROVE \E i \in 1 .. N : bars[i] = <<r.key, r.price>>
    <3>1. PICK t \in T : r = entry(t)
      BY <1>4
    <3>2. PICK i \in 1 .. N : s[i] = t
      BY <1>12
    <3> QED BY <1>14, <3>1, <3>2
  <2> QED BY <2>1
<1> QED BY <1>10, <1>16, <1>17, <1>18 DEF RowsTell, bars, E


\* The rows of one file after those of others: no entry is of both.
LEMMA RowsAppended ==
  ASSUME NEW bars, NEW E, RowsTell(bars, E), NEW more, NEW F, RowsTell(more, F), E \intersect F = {}
  PROVE  RowsTell(bars \o more, E \union F)
<1> DEFINE m == Len(bars)
           n == Len(more)
           all == bars \o more
<1>0. /\ bars \in Seq(FileRows) /\ IsFiniteSet(E) /\ m = Cardinality(E)
      /\ (\A i \in 1 .. m : \E r \in E : bars[i] = <<r.key, r.price>>)
      /\ (\A r \in E : \E i \in 1 .. m : bars[i] = <<r.key, r.price>>)
      /\ more \in Seq(FileRows) /\ IsFiniteSet(F) /\ n = Cardinality(F)
      /\ (\A i \in 1 .. n : \E r \in F : more[i] = <<r.key, r.price>>)
      /\ (\A r \in F : \E i \in 1 .. n : more[i] = <<r.key, r.price>>)
  BY DEF RowsTell
<1>1. /\ m \in Nat /\ n \in Nat
      /\ all \in Seq(FileRows) /\ Len(all) = m + n
      /\ \A i \in 1 .. m + n : all[i] = IF i <= m THEN bars[i] ELSE more[i - m]
  <2>1. bars \in Seq(FileRows) /\ more \in Seq(FileRows)
    BY <1>0
  <2>2. Len(bars) \in Nat /\ Len(more) \in Nat
    BY <2>1
  <2> QED BY ONLY <2>1, <2>2, ConcatProperties
<1> HIDE DEF m, n, all
<1>2. IsFiniteSet(E \union F) /\ Cardinality(E \union F) = m + n
  <2>1. Cardinality(E \intersect F) = 0
    BY FS_EmptySet
  <2>2. IsFiniteSet(E \union F)
        /\ Cardinality(E \union F) = Cardinality(E) + Cardinality(F) - Cardinality(E \intersect F)
    BY <1>0, FS_Union
  <2> QED BY <1>0, <1>1, <2>1, <2>2
<1>3. ASSUME NEW i \in 1 .. m + n PROVE \E r \in E \union F : all[i] = <<r.key, r.price>>
  <2>1. CASE i <= m
    <3>1. i \in 1 .. m /\ all[i] = bars[i]
      BY <1>1, <2>1
    <3> QED BY <1>0, <3>1
  <2>2. CASE ~(i <= m)
    <3>1. i - m \in 1 .. n /\ all[i] = more[i - m]
      BY <1>1, <2>2
    <3> QED BY <1>0, <3>1
  <2> QED BY <2>1, <2>2
<1>4. ASSUME NEW r \in E \union F PROVE \E i \in 1 .. m + n : all[i] = <<r.key, r.price>>
  <2>1. CASE r \in E
    <3>1. PICK i \in 1 .. m : bars[i] = <<r.key, r.price>>
      BY <1>0, <2>1
    <3>2. i \in 1 .. m + n /\ all[i] = bars[i]
      BY <1>1
    <3> QED BY <3>1, <3>2
  <2>2. CASE r \in F
    <3>1. PICK i \in 1 .. n : more[i] = <<r.key, r.price>>
      BY <1>0, <2>2
    <3>2. i + m \in 1 .. m + n /\ ~(i + m <= m) /\ (i + m) - m = i
      BY <1>1
    <3>3. all[i + m] = more[i]
      BY <1>1, <3>2
    <3> QED BY <3>1, <3>2, <3>3
  <2> QED BY <2>1, <2>2
<1> QED BY <1>1, <1>2, <1>3, <1>4 DEF RowsTell, all

(***************************************************************************)
(* FlattenSeq, without its last step: flat[i] is the first i sequences in  *)
(* one.                                                                    *)
(***************************************************************************)
Flattens(flat, n, seqs) ==
  flat = [i \in 1 .. n |-> IF i = 1 THEN seqs[i] ELSE flat[i - 1] \o seqs[i]]

\* The states of FlattenSeq exist, so that its CHOOSE finds them.
LEMMA FlatExists ==
  ASSUME NEW n \in Nat, NEW seqs
  PROVE  \E flat : Flattens(flat, n, seqs)
<1> DEFINE Known(k) == \E flat : Flattens(flat, k, seqs)
           Good == {k \in Nat : Known(k)}
<1>1. 0 \in Good
  <2> DEFINE flat == [i \in 1 .. 0 |-> seqs[1]]
  <2>1. Flattens(flat, 0, seqs)
    BY DEF Flattens
  <2> HIDE DEF flat
  <2> QED BY <2>1
<1>2. ASSUME NEW k \in Nat, k \in Good PROVE k + 1 \in Good
  <2>1. PICK flat : Flattens(flat, k, seqs)
    BY <1>2
  <2> DEFINE more == [i \in 1 .. k + 1 |-> IF i <= k THEN flat[i]
                                            ELSE IF i = 1 THEN seqs[i] ELSE flat[i - 1] \o seqs[i]]
  <2>2. \A i \in 1 .. k : flat[i] = IF i = 1 THEN seqs[i] ELSE flat[i - 1] \o seqs[i]
    BY <2>1 DEF Flattens
  <2>3. ASSUME NEW i \in 1 .. k + 1
        PROVE  more[i] = IF i = 1 THEN seqs[i] ELSE more[i - 1] \o seqs[i]
    <3>1. i # 1 => i - 1 \in 1 .. k /\ i - 1 \in 1 .. k + 1 /\ i - 1 <= k
      OBVIOUS
    <3>2. i # 1 => more[i - 1] = flat[i - 1]
      BY <3>1
    <3>3. CASE i <= k
      <4>1. i \in 1 .. k /\ more[i] = flat[i]
        BY <3>3
      <4> HIDE DEF more
      <4> QED BY <2>2, <3>2, <4>1
    <3>4. CASE ~(i <= k)
      <4>1. more[i] = IF i = 1 THEN seqs[i] ELSE flat[i - 1] \o seqs[i]
        BY <3>4
      <4> HIDE DEF more
      <4> QED BY <3>2, <4>1
    <3> QED BY <3>3, <3>4
  <2>4. more = [i \in 1 .. k + 1 |-> more[i]]
    OBVIOUS
  <2> HIDE DEF more
  <2>5. Flattens(more, k + 1, seqs)
    BY <2>3, <2>4 DEF Flattens
  <2>6. Known(k + 1)
    BY <2>5
  <2> HIDE DEF Known
  <2> QED BY <2>6
<1> HIDE DEF Good
<1>3. n \in Good
  BY <1>1, <1>2, GoodNumbers
<1> QED BY <1>3 DEF Good

FlatSteps(flat, n, seqs) ==
  /\ flat[1] = seqs[1]
  /\ \A i \in 2 .. n : flat[i] = flat[i - 1] \o seqs[i]
  /\ FlattenSeq(seqs) = flat[n]

\* FlattenSeq, one sequence after the other.
LEMMA FlattenSteps ==
  ASSUME NEW n \in Nat, NEW S, NEW seqs \in [1 .. n -> S]
  PROVE  /\ n = 0 => FlattenSeq(seqs) = << >>
         /\ n > 0 => \E flat : FlatSteps(flat, n, seqs)
<1>1. Len(seqs) = n /\ seqs \in Seq(S)
  OBVIOUS
<1>2. ASSUME n = 0 PROVE FlattenSeq(seqs) = << >>
  <2>1. FlattenSeq(seqs) = seqs
    BY <1>1, <1>2 DEF FlattenSeq
  <2>2. seqs = << >>
    BY <1>1, <1>2
  <2> QED BY <2>1, <2>2
<1>3. ASSUME n > 0
      PROVE  \E flat : FlatSteps(flat, n, seqs)
  <2> DEFINE flat == CHOOSE f : Flattens(f, n, seqs)
  <2>1. Flattens(flat, n, seqs)
    BY FlatExists
  <2>2. FlattenSeq(seqs) = flat[n]
    <3>1. FlattenSeq(seqs)
            = (CHOOSE f : f = [i \in 1 .. Len(seqs) |-> IF i = 1 THEN seqs[i] ELSE f[i - 1] \o seqs[i]])[Len(seqs)]
      BY <1>1, <1>3 DEF FlattenSeq
    <3> QED BY <1>1, <3>1 DEF Flattens
  <2> HIDE DEF flat
  <2>3. \A i \in 1 .. n : flat[i] = IF i = 1 THEN seqs[i] ELSE flat[i - 1] \o seqs[i]
    BY <2>1 DEF Flattens
  <2>4. flat[1] = seqs[1]
    BY <1>3, <2>3
  <2>5. \A i \in 2 .. n : flat[i] = flat[i - 1] \o seqs[i]
    <3>1. \A i \in 2 .. n : i \in 1 .. n /\ i # 1
      OBVIOUS
    <3> QED BY ONLY <2>3, <3>1
  <2> QED BY <2>2, <2>4, <2>5 DEF FlatSteps
<1> QED BY <1>2, <1>3


\* An order of the files lists each once.
LEMMA OrderedFiles ==
  ASSUME NEW L, IsFiniteSet(L), NEW order \in FileOrders(L)
  PROVE  /\ Cardinality(L) \in Nat
         /\ order \in [1 .. Cardinality(L) -> L]
         /\ \A i, j \in 1 .. Cardinality(L) : i # j => order[i] # order[j]
         /\ \A f \in L : \E i \in 1 .. Cardinality(L) : order[i] = f
<1> DEFINE n == Cardinality(L)
<1>1. n \in Nat
  BY FS_CardinalityType
<1>2. order \in [1 .. n -> L] /\ \A i, j \in DOMAIN order : i < j => order[i] # order[j]
  BY DEF FileOrders
<1> HIDE DEF n
<1>3. ASSUME NEW i \in 1 .. n, NEW j \in 1 .. n, i # j PROVE order[i] # order[j]
  <2>1. i < j \/ j < i
    BY <1>3
  <2>2. i \in DOMAIN order /\ j \in DOMAIN order
    BY <1>2
  <2> QED BY <1>2, <2>1, <2>2
<1>4. order \in Injection(1 .. n, L)
  BY <1>2, <1>3 DEF Injection, IsInjective
<1>5. IsFiniteSet(1 .. n) /\ Cardinality(1 .. n) = n
  BY <1>1, FS_Interval
<1>6. order \in Surjection(1 .. n, L)
  BY <1>4, <1>5, FS_Injection DEF n
<1>7. \A f \in L : \E i \in 1 .. n : order[i] = f
  BY <1>6 DEF Surjection
<1> QED BY <1>1, <1>2, <1>3, <1>7 DEF n

\* The entries of the first n files.
SourceUpTo(order, n, req) == UNION {SourceOf(order[j], req) : j \in 1 .. n}

\* One more file has entries of its own.
LEMMA SourceGrows ==
  ASSUME NEW order, NEW n \in Nat, NEW req, \A j \in 1 .. n : order[j] # order[n + 1]
  PROVE  /\ SourceUpTo(order, n + 1, req) = SourceUpTo(order, n, req) \union SourceOf(order[n + 1], req)
         /\ SourceUpTo(order, n, req) \intersect SourceOf(order[n + 1], req) = {}
<1>1. 1 .. n + 1 = (1 .. n) \union {n + 1}
  OBVIOUS
<1>2. \A f : \A r \in SourceOf(f, req) : r.file = f
  BY DEF SourceOf
<1>3. SourceUpTo(order, n, req) \intersect SourceOf(order[n + 1], req) = {}
  <2>1. ASSUME NEW r \in SourceUpTo(order, n, req), r \in SourceOf(order[n + 1], req) PROVE FALSE
    <3>1. PICK j \in 1 .. n : r \in SourceOf(order[j], req)
      BY DEF SourceUpTo
    <3>2. r.file = order[j] /\ r.file = order[n + 1]
      BY <1>2, <2>1, <3>1
    <3> QED BY <3>2
  <2> QED BY <2>1
<1>4. SourceUpTo(order, n + 1, req) = SourceUpTo(order, n, req) \union SourceOf(order[n + 1], req)
  BY <1>1 DEF SourceUpTo
<1> QED BY <1>3, <1>4

\* All the rows, before they are sorted.
LEMMA RowsOfFiles ==
  ASSUME NEW L, L \subseteq Files, IsFiniteSet(L), NEW order \in FileOrders(L), NEW req
  PROVE  RowsTell(FlattenSeq([i \in DOMAIN order |-> RowsOf(order[i], req)]), Source(L, req))
<1> DEFINE n == Cardinality(L)
           seqs == [i \in DOMAIN order |-> RowsOf(order[i], req)]
           bars == FlattenSeq(seqs)
<1>1. /\ n \in Nat
      /\ order \in [1 .. n -> L]
      /\ \A i, j \in 1 .. n : i # j => order[i] # order[j]
      /\ \A f \in L : \E i \in 1 .. n : order[i] = f
  BY OrderedFiles
<1>2. \A i \in 1 .. n : seqs[i] = RowsOf(order[i], req)
  BY <1>1
<1>3. \A i \in 1 .. n : RowsTell(seqs[i], SourceOf(order[i], req))
  BY <1>1, <1>2, RowsOfFile
<1>4. seqs \in [1 .. n -> Seq(FileRows)]
  <2>1. \A i \in 1 .. n : seqs[i] \in Seq(FileRows)
    BY <1>3 DEF RowsTell
  <2>2. seqs = [i \in 1 .. n |-> seqs[i]]
    BY <1>1
  <2> HIDE DEF seqs
  <2> QED BY <2>1, <2>2
<1>5. Source(L, req) = SourceUpTo(order, n, req)
  <2>1. Source(L, req) = UNION {SourceOf(f, req) : f \in L}
    BY DEF Source, SourceOf
  <2>2. {SourceOf(f, req) : f \in L} = {SourceOf(order[j], req) : j \in 1 .. n}
    BY <1>1
  <2> QED BY <2>1, <2>2 DEF SourceUpTo
<1> HIDE DEF seqs, n
<1>6. CASE n = 0
  <2>1. FlattenSeq(seqs) = << >>
    BY <1>1, <1>4, <1>6, FlattenSteps
  <2>2. SourceUpTo(order, n, req) = {}
    BY <1>6 DEF SourceUpTo
  <2>3. RowsTell(<< >>, {})
    BY FS_EmptySet DEF RowsTell
  <2> QED BY <1>5, <2>1, <2>2, <2>3 DEF seqs
<1>7. CASE n > 0
  <2>0. PICK flat : FlatSteps(flat, n, seqs)
    BY <1>1, <1>4, <1>7, FlattenSteps
  <2>1. /\ flat[1] = seqs[1]
        /\ \A i \in 2 .. n : flat[i] = flat[i - 1] \o seqs[i]
        /\ FlattenSeq(seqs) = flat[n]
    BY <2>0 DEF FlatSteps
  <2> DEFINE Told(k) == RowsTell(flat[k], SourceUpTo(order, k, req))
             Good == {k \in Nat : k + 1 <= n => Told(k + 1)}
  <2>2. 0 \in Good
    <3>1. 1 .. 1 = {1} /\ 1 \in 1 .. n
      BY <1>1, <1>7
    <3>2. SourceUpTo(order, 1, req) = SourceOf(order[1], req)
      BY <3>1 DEF SourceUpTo
    <3>3. Told(1)
      BY <1>3, <2>1, <3>1, <3>2
    <3> HIDE DEF Told
    <3> QED BY <3>3
  <2>3. ASSUME NEW k \in Nat, k \in Good PROVE k + 1 \in Good
    <3>1. ASSUME (k + 1) + 1 <= n PROVE Told((k + 1) + 1)
      <4>1. k + 1 <= n /\ k + 1 \in Nat /\ (k + 1) + 1 \in 2 .. n /\ (k + 1) + 1 \in 1 .. n
            /\ ((k + 1) + 1) - 1 = k + 1
        BY <1>1, <3>1
      <4>2. Told(k + 1)
        <5> HIDE DEF Told
        <5> QED BY <2>3, <4>1
      <4>3. \A j \in 1 .. k + 1 : j \in 1 .. n /\ j # (k + 1) + 1
        BY <1>1, <4>1
      <4>4. \A j \in 1 .. k + 1 : order[j] # order[(k + 1) + 1]
        BY <1>1, <4>1, <4>3
      <4> DEFINE m == k + 1
      <4>5. m \in Nat /\ (\A j \in 1 .. m : order[j] # order[m + 1])
        BY <4>1, <4>4
      <4>6. flat[m + 1] = flat[m] \o seqs[m + 1] /\ RowsTell(seqs[m + 1], SourceOf(order[m + 1], req))
        BY <1>3, <2>1, <4>1
      <4>7. RowsTell(flat[m], SourceUpTo(order, m, req))
        BY <4>2
      <4> HIDE DEF m
      <4>8. /\ SourceUpTo(order, m + 1, req) = SourceUpTo(order, m, req) \union SourceOf(order[m + 1], req)
            /\ SourceUpTo(order, m, req) \intersect SourceOf(order[m + 1], req) = {}
        BY <4>5, SourceGrows
      <4>9. RowsTell(flat[m + 1], SourceUpTo(order, m + 1, req))
        BY <4>6, <4>7, <4>8, RowsAppended
      <4> QED BY <4>9 DEF m
    <3> HIDE DEF Told
    <3> QED BY <3>1
  <2> HIDE DEF Good
  <2>4. \A k \in Nat : k \in Good
    BY <2>2, <2>3, GoodNumbers
  <2>5. n - 1 \in Nat /\ (n - 1) + 1 = n
    BY <1>1, <1>7
  <2>6. Told((n - 1) + 1)
    <3> HIDE DEF Told
    <3> QED BY <1>1, <2>4, <2>5 DEF Good
  <2>7. RowsTell(flat[n], SourceUpTo(order, n, req))
    BY <2>5, <2>6
  <2> QED BY <1>5, <2>1, <2>7 DEF seqs
<1> QED BY <1>1, <1>6, <1>7


\* The places of rows in the order the stable sort puts them.
RowBefore(bars, i, j) ==
  KeyBefore(bars[i][1], bars[j][1]) \/ (bars[i][1] = bars[j][1] /\ i < j)

RowOrder(bars) == {p \in (1 .. Len(bars)) \X (1 .. Len(bars)) : RowBefore(bars, p[1], p[2])}

\* Two keys are compared one way only.
LEMMA KeysCompare ==
  /\ \A x \in Int \X Int : ~KeyBefore(x, x)
  /\ \A x, y, z \in Int \X Int : KeyBefore(x, y) /\ KeyBefore(y, z) => KeyBefore(x, z)
  /\ \A x, y \in Int \X Int : x # y => KeyBefore(x, y) \/ KeyBefore(y, x)
  /\ \A x, y \in Int \X Int : KeyBefore(x, y) => ~KeyBefore(y, x)
<1>1. \A x \in Int \X Int : x = <<x[1], x[2]>> /\ x[1] \in Int /\ x[2] \in Int
  OBVIOUS
<1>2. \A x \in Int \X Int : ~KeyBefore(x, x)
  BY <1>1 DEF KeyBefore
<1>3. \A x, y, z \in Int \X Int : KeyBefore(x, y) /\ KeyBefore(y, z) => KeyBefore(x, z)
  BY <1>1 DEF KeyBefore
<1>4. \A x, y \in Int \X Int : x # y => KeyBefore(x, y) \/ KeyBefore(y, x)
  BY <1>1 DEF KeyBefore
<1> QED BY <1>2, <1>3, <1>4

\* The places of the stable sort, in the terms of SortedBy.
LEMMA SortedRows ==
  ASSUME NEW bars \in Seq(FileRows)
  PROVE  /\ StrictTotal(RowOrder(bars), 1 .. Len(bars))
         /\ Sorted(DOMAIN bars, LAMBDA i, j :
                     KeyBefore(bars[i][1], bars[j][1]) \/ (bars[i][1] = bars[j][1] /\ i < j))
              = SortedBy(1 .. Len(bars), RowOrder(bars))
<1> DEFINE m == Len(bars)
           D == 1 .. m
           R == RowOrder(bars)
           n == Cardinality(D)
           s == Sorted(DOMAIN bars, LAMBDA i, j :
                  KeyBefore(bars[i][1], bars[j][1]) \/ (bars[i][1] = bars[j][1] /\ i < j))
           Lower(x) == {y \in D : RowBefore(bars, y, x)}
<1>0. m \in Nat /\ DOMAIN bars = D /\ IsFiniteSet(D)
  <2>1. m \in Nat /\ DOMAIN bars = D
    OBVIOUS
  <2> QED BY <2>1, FS_Interval
<1>k. \A i \in D : bars[i][1] \in Int \X Int /\ i \in Int
  <2>1. ASSUME NEW i \in D PROVE bars[i][1] \in Int \X Int
    <3>1. bars[i] \in FileRows
      OBVIOUS
    <3> QED BY <3>1 DEF FileRows
  <2> QED BY <2>1
<1>r. \A x, y \in D : <<x, y>> \in R <=> RowBefore(bars, x, y)
  BY DEF RowOrder
<1> HIDE DEF m, R
<1>1. StrictTotal(R, D)
  <2>1. \A x \in D : <<x, x>> \notin R
    BY <1>k, <1>r, KeysCompare DEF RowBefore
  <2>2. \A x, y, z \in D : <<x, y>> \in R /\ <<y, z>> \in R => <<x, z>> \in R
    <3>1. ASSUME NEW x \in D, NEW y \in D, NEW z \in D, RowBefore(bars, x, y), RowBefore(bars, y, z)
          PROVE  RowBefore(bars, x, z)
      <4>1. x < y /\ y < z => x < z
        BY <1>k
      <4> QED BY <1>k, <3>1, <4>1, KeysCompare DEF RowBefore
    <3> QED BY <1>r, <3>1
  <2>3. \A x, y \in D : x # y => <<x, y>> \in R \/ <<y, x>> \in R
    <3>1. ASSUME NEW x \in D, NEW y \in D, x # y PROVE RowBefore(bars, x, y) \/ RowBefore(bars, y, x)
      <4>1. x < y \/ y < x
        BY <1>k, <3>1
      <4> QED BY <1>k, <4>1, KeysCompare DEF RowBefore
    <3> QED BY <1>r, <3>1
  <2> QED BY <2>1, <2>2, <2>3 DEF StrictTotal
<1>2. ASSUME NEW x \in D PROVE Cardinality(Lower(x)) = Rank(x, D, R)
  <2>1. Lower(x) = {y \in D : <<y, x>> \in R}
    BY <1>r
  <2> QED BY <2>1 DEF Rank
<1>4. s = [i \in 1 .. n |-> CHOOSE x \in D : Cardinality(Lower(x)) = i - 1]
  BY <1>0 DEF Sorted, RowBefore
<1>3. ASSUME NEW i \in 1 .. n PROVE s[i] \in D /\ Rank(s[i], D, R) = i - 1
  <2>1. s[i] = CHOOSE x \in D : Cardinality(Lower(x)) = i - 1
    BY <1>4
  <2>2. \E x \in D : Rank(x, D, R) = i - 1
    <3> HIDE DEF D
    <3> QED BY <1>0, <1>1, RankReached
  <2>3. \E x \in D : Cardinality(Lower(x)) = i - 1
    BY <1>2, <2>2
  <2> HIDE DEF s, Lower
  <2>4. s[i] \in D /\ Cardinality(Lower(s[i])) = i - 1
    BY <2>1, <2>3
  <2> QED BY <1>2, <2>4
<1>5. s \in [1 .. n -> D]
  <2> HIDE DEF s, Lower
  <2>2. s = [i \in 1 .. n |-> s[i]]
    BY <1>4
  <2> QED BY <1>3, <2>2
<1> HIDE DEF s, D
<1>6. n \in Nat
  BY <1>0, FS_CardinalityType
<1>7. s = SortedBy(D, R)
  BY <1>0, <1>1, <1>3, <1>5, <1>6, RankedIsSorted
<1> QED BY <1>1, <1>7 DEF s, D, R, m

\* The stable sort loses no row, adds none and puts the keys in order.
InKeyOrder(bars) == \A i, j \in 1 .. Len(bars) : i < j => ~KeyBefore(bars[j][1], bars[i][1])

\* What the stable sort gives.
LEMMA StableSort ==
  ASSUME NEW bars \in Seq(FileRows)
  PROVE  /\ StablySorted(bars) \in Seq(FileRows)
         /\ InKeyOrder(StablySorted(bars))
         /\ \A i \in 1 .. Len(StablySorted(bars)) : \E j \in 1 .. Len(bars) : StablySorted(bars)[i] = bars[j]
         /\ \A j \in 1 .. Len(bars) : \E i \in 1 .. Len(StablySorted(bars)) : StablySorted(bars)[i] = bars[j]
<1> DEFINE m == Len(bars)
           D == 1 .. m
           R == RowOrder(bars)
           s == SortedBy(D, R)
           st == StablySorted(bars)
<1>0. m \in Nat /\ DOMAIN bars = D
  OBVIOUS
<1>1. IsFiniteSet(D) /\ Cardinality(D) = m
  BY <1>0, FS_Interval
<1>2. StrictTotal(R, D)
  BY SortedRows
<1>3. /\ s \in [1 .. m -> D]
      /\ \A i, j \in 1 .. m : i < j => <<s[i], s[j]>> \in R
      /\ \A x \in D : \E i \in 1 .. m : s[i] = x
  <2> HIDE DEF D, R, m
  <2>1. /\ SortedBy(D, R) \in [1 .. Cardinality(D) -> D]
        /\ \A i, j \in 1 .. Cardinality(D) : i < j => <<SortedBy(D, R)[i], SortedBy(D, R)[j]>> \in R
        /\ \A x \in D : \E i \in 1 .. Cardinality(D) : SortedBy(D, R)[i] = x
    BY <1>1, <1>2, SortedByProperties
  <2> QED BY <1>1, <2>1
<1>4. st = [i \in 1 .. m |-> bars[s[i]]]
  <2> DEFINE o == Sorted(DOMAIN bars, LAMBDA i, j :
                    KeyBefore(bars[i][1], bars[j][1]) \/ (bars[i][1] = bars[j][1] /\ i < j))
  <2>1. st = [i \in DOMAIN o |-> bars[o[i]]]
    BY DEF StablySorted
  <2>2. o = s
    BY SortedRows
  <2> HIDE DEF o, s
  <2>3. DOMAIN s = 1 .. m
    BY <1>3
  <2> QED BY <2>1, <2>2, <2>3
<1> HIDE DEF st, s
<1>5. \A i \in 1 .. m : st[i] = bars[s[i]] /\ s[i] \in D
  BY <1>3, <1>4
<1>6. st \in Seq(FileRows) /\ Len(st) = m
  <2>1. \A i \in 1 .. m : bars[s[i]] \in FileRows
    BY <1>5
  <2>2. st \in [1 .. m -> FileRows]
    BY <1>4, <2>1
  <2> QED BY <1>0, <2>2
<1>7. InKeyOrder(st)
  <2>1. ASSUME NEW i \in 1 .. m, NEW j \in 1 .. m, i < j PROVE ~KeyBefore(st[j][1], st[i][1])
    <3>1. <<s[i], s[j]>> \in R
      BY <1>3, <2>1
    <3>2. RowBefore(bars, s[i], s[j])
      BY <3>1 DEF RowOrder
    <3>3. st[i][1] \in Int \X Int /\ st[j][1] \in Int \X Int
      <4>1. st[i] \in FileRows /\ st[j] \in FileRows
        BY <1>6
      <4> QED BY <4>1 DEF FileRows
    <3>4. KeyBefore(st[i][1], st[j][1]) \/ st[i][1] = st[j][1]
      BY <1>5, <3>2 DEF RowBefore
    <3> QED BY <3>3, <3>4, KeysCompare
  <2> QED BY <1>6, <2>1 DEF InKeyOrder
<1>8. \A i \in 1 .. m : \E j \in 1 .. m : st[i] = bars[j]
  BY <1>5
<1>9. ASSUME NEW j \in 1 .. m PROVE \E i \in 1 .. m : st[i] = bars[j]
  <2>1. PICK i \in 1 .. m : s[i] = j
    BY <1>3
  <2> QED BY <1>5, <2>1
<1> QED BY <1>6, <1>7, <1>8, <1>9 DEF st


(***************************************************************************)
(* The deduplication, row by row: kept[i] after the first i rows.          *)
(***************************************************************************)
Keep(kept, row) ==
  IF \E i \in DOMAIN kept : kept[i][1] = row[1] THEN kept ELSE Append(kept, row)

IsKept(kept, n, bars) ==
  /\ kept[0] = << >>
  /\ \A i \in 1 .. n : kept[i] = Keep(kept[i - 1], bars[i])
  /\ DeduplicateRows(bars) = kept[n]

\* The deduplication goes through one sequence for each row.
LEMMA DeduplicationTrace ==
  ASSUME NEW S, NEW bars \in Seq(S)
  PROVE  \E kept \in [0 .. Len(bars) -> Seq(S)] : IsKept(kept, Len(bars), bars)
<1> DEFINE n == Len(bars)
           States == Seq(S)
           V(a, i) == Keep(a, bars[i])
           h == [i \in 1 .. n |-> [a \in States |-> V(a, i)]]
           IsTable(f) == f = [T \in SUBSET (1 .. n) |->
                                IF T = {} THEN << >> ELSE V(f[T \ {Max(T)}], Max(T))]
           table == CHOOSE f : IsTable(f)
           acc == [i \in 0 .. n |-> table[1 .. i]]
<1>0. DOMAIN bars = 1 .. n /\ n \in Nat /\ << >> \in States
  OBVIOUS
<1>1. DeduplicateRows(bars) = table[1 .. n]
  <2>1. DeduplicateRows(bars)
          = (CHOOSE f : f = [T \in SUBSET DOMAIN bars |->
               IF T = {} THEN << >>
               ELSE Keep(f[T \ {Max(T)}], bars[Max(T)])])[DOMAIN bars]
    BY DEF DeduplicateRows, FoldLeft, MapThenFoldSet, Keep
  <2> HIDE DEF n
  <2> QED BY <1>0, <2>1
<1>2. \A a \in States, i \in 1 .. n : V(a, i) \in States
  <2>1. \A a \in States, i \in 1 .. n : Append(a, bars[i]) \in States
    OBVIOUS
  <2> QED BY <2>1 DEF Keep
<1> HIDE DEF V, States, n
<1>3. h \in [1 .. n -> [States -> States]]
  BY <1>2
<1>4. \A i \in 1 .. n : \A a \in States : h[i][a] = V(a, i)
  OBVIOUS
<1> HIDE DEF h
<1>5. PICK F \in [SUBSET (1 .. n) -> States] : FoldTable(F, n, << >>, h)
  BY <1>0, <1>3, FoldTableExists
<1>6. \A T \in SUBSET (1 .. n) : T # {} => Max(T) \in 1 .. n /\ T \ {Max(T)} \in SUBSET (1 .. n)
  BY <1>0, MaxOfNumbers
<1>7. IsTable(F)
  <2>1. \A T \in SUBSET (1 .. n) : F[T] = IF T = {} THEN << >> ELSE V(F[T \ {Max(T)}], Max(T))
    <3>1. ASSUME NEW T \in SUBSET (1 .. n) PROVE F[T] = IF T = {} THEN << >> ELSE V(F[T \ {Max(T)}], Max(T))
      <4>1. F[T] = IF T = {} THEN << >> ELSE h[Max(T)][F[T \ {Max(T)}]]
        BY <1>5 DEF FoldTable
      <4>2. CASE T # {}
        <5>1. Max(T) \in 1 .. n /\ F[T \ {Max(T)}] \in States
          BY <1>6, <4>2
        <5> QED BY <1>4, <4>1, <4>2, <5>1
      <4> QED BY <4>1, <4>2
    <3> QED BY <3>1
  <2>2. F = [T \in SUBSET (1 .. n) |-> F[T]]
    OBVIOUS
  <2> QED BY <2>1, <2>2
<1>8. IsTable(table)
  BY <1>7
<1>9. \A T \in SUBSET (1 .. n) : table[T] = IF T = {} THEN << >> ELSE V(table[T \ {Max(T)}], Max(T))
  <2> HIDE DEF table
  <2> QED BY <1>8
<1> HIDE DEF table, IsTable
<1>10. acc[0] = << >>
  <2>1. 1 .. 0 = {} /\ 0 \in 0 .. n
    BY <1>0
  <2> QED BY <1>9, <2>1
<1>11. ASSUME NEW i \in 1 .. n PROVE acc[i] = V(acc[i - 1], i)
  <2>a. 1 .. i \in SUBSET (1 .. n)
    BY <1>0
  <2>b. i \in Nat /\ i - 1 \in 0 .. n /\ i \in 0 .. n /\ i \in 1 .. i
    BY <1>0
  <2>1. 1 .. i \in SUBSET (1 .. n) /\ 1 .. i # {} /\ i \in Nat /\ i - 1 \in 0 .. n /\ i \in 0 .. n
    BY <2>a, <2>b
  <2>2. Max(1 .. i) = i
    <3>1. Max(1 .. i) \in 1 .. i /\ \A x \in 1 .. i : x <= Max(1 .. i)
      BY <2>1, MaxOfNumbers
    <3>2. i \in 1 .. i
      BY <2>b
    <3>3. i <= Max(1 .. i)
      BY <3>1, <3>2
    <3> QED BY <2>1, <3>1, <3>3
  <2>3. (1 .. i) \ {i} = 1 .. i - 1
    BY <2>1
  <2>4. table[1 .. i] = V(table[1 .. i - 1], i)
    BY <1>9, <2>1, <2>2, <2>3
  <2> QED BY <2>1, <2>4
<1>12. \A i \in 0 .. n : acc[i] \in States
  <2> DEFINE Good == {i \in Nat : i <= n => acc[i] \in States}
  <2> HIDE DEF acc
  <2>1. 0 \in Good
    BY <1>0, <1>10
  <2>2. ASSUME NEW i \in Nat, i \in Good PROVE i + 1 \in Good
    <3>1. ASSUME i + 1 <= n PROVE acc[i + 1] \in States
      <4>1. i <= n /\ i + 1 \in 1 .. n /\ (i + 1) - 1 = i
        BY <1>0, <3>1
      <4>2. acc[i + 1] = V(acc[i], i + 1) /\ acc[i] \in States
        BY <1>11, <2>2, <4>1
      <4> QED BY <1>2, <4>1, <4>2
    <3> QED BY <3>1
  <2> HIDE DEF Good
  <2>3. \A i \in Nat : i \in Good
    BY <2>1, <2>2, GoodNumbers
  <2> QED BY <1>0, <2>3 DEF Good
<1>13. acc \in [0 .. n -> States] /\ acc[n] = table[1 .. n]
  BY <1>0, <1>12
<1> HIDE DEF acc
<1>14. IsKept(acc, n, bars)
  BY <1>1, <1>10, <1>11, <1>13 DEF V, IsKept
<1> QED BY <1>13, <1>14 DEF n, States


\* What is kept of the first n rows: one row of each key, the keys rising.
KeptSo(kept, n, bars) ==
  /\ kept \in Seq(FileRows)
  /\ \A p, q \in 1 .. Len(kept) : p < q => KeyBefore(kept[p][1], kept[q][1])
  /\ \A p \in 1 .. Len(kept) : \E i \in 1 .. n : kept[p] = bars[i]
  /\ \A i \in 1 .. n : \E p \in 1 .. Len(kept) : kept[p][1] = bars[i][1]

\* One more row: kept when its key is new, and then it is the greatest.
LEMMA OneMoreKept ==
  ASSUME NEW bars \in Seq(FileRows), InKeyOrder(bars), NEW n \in Nat, n + 1 \in 1 .. Len(bars),
         NEW kept, KeptSo(kept, n, bars)
  PROVE  KeptSo(Keep(kept, bars[n + 1]), n + 1, bars)
<1> DEFINE row == bars[n + 1]
           L == Len(kept)
<1>1. /\ kept \in Seq(FileRows)
      /\ \A p, q \in 1 .. L : p < q => KeyBefore(kept[p][1], kept[q][1])
      /\ \A p \in 1 .. L : \E i \in 1 .. n : kept[p] = bars[i]
      /\ \A i \in 1 .. n : \E p \in 1 .. L : kept[p][1] = bars[i][1]
  BY DEF KeptSo
<1>2. L \in Nat /\ DOMAIN kept = 1 .. L /\ row \in FileRows
  BY <1>1
<1>3. \A i \in 1 .. n + 1 : i \in 1 .. n \/ i = n + 1
  OBVIOUS
<1>4. \A i \in 1 .. n : i \in 1 .. n + 1 /\ i \in 1 .. Len(bars) /\ i < n + 1
  OBVIOUS
<1>5. n + 1 \in 1 .. n + 1
  OBVIOUS
<1>6. CASE \E p \in DOMAIN kept : kept[p][1] = row[1]
  <2>1. Keep(kept, row) = kept
    BY <1>6 DEF Keep
  <2>2. \E p \in 1 .. L : kept[p][1] = row[1]
    BY <1>2, <1>6
  <2>3. \A i \in 1 .. n + 1 : \E p \in 1 .. L : kept[p][1] = bars[i][1]
    BY <1>1, <1>3, <2>2
  <2>4. \A p \in 1 .. L : \E i \in 1 .. n + 1 : kept[p] = bars[i]
    BY <1>1, <1>4
  <2> QED BY <1>1, <2>1, <2>3, <2>4 DEF KeptSo
<1>7. CASE ~ \E p \in DOMAIN kept : kept[p][1] = row[1]
  <2> DEFINE more == Append(kept, row)
  <2>1. Keep(kept, row) = more
    BY <1>7 DEF Keep
  <2>2. /\ more \in Seq(FileRows) /\ Len(more) = L + 1
        /\ \A p \in 1 .. L : more[p] = kept[p]
        /\ more[L + 1] = row
    BY <1>1, <1>2, AppendProperties
  <2>3. \A p \in 1 .. L + 1 : p \in 1 .. L \/ p = L + 1
    BY <1>2
  <2>4. L + 1 \in 1 .. L + 1 /\ (\A p \in 1 .. L : p \in 1 .. L + 1)
    BY <1>2
  <2> HIDE DEF more, row, L
  <2>5. ASSUME NEW p \in 1 .. L PROVE KeyBefore(kept[p][1], row[1])
    <3>1. kept[p][1] # row[1]
      BY <1>2, <1>7
    <3>2. PICK i \in 1 .. n : kept[p] = bars[i]
      BY <1>1
    <3>3. i \in 1 .. Len(bars) /\ n + 1 \in 1 .. Len(bars) /\ i < n + 1
      BY <1>4
    <3>4. ~KeyBefore(row[1], bars[i][1])
      BY <3>3 DEF InKeyOrder, row
    <3>5. bars[i] \in FileRows
      BY <3>3
    <3>6. kept[p][1] \in Int \X Int /\ row[1] \in Int \X Int
      BY <1>2, <3>2, <3>5 DEF FileRows
    <3> QED BY <3>1, <3>2, <3>4, <3>6, KeysCompare
  <2>6. ASSUME NEW p \in 1 .. L + 1, NEW q \in 1 .. L + 1, p < q PROVE KeyBefore(more[p][1], more[q][1])
    <3>1. p \in 1 .. L
      BY <1>2, <2>6
    <3>2. CASE q \in 1 .. L
      BY <1>1, <2>2, <2>6, <3>1, <3>2
    <3>3. CASE q = L + 1
      BY <2>2, <2>5, <3>1, <3>3
    <3> QED BY <2>3, <3>2, <3>3
  <2>7. ASSUME NEW p \in 1 .. L + 1 PROVE \E i \in 1 .. n + 1 : more[p] = bars[i]
    <3>1. CASE p \in 1 .. L
      <4>1. PICK i \in 1 .. n : kept[p] = bars[i]
        BY <1>1, <3>1
      <4> QED BY <1>4, <2>2, <3>1, <4>1
    <3>2. CASE p = L + 1
      <4>1. more[p] = bars[n + 1]
        BY <2>2, <3>2 DEF row
      <4> QED BY <1>5, <4>1
    <3> QED BY <2>3, <3>1, <3>2
  <2>8. ASSUME NEW i \in 1 .. n + 1 PROVE \E p \in 1 .. L + 1 : more[p][1] = bars[i][1]
    <3>1. CASE i \in 1 .. n
      <4>1. PICK p \in 1 .. L : kept[p][1] = bars[i][1]
        BY <1>1, <3>1
      <4> QED BY <2>2, <2>4, <4>1
    <3>2. CASE i = n + 1
      <4>1. more[L + 1][1] = bars[i][1]
        BY <2>2, <3>2 DEF row
      <4> QED BY <2>4, <4>1
    <3> QED BY <1>3, <3>1, <3>2
  <2>9. KeptSo(more, n + 1, bars)
    BY <2>2, <2>6, <2>7, <2>8 DEF KeptSo
  <2> QED BY <2>1, <2>9 DEF row
<1> HIDE DEF row
<1> QED BY <1>6, <1>7 DEF row

\* After the stable sort the first of each key is kept, in the order of the keys.
LEMMA DeduplicationKeeps ==
  ASSUME NEW bars \in Seq(FileRows), InKeyOrder(bars)
  PROVE  KeptSo(DeduplicateRows(bars), Len(bars), bars)
<1> DEFINE n == Len(bars)
<1>1. n \in Nat
  OBVIOUS
<1>2. PICK kept \in [0 .. n -> Seq(FileRows)] : IsKept(kept, n, bars)
  BY DeduplicationTrace
<1>3. /\ kept[0] = << >>
      /\ \A i \in 1 .. n : kept[i] = Keep(kept[i - 1], bars[i])
      /\ DeduplicateRows(bars) = kept[n]
  BY <1>2 DEF IsKept
<1> HIDE DEF n
<1> DEFINE Good == {i \in Nat : i <= n => KeptSo(kept[i], i, bars)}
<1>4. 0 \in Good
  <2>1. Len(kept[0]) = 0 /\ kept[0] \in Seq(FileRows)
    BY <1>3
  <2>2. 1 .. 0 = {}
    OBVIOUS
  <2>3. KeptSo(kept[0], 0, bars)
    BY <2>1, <2>2 DEF KeptSo
  <2> QED BY <2>3
<1>5. ASSUME NEW i \in Nat, i \in Good PROVE i + 1 \in Good
  <2>1. ASSUME i + 1 <= n PROVE KeptSo(kept[i + 1], i + 1, bars)
    <3>1. i <= n /\ i + 1 \in 1 .. n /\ (i + 1) - 1 = i
      BY <1>1, <2>1
    <3>2. kept[i + 1] = Keep(kept[i], bars[i + 1]) /\ KeptSo(kept[i], i, bars)
      BY <1>3, <1>5, <3>1
    <3>3. i + 1 \in 1 .. Len(bars)
      BY <3>1 DEF n
    <3>4. KeptSo(Keep(kept[i], bars[i + 1]), i + 1, bars)
      BY <3>2, <3>3, OneMoreKept
    <3> QED BY <3>2, <3>4
  <2> QED BY <2>1
<1> HIDE DEF Good
<1>6. \A i \in Nat : i \in Good
  BY <1>4, <1>5, GoodNumbers
<1>7. KeptSo(kept[n], n, bars)
  BY <1>1, <1>6 DEF Good
<1> QED BY <1>3, <1>7 DEF n


\* The rows the fallback slices: one of each matching key, in order.
Unique(bars, req) ==
  /\ bars \in Seq(FileRows)
  /\ Len(bars) = Cardinality(MatchingKeys(req))
  /\ \A i \in 1 .. Len(bars) : bars[i][1] = SortedMatches(req)[i]
  /\ \A i \in 1 .. Len(bars) : \E r \in Source(ListFiles(req), req) : bars[i] = <<r.key, r.price>>

\* Sorted and without duplicates, the rows of the fallback are one of each key.
LEMMA FallbackRows ==
  ASSUME LakeOK, NEW req \in Requests, NEW bars, RowsTell(bars, Source(ListFiles(req), req))
  PROVE  Unique(DeduplicateRows(StablySorted(bars)), req)
<1> DEFINE E == Source(ListFiles(req), req)
           M == MatchingKeys(req)
           R == KeyOrder(M)
           st == StablySorted(bars)
           u == DeduplicateRows(st)
           U == Len(u)
           keys == [i \in 1 .. U |-> u[i][1]]
<1>1. /\ bars \in Seq(FileRows)
      /\ \A i \in 1 .. Len(bars) : \E r \in E : bars[i] = <<r.key, r.price>>
      /\ \A r \in E : \E i \in 1 .. Len(bars) : bars[i] = <<r.key, r.price>>
  BY DEF RowsTell
<1>2. {r.key : r \in E} = M
  BY ListedKeys
<1>3. M \in SUBSET (Int \X Int) /\ IsFiniteSet(M)
  BY MatchingKeysType
<1> HIDE DEF E, M
<1>4. StrictTotal(R, M)
  BY <1>3, KeyOrderIsStrict
<1>5. /\ st \in Seq(FileRows) /\ InKeyOrder(st)
      /\ \A i \in 1 .. Len(st) : \E j \in 1 .. Len(bars) : st[i] = bars[j]
      /\ \A j \in 1 .. Len(bars) : \E i \in 1 .. Len(st) : st[i] = bars[j]
  BY <1>1, StableSort
<1> HIDE DEF st
<1>6. KeptSo(u, Len(st), st)
  BY <1>5, DeduplicationKeeps
<1> HIDE DEF u
<1>7. /\ u \in Seq(FileRows)
      /\ \A p, q \in 1 .. U : p < q => KeyBefore(u[p][1], u[q][1])
      /\ \A p \in 1 .. U : \E i \in 1 .. Len(st) : u[p] = st[i]
      /\ \A i \in 1 .. Len(st) : \E p \in 1 .. U : u[p][1] = st[i][1]
  BY <1>6 DEF KeptSo
<1>8. U \in Nat
  BY <1>7
<1> HIDE DEF U
<1>9. ASSUME NEW p \in 1 .. U PROVE \E r \in E : u[p] = <<r.key, r.price>>
  <2>1. PICK i \in 1 .. Len(st) : u[p] = st[i]
    BY <1>7
  <2>2. PICK j \in 1 .. Len(bars) : st[i] = bars[j]
    BY <1>5
  <2> QED BY <1>1, <2>1, <2>2
<1>10. ASSUME NEW k \in M PROVE \E p \in 1 .. U : keys[p] = k
  <2>1. PICK r \in E : r.key = k
    BY <1>2
  <2>2. PICK j \in 1 .. Len(bars) : bars[j] = <<r.key, r.price>>
    BY <1>1
  <2>3. PICK i \in 1 .. Len(st) : st[i] = bars[j]
    BY <1>5
  <2>4. PICK p \in 1 .. U : u[p][1] = st[i][1]
    BY <1>7
  <2> QED BY <2>1, <2>2, <2>3, <2>4
<1>11. ASSUME NEW p \in 1 .. U PROVE u[p][1] \in M
  <2>1. PICK r \in E : u[p] = <<r.key, r.price>>
    BY <1>9
  <2> QED BY <1>2, <2>1
<1>12. keys \in [1 .. U -> M]
  BY <1>11
<1>13. \A p, q \in 1 .. U : p < q => <<keys[p], keys[q]>> \in R
  BY <1>7, <1>11 DEF KeyOrder
<1>14. \A p \in 1 .. U : keys[p] = u[p][1]
  OBVIOUS
<1> HIDE DEF keys, R
<1>15. keys = SortedBy(M, R) /\ U = Cardinality(M)
  <2>1. \A k \in M : \E p \in 1 .. U : keys[p] = k
    BY ONLY <1>10
  <2>2. IsFiniteSet(M)
    BY <1>3
  <2> QED BY ONLY <1>4, <1>8, <1>12, <1>13, <2>1, <2>2, SortedByUnique
<1>16. \A p \in 1 .. U : u[p][1] = SortedMatches(req)[p]
  BY <1>14, <1>15 DEF SortedMatches, M, R
<1> QED BY <1>7, <1>9, <1>15, <1>16 DEF Unique, U, u, st, M, E

\* Two sequences of one length are cut at the same places.
CutAlike(s, t, n, from) ==
  /\ DOMAIN Slice(s, n, from) = DOMAIN Slice(t, n, from)
  /\ \A i \in DOMAIN Slice(s, n, from) :
       /\ from + i \in 1 .. Len(s)
       /\ Slice(s, n, from)[i] = s[from + i] /\ Slice(t, n, from)[i] = t[from + i]

\* A slice is a part of its sequence.
LEMMA SliceType ==
  ASSUME NEW S, NEW s \in Seq(S), NEW n \in Nat, NEW from \in Nat
  PROVE  Slice(s, n, from) \in Seq(S)
<1> DEFINE N == Len(s)
           e == Min({from + n, N})
<1>1. N \in Nat
  OBVIOUS
<1>2. e = IF from + n <= N THEN from + n ELSE N
  BY <1>1, MinOfTwo
<1>3. Slice(s, n, from) = SubSeq(s, from + 1, e)
  BY DEF Slice
<1>4. e \in Int /\ from + 1 \in Int
  BY <1>1, <1>2
<1>5. \A i \in from + 1 .. e : s[i] \in S
  BY <1>1, <1>2
<1> HIDE DEF e
<1> QED BY <1>3, <1>4, <1>5, SubSeqProperties

\* Slices of two sequences of one length.
LEMMA SlicesAgree ==
  ASSUME NEW S, NEW s \in Seq(S), NEW T, NEW t \in Seq(T), Len(s) = Len(t),
         NEW n \in Nat, NEW from \in Nat
  PROVE  CutAlike(s, t, n, from)
<1> DEFINE N == Len(s)
           e == Min({from + n, N})
           P == Slice(s, n, from)
           W == Slice(t, n, from)
<1>1. N \in Nat
  OBVIOUS
<1>2. e \in Int /\ e <= N
  <2>1. e = IF from + n <= N THEN from + n ELSE N
    BY <1>1, MinOfTwo
  <2> QED BY <1>1, <2>1
<1>3. P = SubSeq(s, from + 1, e) /\ W = SubSeq(t, from + 1, e)
  BY DEF Slice
<1>4. \A i \in from + 1 .. e : i \in 1 .. N
  BY <1>1, <1>2
<1>5. \A i \in from + 1 .. e : s[i] \in S /\ t[i] \in T
  BY <1>4
<1> HIDE DEF e, P, W
<1>6. from + 1 \in Int
  OBVIOUS
<1>7. /\ SubSeq(s, from + 1, e) \in Seq(S)
      /\ Len(SubSeq(s, from + 1, e)) = IF from + 1 <= e THEN e - (from + 1) + 1 ELSE 0
      /\ \A i \in 1 .. e - (from + 1) + 1 : SubSeq(s, from + 1, e)[i] = s[(from + 1) + i - 1]
  BY ONLY <1>2, <1>5, <1>6, SubSeqProperties
<1>8. /\ SubSeq(t, from + 1, e) \in Seq(T)
      /\ Len(SubSeq(t, from + 1, e)) = IF from + 1 <= e THEN e - (from + 1) + 1 ELSE 0
      /\ \A i \in 1 .. e - (from + 1) + 1 : SubSeq(t, from + 1, e)[i] = t[(from + 1) + i - 1]
  BY ONLY <1>2, <1>5, <1>6, SubSeqProperties
<1>9. P \in Seq(S) /\ W \in Seq(T) /\ Len(P) = Len(W)
      /\ Len(P) = IF from + 1 <= e THEN e - (from + 1) + 1 ELSE 0
  BY <1>3, <1>7, <1>8
<1>10. DOMAIN P = 1 .. Len(P) /\ DOMAIN W = 1 .. Len(P)
  <2>1. P \in Seq(S) /\ W \in Seq(T) /\ Len(P) = Len(W)
    BY <1>9
  <2>2. DOMAIN P = 1 .. Len(P)
    BY ONLY <2>1
  <2>3. DOMAIN W = 1 .. Len(W)
    BY ONLY <2>1
  <2> QED BY <2>1, <2>2, <2>3
<1>11. ASSUME NEW i \in 1 .. Len(P) PROVE from + i \in 1 .. N /\ P[i] = s[from + i] /\ W[i] = t[from + i]
  <2>1. from + 1 <= e /\ i \in 1 .. e - (from + 1) + 1
    BY <1>2, <1>9
  <2>2. (from + 1) + i - 1 = from + i /\ from + i \in from + 1 .. e
    BY <1>2, <2>1
  <2> QED BY <1>3, <1>4, <1>7, <1>8, <2>1, <2>2
<1> QED BY <1>9, <1>10, <1>11 DEF P, W, N, CutAlike

\* One choice of the DuckDB reader keeps the rows the fallback keeps.
LEMMA PickOfFallback ==
  ASSUME LakeOK, NEW req \in Requests, NEW u, Unique(u, req)
  PROVE  \E pick \in Picks(Source(ListFiles(req), req)) :
           \A i \in 1 .. Len(u) : u[i] = <<SortedMatches(req)[i], pick[SortedMatches(req)[i]]>>
<1> DEFINE E == Source(ListFiles(req), req)
           M == MatchingKeys(req)
           K == SortedMatches(req)
           U == Len(u)
           pick == [k \in M |-> u[Position(k, req) + 1][2]]
<1>1. /\ u \in Seq(FileRows) /\ U = Cardinality(M)
      /\ \A i \in 1 .. U : u[i][1] = K[i]
      /\ \A i \in 1 .. U : \E r \in E : u[i] = <<r.key, r.price>>
  BY DEF Unique
<1>2. {r.key : r \in E} = M
  BY ListedKeys
<1>3. M \in SUBSET (Int \X Int) /\ IsFiniteSet(M)
  BY MatchingKeysType
<1>4. U \in Nat
  BY <1>1
<1>5. ASSUME NEW k \in M PROVE Position(k, req) + 1 \in 1 .. U /\ K[Position(k, req) + 1] = k
  <2>1. Position(k, req) \in 0 .. U - 1 /\ K[Position(k, req) + 1] = k
    BY <1>1, PositionReached
  <2> QED BY <1>4, <2>1
<1>6. ASSUME NEW i \in 1 .. U PROVE K[i] \in M /\ Position(K[i], req) + 1 = i
  <2> DEFINE R == KeyOrder(M)
  <2>1. K = SortedBy(M, R)
    BY DEF SortedMatches
  <2>2. StrictTotal(R, M)
    BY <1>3, KeyOrderIsStrict
  <2>3. \A k \in M : Position(k, req) = Rank(k, M, R)
    BY DEF Position
  <2> HIDE DEF M, R, K
  <2>4. /\ SortedBy(M, R) \in [1 .. U -> M]
        /\ \A j \in 1 .. U : Rank(SortedBy(M, R)[j], M, R) = j - 1
    BY <1>1, <1>3, <2>2, SortedByProperties
  <2>5. K[i] \in M /\ Rank(K[i], M, R) = i - 1
    BY <2>1, <2>4
  <2>6. (i - 1) + 1 = i
    OBVIOUS
  <2> QED BY <2>3, <2>5, <2>6
<1> HIDE DEF K, E, U, M
<1>7. ASSUME NEW k \in M PROVE \E r \in E : r.key = k /\ pick[k] = r.price
  <2>1. Position(k, req) + 1 \in 1 .. U /\ K[Position(k, req) + 1] = k
    BY <1>5
  <2>2. PICK r \in E : u[Position(k, req) + 1] = <<r.key, r.price>>
    BY <1>1, <2>1
  <2>3. u[Position(k, req) + 1][1] = k
    BY <1>1, <2>1
  <2>4. pick[k] = u[Position(k, req) + 1][2]
    OBVIOUS
  <2> QED BY <2>2, <2>3, <2>4
<1>8. \A k \in M : pick[k] = u[Position(k, req) + 1][2]
  OBVIOUS
<1>9. pick = [k \in M |-> pick[k]]
  OBVIOUS
<1> HIDE DEF pick
<1>10. pick \in Picks(E)
  <2>1. \A k \in M : pick[k] \in {r.price : r \in E}
    BY <1>7
  <2>2. pick \in [{r.key : r \in E} -> {r.price : r \in E}]
    BY <1>2, <1>9, <2>1
  <2>3. \A k \in {r.key : r \in E} : pick[k] \in {r.price : r \in {q \in E : q.key = k}}
    <3>1. ASSUME NEW k \in M PROVE pick[k] \in {r.price : r \in {q \in E : q.key = k}}
      <4>1. PICK r \in E : r.key = k /\ pick[k] = r.price
        BY <1>7
      <4>2. r \in {q \in E : q.key = k}
        BY <4>1
      <4> QED BY <4>1, <4>2
    <3> QED BY <1>2, <3>1
  <2> QED BY <2>2, <2>3 DEF Picks
<1>11. ASSUME NEW i \in 1 .. U PROVE u[i] = <<K[i], pick[K[i]]>>
  <2>1. K[i] \in M /\ Position(K[i], req) + 1 = i
    BY <1>6
  <2>2. pick[K[i]] = u[i][2]
    BY <1>8, <2>1
  <2>3. PICK r \in E : u[i] = <<r.key, r.price>>
    BY <1>1
  <2> QED BY <1>1, <2>2, <2>3
<1> QED BY <1>10, <1>11 DEF K, E, U


\* A page of the fallback is a page the DuckDB reader may give.
LEMMA FallbackPage ==
  ASSUME LakeOK, NEW req \in Requests, NEW n \in Int, NEW from \in Int, NEW page \in FallbackPages(req, n, from)
  PROVE  page \in DuckDbPages(req, n, from)
<1> DEFINE L == ListFiles(req)
           E == Source(L, req)
           M == MatchingKeys(req)
           K == SortedMatches(req)
           lim == Limit(n)
           off == Offset(from)
           AllRows(order) == FlattenSeq([i \in DOMAIN order |-> RowsOf(order[i], req)])
           Kept(order) == DeduplicateRows(StablySorted(AllRows(order)))
<1>1. PICK order \in FileOrders(L) :
        page = Page(Slice(Kept(order), lim, off), Len(AllRows(order)), Len(Kept(order)), off)
  BY DEF FallbackPages
<1>2. L \subseteq Files /\ IsFiniteSet(L)
  <2>1. L \in SUBSET lake
    BY DEF ListFiles
  <2> HIDE DEF L
  <2> QED BY <2>1, FS_Subset DEF LakeOK
<1> DEFINE bars == AllRows(order)
           u == Kept(order)
           U == Len(u)
<1>3. RowsTell(bars, E)
  <2> HIDE DEF L
  <2> QED BY <1>2, RowsOfFiles
<1>4. Unique(u, req)
  <2> HIDE DEF bars, AllRows
  <2> QED BY <1>3, FallbackRows DEF bars
<1>5. page = Page(Slice(u, lim, off), Len(bars), U, off)
  BY <1>1
<1> HIDE DEF bars, AllRows, Kept, u
<1>6. Len(bars) = Cardinality(E)
  BY <1>3 DEF RowsTell
<1>7. u \in Seq(FileRows) /\ U = Cardinality(M)
  BY <1>4 DEF Unique
<1>8. K \in Seq(M) /\ Len(K) = U /\ Cardinality(M) \in Nat /\ K = Sorted(M, KeyBefore)
  BY <1>7, SortedMatchesType
<1>9. lim \in Nat
  BY LimitType
<1>10. off \in Nat
  <2>1. Max({0, from}) = IF 0 <= from THEN from ELSE 0
    BY MaxOfTwo
  <2> QED BY <2>1 DEF Offset
<1>11. PICK pick \in Picks(E) : \A i \in 1 .. U : u[i] = <<K[i], pick[K[i]]>>
  BY <1>4, PickOfFallback
<1>12. /\ {r.key : r \in E} = M
       /\ L = {} => M = {}
  BY ListedKeys
<1> DEFINE P == Slice(K, lim, off)
           W == Slice(u, lim, off)
<1>13. /\ DOMAIN P = DOMAIN W
       /\ W \in Seq(FileRows)
       /\ \A i \in DOMAIN P : off + i \in 1 .. U /\ P[i] = K[off + i] /\ W[i] = u[off + i]
  <2> HIDE DEF K, M, lim, off
  <2>1. Len(u) = Len(K)
    BY <1>8
  <2>2. /\ DOMAIN W = DOMAIN P
        /\ \A i \in DOMAIN W : off + i \in 1 .. U /\ W[i] = u[off + i] /\ P[i] = K[off + i]
    <3>1. u \in Seq(FileRows) /\ K \in Seq(M) /\ lim \in Nat /\ off \in Nat
      BY <1>7, <1>8, <1>9, <1>10
    <3>2. CutAlike(u, K, lim, off)
      BY ONLY <2>1, <3>1, SlicesAgree
    <3> QED BY <3>1, <3>2 DEF CutAlike
  <2>3. W \in Seq(FileRows)
    BY <1>7, <1>9, <1>10, SliceType
  <2> QED BY <2>2, <2>3
<1>14. [i \in DOMAIN P |-> <<P[i], pick[P[i]]>>] = W
  <2> HIDE DEF P, W, K, lim, off
  <2>1. \A i \in DOMAIN P : <<P[i], pick[P[i]]>> = W[i]
    BY <1>11, <1>13
  <2>2. W = [i \in DOMAIN W |-> W[i]]
    BY <1>13
  <2> QED BY <1>13, <2>1, <2>2
<1>15. CASE L # {}
  <2>1. PagePicked(E, lim, off, pick) = Page([i \in DOMAIN P |-> <<P[i], pick[P[i]]>>], Cardinality(E), Len(K), off)
    <3>1. Sorted({r.key : r \in E}, KeyBefore) = K
      BY <1>8, <1>12
    <3> HIDE DEF K, E, lim, off
    <3> QED BY <3>1 DEF PagePicked
  <2>2. page = PagePicked(E, lim, off, pick)
    BY <1>5, <1>6, <1>8, <1>14, <2>1
  <2> QED BY <1>11, <1>15, <2>2 DEF DuckDbPages
<1>16. CASE L = {}
  <2>1. E = {} /\ M = {}
    BY <1>12, <1>16 DEF Source
  <2>2. Len(bars) = 0 /\ U = 0
    BY <1>6, <1>7, <2>1, FS_EmptySet
  <2>3. W = << >>
    <3>1. \A i \in DOMAIN W : FALSE
      BY <1>10, <1>13, <2>2
    <3> HIDE DEF W
    <3>2. DOMAIN W = 1 .. Len(W) /\ Len(W) \in Nat
      BY <1>13
    <3>3. Len(W) = 0
      <4>1. Len(W) # 0 => 1 \in DOMAIN W
        BY <3>2
      <4> QED BY <3>1, <4>1
    <3> QED BY <1>13, <3>3
  <2>4. page = Page(<< >>, 0, 0, off)
    BY <1>5, <2>2, <2>3
  <2>5. Page(<< >>, 0, 0, off) = EmptyPage
    <3>1. ~(off + Len(<< >>) < 0)
      BY <1>10
    <3> DEFINE cut == off + Len(<< >>) < 0
    <3>2. cut = FALSE
      BY <3>1
    <3>3. Page(<< >>, 0, 0, off) = [rows |-> << >>, raw_row_count |-> 0, total_row_count |-> 0, truncated |-> cut,
                                    next_offset |-> IF cut THEN off + Len(<< >>) ELSE NoOffset]
      BY DEF Page
    <3> HIDE DEF cut
    <3> QED BY <3>2, <3>3 DEF EmptyPage
  <2> QED BY <1>16, <2>4, <2>5 DEF DuckDbPages
<1> QED BY <1>15, <1>16

(***************************************************************************)
(* The DuckDB reader and the fallback give the same pages, up to which of  *)
(* the bars of one key is kept, whatever the order of the files: the rows  *)
(* a stable sort and the removal of duplicates leave are one of each key   *)
(* that SQL groups by, in the order SQL gives them.                        *)
(***************************************************************************)
THEOREM ReadersAgree == ReadSpec => []EnginesAgree
<1>1. LakeOK => EnginesAgree
  <2>1. ASSUME LakeOK, NEW req \in Paged, NEW n \in Limits, NEW from \in -1 .. MaxFiles
        PROVE  FallbackPages(req, n, from) \subseteq DuckDbPages(req, n, from)
    <3>1. req \in Requests /\ n \in Int /\ from \in Int
      BY ReadAssumption
    <3>2. ASSUME NEW page \in FallbackPages(req, n, from) PROVE page \in DuckDbPages(req, n, from)
      BY <2>1, <3>1, <3>2, FallbackPage
    <3> QED BY <3>2
  <2> QED BY <2>1 DEF EnginesAgree
<1> QED BY <1>1, LakeStaysOK, PTL
====
