---- MODULE LocalLake ----
(***************************************************************************)
(* Reading the local data lake: LocalBarQuery and DuckDbParquetBarReader   *)
(* (data/query.py) on the files list_files gives, the coverage planner on  *)
(* the same files, and a client that reads page after page while downloads *)
(* record files.                                                           *)
(*                                                                         *)
(* One page is one action: the list of files is the only shared state it   *)
(* reads, recorded files do not change while the server runs.  `lake' is   *)
(* the set of the files of one kind, period and adjust; the bars of a file *)
(* are a function from times to prices.  A bar's key is <<symbol, time>>.  *)
(***************************************************************************)
EXTENDS CoveragePlanner

CONSTANTS Prices,        \* what tells two bars of one key apart
          NoOffset,      \* next_offset of the last page
          MaxLimit,      \* the largest page (10000 in the code)
          Limits,        \* the limits clients ask for
          Paged,         \* the requests clients read page by page
          DownloadDays,  \* the chunk_days of download requests
          MaxFiles       \* bound: files of a run

ASSUME ReadAssumption ==
  /\ Symbols \subseteq Int
  /\ NoOffset \notin Nat
  /\ MaxLimit \in Nat \ {0}
  /\ Limits \subseteq Int
  /\ Paged \subseteq Requests
  /\ DownloadDays \subseteq Int
  /\ MaxFiles \in Nat

VARIABLES lake,     \* the recorded files
          reading,  \* the requests a client reads: none or one
          limit,    \* the limit it asks for
          offset,   \* the offset of its next page, NoOffset after the last one
          got,      \* history: the keys of the bars it was given, in order
          atStart,  \* history: the keys of the lake when it began
          grown     \* history: files were recorded since

client   == <<reading, limit, offset, got, atStart, grown>>
readVars == <<lake, client>>

BarTimes == {T \in SUBSET Times : T # {} /\ IsFiniteSet(T)}

Files == [symbol : Symbols, bars : UNION {[T -> Prices] : T \in BarTimes}]

\* _coverage of data/files.py: the times of the first and the last bar.
Segment(file) ==
  [symbol |-> file.symbol, start |-> Min(DOMAIN file.bars), end |-> Max(DOMAIN file.bars)]

Segments == {Segment(f) : f \in lake}

ListFiles(req) == {f \in lake : FileMatchesRequest(Segment(f), req)}

\* ORDER BY symbol, coverage_start leaves open in which order files come that
\* agree on both.
FileOrders(files) ==
  {s \in [1 .. Cardinality(files) -> files] :
     \A i, j \in DOMAIN s : i < j =>
       /\ s[i] # s[j]
       /\ \/ s[i].symbol < s[j].symbol
          \/ s[i].symbol = s[j].symbol /\ Segment(s[i]).start <= Segment(s[j]).start}

\* The WHERE clause of _source_sql.
InRequest(key, req) ==
  /\ req.symbols = {} \/ key[1] \in req.symbols
  /\ req.start # NoTime => req.start <= key[2]
  /\ req.end # NoTime => key[2] <= req.end

Keys(file) == {<<file.symbol, t>> : t \in DOMAIN file.bars}

KeysIn(file, req) == {k \in Keys(file) : InRequest(k, req)}

KeyBefore(k, l) == k[1] < l[1] \/ (k[1] = l[1] /\ k[2] < l[2])

MatchingKeys(req) == {k \in UNION {Keys(f) : f \in lake} : InRequest(k, req)}

\* _limit and _offset.
Limit(n)  == Max({1, Min({n, MaxLimit})})
Offset(n) == Max({0, n})

Slice(s, n, from) == SubSeq(s, from + 1, Min({from + n, Len(s)}))

Page(rows, raw, total, from) ==
  [rows |-> rows, raw_row_count |-> raw, total_row_count |-> total,
   truncated |-> from + Len(rows) < total,
   next_offset |-> IF from + Len(rows) < total THEN from + Len(rows) ELSE NoOffset]

(***************************************************************************)
(* The DuckDB reader: count and page are computed in SQL.  ROW_NUMBER is   *)
(* over the columns of the partition, so any of the bars of a key may be   *)
(* number 1: `pick' is one such choice.                                    *)
(***************************************************************************)
Source(files, req) ==
  UNION {{[key |-> k, price |-> f.bars[k[2]], file |-> f] : k \in KeysIn(f, req)} : f \in files}

PagePicked(rows, n, from, pick) ==
  LET keys == Sorted({r.key : r \in rows}, KeyBefore)
      page == Slice(keys, n, from)
  IN  Page([i \in DOMAIN page |-> <<page[i], pick[page[i]]>>],
           Cardinality(rows), Len(keys), from)

Picks(rows) ==
  LET prices(k) == {r.price : r \in {q \in rows : q.key = k}}
      keys      == {r.key : r \in rows}
  IN  {pick \in [keys -> {r.price : r \in rows}] : \A k \in keys : pick[k] \in prices(k)}

\* No file matches: SQL is not asked.
EmptyPage ==
  [rows |-> <<>>, raw_row_count |-> 0, total_row_count |-> 0, truncated |-> FALSE,
   next_offset |-> NoOffset]

DuckDbPages(req, n, from) ==
  LET files == ListFiles(req)
      rows  == Source(files, req)
  IN  IF files = {} THEN {EmptyPage}
      ELSE {PagePicked(rows, Limit(n), Offset(from), pick) : pick \in Picks(rows)}

(***************************************************************************)
(* The fallback for a plain reader: all the rows, sorted by key, the first *)
(* of each key kept, then sliced.  A row is <<key, price>>.                *)
(***************************************************************************)
RowsOf(file, req) ==
  LET times == Sorted({k[2] : k \in KeysIn(file, req)}, LAMBDA t, u : t < u)
  IN  [i \in DOMAIN times |-> <<<<file.symbol, times[i]>>, file.bars[times[i]]>>]

\* sorted() is stable.
StablySorted(rows) ==
  LET order == Sorted(DOMAIN rows, LAMBDA i, j :
                 KeyBefore(rows[i][1], rows[j][1]) \/ (rows[i][1] = rows[j][1] /\ i < j))
  IN  [n \in DOMAIN order |-> rows[order[n]]]

\* The symbol is left out of the key.
DeduplicateByTime(rows) ==
  FoldLeft(LAMBDA kept, row :
             IF \E i \in DOMAIN kept : kept[i][1][2] = row[1][2] THEN kept ELSE Append(kept, row),
           <<>>, rows)

DeduplicateRows(rows) ==
  FoldLeft(LAMBDA kept, row :
             IF \E i \in DOMAIN kept : kept[i][1] = row[1] THEN kept ELSE Append(kept, row),
           <<>>, rows)

FallbackPages(req, n, from) ==
  {LET rows   == FlattenSeq([i \in DOMAIN files |-> RowsOf(files[i], req)])
       unique == DeduplicateRows(StablySorted(rows))
   IN  Page(Slice(unique, Limit(n), Offset(from)), Len(rows), Len(unique), Offset(from))
   : files \in FileOrders(ListFiles(req))}
----
ReadInit ==
  /\ lake = {}
  /\ reading = {}
  /\ limit = 0
  /\ offset = NoOffset
  /\ got = <<>>
  /\ atStart = {}
  /\ grown = FALSE

\* A download records a file (record_file); data_files holds no file twice.
Record ==
  /\ Cardinality(lake) < MaxFiles
  /\ \E f \in Files \ lake : lake' = lake \union {f}
  /\ grown' = (reading # {})
  /\ UNCHANGED <<reading, limit, offset, got, atStart>>

StartReading ==
  /\ reading = {}
  /\ \E req \in Paged :
       /\ reading' = {req}
       /\ atStart' = MatchingKeys(req)
  /\ \E n \in Limits : limit' = n
  /\ offset' = 0
  /\ UNCHANGED <<lake, got, grown>>

\* The client goes on at the number of the page's last row.
ReadPageAgain ==
  /\ offset # NoOffset
  /\ \E req \in reading : \E page \in DuckDbPages(req, limit, offset) :
       /\ got' = got \o [i \in DOMAIN page.rows |-> page.rows[i][1]]
       /\ offset' = IF page.next_offset = NoOffset THEN NoOffset ELSE page.next_offset + 1
  /\ UNCHANGED <<lake, reading, limit, atStart, grown>>

\* GET /bars with the next_offset of the page before.
ReadPage ==
  /\ offset # NoOffset
  /\ \E req \in reading : \E page \in DuckDbPages(req, limit, offset) :
       /\ got' = got \o [i \in DOMAIN page.rows |-> page.rows[i][1]]
       /\ offset' = page.next_offset
  /\ UNCHANGED <<lake, reading, limit, atStart, grown>>

ReadNext == Record \/ StartReading \/ ReadPage

ReadSpec == ReadInit /\ [][ReadNext]_readVars
----
ReadTypeOK ==
  /\ lake \subseteq Files
  /\ reading \subseteq Paged
  /\ limit \in Limits \union {0}
  /\ offset \in Nat \union {NoOffset}
  /\ got \in Seq(Symbols \X Times)
  /\ atStart \subseteq Symbols \X Times
  /\ grown \in BOOLEAN

(***************************************************************************)
(* A client that follows next_offset until there is none has been given    *)
(* every bar that was recorded when it began, also when files are recorded *)
(* between its pages; when none was, each bar once and in order.           *)
(***************************************************************************)
PagingMissesNothing ==
  reading # {} /\ offset = NoOffset =>
    /\ atStart \subseteq Range(got)
    /\ ~grown => got = Sorted(atStart, KeyBefore)

(***************************************************************************)
(* The SQL of the DuckDB reader and the Python fallback give the same      *)
(* pages, up to which of the bars of one key is kept: filter, counts,      *)
(* order, deduplication and slicing agree for every order of the files.    *)
(***************************************************************************)
EnginesAgree ==
  reading = {} => \A req \in Paged, n \in Limits, from \in -1 .. MaxFiles :
    FallbackPages(req, n, from) \subseteq DuckDbPages(req, n, from)

Covers(symbol, t) == \E s \in Segments : s.symbol = symbol /\ s.start <= t /\ t <= s.end

Asked(req) == {t \in Times : req.start <= t /\ t <= req.end}

InGaps(coverage, symbol) ==
  {t \in Times : \E g \in coverage.gaps : g.symbol = symbol /\ g.start <= t /\ t <= g.end}

(***************************************************************************)
(* Requests that the planner has to answer exactly: dates in order.        *)
(***************************************************************************)
Ranges(kinds) == {req \in Requests : Bounded(req) /\ req.start <= req.end /\ req.kind \in kinds}

(***************************************************************************)
(* For daily bars the gaps are exactly the requested days no file spans,   *)
(* no day is in two gaps, and a request is fully covered exactly when no   *)
(* day is missing; for intraday bars a gap may be too wide, but nothing    *)
(* that is missing is taken for covered.                                   *)
(***************************************************************************)
GapsAreExact ==
  reading = {} =>
    /\ \A req \in Ranges(Kinds) :
         LET coverage == Coverage(Segments, req)
             missing(s) == {t \in Asked(req) : ~Covers(s, t)}
         IN  /\ \A s \in req.symbols : missing(s) \subseteq InGaps(coverage, s)
             /\ coverage.fully_covered => \A s \in req.symbols : missing(s) = {}
             /\ req.kind = "daily_bars" => \A s \in req.symbols :
                  /\ InGaps(coverage, s) = missing(s)
                  /\ s \in coverage.missing_symbols <=> missing(s) # {}
             /\ req.kind = "daily_bars" => \A g, h \in coverage.gaps :
                  g # h /\ g.symbol = h.symbol => g.end < h.start \/ h.end < g.start
    /\ \A req \in Requests : ~Bounded(req) /\ Coverage(Segments, req).fully_covered =>
         \A s \in req.symbols : \A t \in Times :
           t \in {req.start, req.end} => Covers(s, t)

\* No chunk is longer than chunk_days, and a day is in as many as it shall be.
Tile(chunks, days, req, Wanted(_, _)) ==
  /\ \A c \in chunks : c.start <= c.end /\ c.end - c.start < ChunkDays(days)
  /\ \A s \in req.symbols, t \in Asked(req) :
       Cardinality({c \in chunks : c.symbol = s /\ c.start <= t /\ t <= c.end})
         = IF Wanted(s, t) THEN 1 ELSE 0

(***************************************************************************)
(* The chunks of a full download tile the requested days, those of an      *)
(* ensure download its gaps: a missing day is in exactly one chunk, a day  *)
(* that is covered in none (daily bars).                                   *)
(***************************************************************************)
ChunksTileGaps ==
  reading = {} => \A req \in Ranges({"daily_bars"} \intersect Kinds), days \in DownloadDays :
    /\ Tile(PlanDownloadChunks(req, days), days, req, LAMBDA s, t : TRUE)
    /\ Tile(PlanGapDownloadChunks(req, Coverage(Segments, req), days), days, req,
            LAMBDA s, t : ~Covers(s, t))

(***************************************************************************)
(* When every chunk of an ensure download has left a file that spans it,   *)
(* asking again finds the request fully covered: nothing is downloaded a   *)
(* second time (daily bars on days with trade).                            *)
(***************************************************************************)
EnsureConverges ==
  reading = {} => \A req \in Ranges({"daily_bars"} \intersect Kinds), days \in DownloadDays :
    LET chunks == PlanGapDownloadChunks(req, Coverage(Segments, req), days)
        after  == Segments \union
                  {[symbol |-> c.symbol, start |-> RequestForChunk(req, c).start,
                    end |-> RequestForChunk(req, c).end] : c \in chunks}
    IN  req.symbols # {} => Coverage(after, req).fully_covered

(***************************************************************************)
(* A request whose times lie all within recorded files is fully covered,   *)
(* and so answered from the cache.                                         *)
(* The code does not keep it for intraday bars: the value after a covered  *)
(* end is that end itself, so a range that two adjacent files cover leaves *)
(* a gap of one instant, or more, between them.                            *)
(***************************************************************************)
CoveredMeansCached ==
  \A req \in Ranges(Kinds) :
    req.symbols # {} /\ (\A s \in req.symbols, t \in Asked(req) : Covers(s, t))
      => Coverage(Segments, req).fully_covered
====
