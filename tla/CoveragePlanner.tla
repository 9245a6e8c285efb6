---- MODULE CoveragePlanner ----
(***************************************************************************)
(* What of a request the recorded files do not cover, and the chunks a     *)
(* download of it is cut into: CoveragePlanner (data/coverage.py) and      *)
(* plan_download_chunks (data/chunks.py), as operators.                    *)
(*                                                                         *)
(* Times are integers in the order of the ISO strings the code compares.   *)
(* Daily bars have a date; for intraday bars a multiple of DayLength       *)
(* stands for a string that is a date only, which sorts before every bar   *)
(* of that day.  A segment is [symbol, start, end], what data_files says   *)
(* of one file: the times of its first and last bar.                       *)
(***************************************************************************)
EXTENDS Integers, Sequences, FiniteSets, SequencesExt, FiniteSetsExt

CONSTANTS Symbols,      \* the symbols of the market
          Times,        \* the times of bars and of requests
          NoTime,       \* a request that leaves start or end open
          Kinds,        \* the kinds of bars requests ask for: subset of KindNames
          DayLength,    \* the distance of two dates among intraday times
          MaxChunkDays  \* bound of chunk_days (366 in the code)

KindNames == {"daily_bars", "intraday_bars"}

\* A day or an instant between two times is a time as well.
ASSUME PlannerAssumption ==
  /\ Times \subseteq Int
  /\ \A a, b \in Times : a .. b \subseteq Times
  /\ NoTime \notin Int
  /\ Kinds \subseteq KindNames
  /\ DayLength \in Nat \ {0}
  /\ MaxChunkDays \in Nat \ {0}

Requests == [kind : Kinds, symbols : SUBSET Symbols,
             start : Times \union {NoTime}, end : Times \union {NoTime}]

Bounded(req) == req.start # NoTime /\ req.end # NoTime

\* file_matches_request: the files list_files returns for a request.
FileMatchesRequest(seg, req) ==
  /\ req.symbols = {} \/ seg.symbol \in req.symbols
  /\ req.end # NoTime => seg.start <= req.end
  /\ req.start # NoTime => seg.end >= req.start

\* The last value before, and the first value after, the end of a segment.
Day(req) == IF req.kind = "daily_bars" THEN 1 ELSE 0

PreviousValue(t, req) == t - Day(req)

\* The sweep goes on at the end of the segment itself.
SameValue(t, req) == t
NextValue(t, req) == t + Day(req)

Gap(symbol, from, to, reason) ==
  [symbol |-> symbol, start |-> from, end |-> to, reason |-> reason]

\* One segment must cover a request without start or end on its own.
RowCoversRequest(seg, req) ==
  /\ req.start # NoTime => seg.start <= req.start
  /\ req.end # NoTime => seg.end >= req.end

\* The elements of S in the order of Before, which is strict and total.
Sorted(S, Before(_, _)) ==
  [i \in 1 .. Cardinality(S) |->
     CHOOSE x \in S : Cardinality({y \in S : Before(y, x)}) = i - 1]

SegmentBefore(r, s) == r.start < s.start \/ (r.start = s.start /\ r.end < s.end)

\* The sweep is over the merged row: from the first start to the last end.
SweepSummary(symbol, ranges, req) ==
  LET first == Min({r.start : r \in Range(ranges)})
      last  == Max({r.end : r \in Range(ranges)})
  IN  {g \in {Gap(symbol, req.start, PreviousValue(first, req), "segment_gap"),
              Gap(symbol, NextValue(last, req), req.end, "segment_gap")} : g.start <= g.end}

\* The cursor moves over the sorted segments until it has passed the end.
Visit(acc, r, symbol, req) ==
  IF acc.cursor > req.end THEN acc
  ELSE [gaps   |-> IF r.start > acc.cursor
                   THEN acc.gaps \union
                          {Gap(symbol, acc.cursor, PreviousValue(r.start, req), "segment_gap")}
                   ELSE acc.gaps,
        cursor |-> IF r.end >= acc.cursor THEN NextValue(r.end, req) ELSE acc.cursor]

Sweep(symbol, ranges, req) ==
  LET swept == FoldLeft(LAMBDA acc, r : Visit(acc, r, symbol, req),
                        [gaps |-> {}, cursor |-> req.start], ranges)
      rest  == Gap(symbol, swept.cursor, req.end, "segment_gap")
  IN  {g \in swept.gaps \union {rest} : g.start <= g.end}

\* _symbol_gaps: segments are those of the files that match the request; the
\* order of the gaps is left out.
SymbolGaps(symbol, segments, req) ==
  LET own == {s \in segments : s.symbol = symbol}
      all == Gap(symbol, req.start, req.end, "no_matching_coverage")
  IN  IF ~Bounded(req)
      THEN IF \E s \in own : RowCoversRequest(s, req) THEN {} ELSE {all}
      ELSE IF own = {} THEN {all}
      ELSE Sweep(symbol, Sorted(own, SegmentBefore), req)

CoveredSymbols(segments, req) ==
  {symbol \in req.symbols : /\ \E s \in segments : s.symbol = symbol
                            /\ SymbolGaps(symbol, segments, req) = {}}

\* CoveragePlanner.coverage of a request, when `recorded' are the segments
\* of all the files.
Coverage(recorded, req) ==
  LET segments == {s \in recorded : FileMatchesRequest(s, req)}
      covered  == CoveredSymbols(segments, req)
  IN  [fully_covered   |-> req.symbols # {} /\ req.symbols \subseteq covered,
       gaps            |-> UNION {SymbolGaps(s, segments, req) : s \in req.symbols},
       missing_symbols |-> req.symbols \ covered]
----
(***************************************************************************)
(* Chunks.                                                                 *)
(***************************************************************************)

\* _chunk_days: an integer is clamped.
ChunkDays(n) == Max({1, Min({n, MaxChunkDays})})

DateUnit(req) == IF req.kind = "daily_bars" THEN 1 ELSE DayLength
IsDate(t, req) == t % DateUnit(req) = 0

\* The next range begins on the day the last one ended.
OverlappingDateRanges(req, from, to, days) ==
  IF ~(from # NoTime /\ to # NoTime) THEN <<<<NoTime, NoTime>>>>
  ELSE IF ~IsDate(from, req) \/ ~IsDate(to, req) \/ from > to THEN <<<<from, to>>>>
  ELSE LET unit == DateUnit(req)
           Start(k) == from + (k - 1) * days * unit
       IN  [k \in 1 .. (to - from) \div (days * unit) + 1 |->
              <<Start(k), Min({Start(k) + days * unit, to})>>]

\* _date_ranges: `days' days at a time; times that are not dates stay whole.
DateRanges(req, from, to, days) ==
  IF from = NoTime \/ to = NoTime THEN <<<<NoTime, NoTime>>>>
  ELSE IF ~IsDate(from, req) \/ ~IsDate(to, req) \/ from > to THEN <<<<from, to>>>>
  ELSE LET unit == DateUnit(req)
           Start(k) == from + (k - 1) * days * unit
       IN  [k \in 1 .. (to - from) \div (days * unit) + 1 |->
              <<Start(k), Min({Start(k) + (days - 1) * unit, to})>>]

Chunk(symbol, range, reason) ==
  [symbol |-> symbol, start |-> range[1], end |-> range[2], reason |-> reason]

\* plan_download_chunks of a request, and plan_gap_download_chunks of its gaps.
PlanDownloadChunks(req, days) ==
  {Chunk(symbol, range, "none") : symbol \in req.symbols,
     range \in Range(DateRanges(req, req.start, req.end, ChunkDays(days)))}

PlanGapDownloadChunks(req, coverage, days) ==
  UNION {{Chunk(gap.symbol, range, gap.reason) :
            range \in Range(DateRanges(req, gap.start, gap.end, ChunkDays(days)))}
         : gap \in coverage.gaps}

\* request_for_chunk.
RequestForChunk(req, chunk) ==
  [req EXCEPT !.symbols = {chunk.symbol},
              !.start = IF chunk.start # NoTime THEN chunk.start ELSE @,
              !.end = IF chunk.end # NoTime THEN chunk.end ELSE @]
====
