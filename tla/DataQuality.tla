---- MODULE DataQuality ----
(***************************************************************************)
(* The quality report over the local lake: quality_report                  *)
(* (data_quality/checks.py) on the first page of a query, with the         *)
(* weekdays of the request as the expected dates (data_quality/service.py).*)
(*                                                                         *)
(* A row is <<key, price>> as in LocalLake; what is wrong with the numbers *)
(* of a bar is told by its price.  A daily bar is dated by its day; an     *)
(* intraday bar has no date, its timestamp stands in and equals no day.    *)
(***************************************************************************)
EXTENDS LocalLake

CONSTANTS Weekdays,    \* the times that are Mondays to Fridays
          BadPrices,   \* bars with a price that is not positive, or high below another
          BadVolumes   \* bars with a negative volume

ASSUME QualityAssumption ==
  /\ Weekdays \subseteq Times
  /\ BadPrices \subseteq Prices /\ BadVolumes \subseteq Prices

\* expected_weekdays: none unless the request has both dates.
ExpectedWeekdays(req) ==
  IF NoTime \in {req.start, req.end} THEN {}
  ELSE {d \in Weekdays : req.start <= d /\ d <= req.end}

\* _row_date: compared with the days of the calendar.
RowDates(rows, symbol, kind) ==
  IF kind = "daily_bars" THEN {r[1][2] : r \in {q \in Range(rows) : q[1][1] = symbol}} ELSE {}

Observed(rows) == {r[1][1] : r \in Range(rows)}

\* A date one symbol has is not missed for another.
MissingDatesOfAll(rows, req) ==
  {m \in Observed(rows) \X ExpectedWeekdays(req) :
     \A q \in Observed(rows) : m[2] \notin RowDates(rows, q, req.kind)}

\* Only symbols with a row are looked at.
MissingDates(rows, req) ==
  {m \in Observed(rows) \X ExpectedWeekdays(req) : m[2] \notin RowDates(rows, m[1], req.kind)}

DuplicateRows(rows) ==
  {rows[i][1] : i \in {n \in DOMAIN rows : \E k \in 1 .. n - 1 : rows[k][1] = rows[n][1]}}

Anomalies(rows, bad) == {r[1] : r \in {q \in Range(rows) : q[2] \in bad}}

QualityReport(rows, req) ==
  [missing_dates    |-> MissingDates(rows, req),
   duplicate_rows   |-> DuplicateRows(rows),
   price_anomalies  |-> Anomalies(rows, BadPrices),
   volume_anomalies |-> Anomalies(rows, BadVolumes),
   row_count        |-> Len(rows)]

\* GET /quality: the page the query gives for the limit, from the first row on.
QualityPages(req, n) ==
  {[report |-> QualityReport(page.rows, req), truncated |-> page.truncated] :
     page \in DuckDbPages(req, n, 0)}

Stored(key, among) == \E f \in lake : key \in Keys(f) /\ f.bars[key[2]] \in among

(***************************************************************************)
(* The report on daily bars tells what the lake holds, provided that the   *)
(* page was not cut off: for each symbol with a bar in the range the       *)
(* missing weekdays are exactly those no file has a bar for; files that    *)
(* overlap are no duplicates; a bar reported as bad is recorded and bad,   *)
(* and a bar that is bad in every file is reported.                        *)
(***************************************************************************)
QualityTellsTheLake ==
  reading = {} => \A req \in Paged \union Ranges({"daily_bars"} \intersect Kinds), n \in Limits :
    req.kind = "daily_bars" => \A q \in QualityPages(req, n) :
      /\ q.report.duplicate_rows = {}
      /\ \A k \in q.report.price_anomalies : Stored(k, BadPrices)
      /\ \A k \in q.report.volume_anomalies : Stored(k, BadVolumes)
      /\ ~q.truncated =>
           /\ q.report.missing_dates =
                {m \in {k[1] : k \in MatchingKeys(req)} \X ExpectedWeekdays(req) :
                   ~Stored(m, Prices)}
           /\ \A k \in MatchingKeys(req) :
                ~Stored(k, Prices \ BadPrices) => k \in q.report.price_anomalies
====
