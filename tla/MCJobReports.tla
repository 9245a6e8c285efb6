---- MODULE MCJobReports ----
(* Small instance of JobReports for TLC. *)
EXTENDS JobReports

\* All slices but the last one are of one symbol.
TwoSymbols == [s \in Slices |-> IF s = NSlices THEN "B" ELSE "A"]

\* A request for both symbols and one for the first.
Nested == {Slices, Slices \ {NSlices}}
====
