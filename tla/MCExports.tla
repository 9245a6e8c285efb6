---- MODULE MCExports ----
(* Small instances of Exports for TLC. *)
EXTENDS Exports, TLC

CONSTANTS csv, parquet

Both    == {csv, parquet}
OnlyCsv == {csv}

\* The order of the threads does not matter.
Symmetry == Permutations(Threads)
====
