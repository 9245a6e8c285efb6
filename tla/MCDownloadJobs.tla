---- MODULE MCDownloadJobs ----
(* Small instances of DownloadJobs for TLC. *)
EXTENDS DownloadJobs, TLC

\* Every request names the first and the last date.
WholeRange == {Slices}

OneSymbol == [s \in Slices |-> "A"]

\* Job ids and bars are only compared for equality.
Symmetry == Permutations(Jobs) \union Permutations(Threads) \union Permutations(Contents)
====
