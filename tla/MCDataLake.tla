---- MODULE MCDataLake ----
(* Small instances of DataLake for TLC. *)
EXTENDS DataLake, TLC

\* Series and bars are only compared for equality.
Symmetry == Permutations(Series) \union Permutations(Bars)
====
