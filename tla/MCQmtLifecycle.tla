---- MODULE MCQmtLifecycle ----
(* Small instances of QmtLifecycle for TLC. *)
EXTENDS QmtLifecycle, TLC

\* The order of the threads does not matter.
Symmetry == Permutations(Threads)
====
