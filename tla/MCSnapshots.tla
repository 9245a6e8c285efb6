---- MODULE MCSnapshots ----
(* Small instances of Snapshots for TLC. *)
EXTENDS Snapshots

CONSTANTS s1, s2, c1, j1

TwoSnapshots == {s1, s2}
OneClient    == {c1}
OneJob       == {j1}
Pair         == {c1, j1}
====
