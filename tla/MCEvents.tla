---- MODULE MCEvents ----
(* Small instances of Events for TLC. *)
EXTENDS Events

CONSTANTS p1, p2, w1, w2

TwoCallers == {p1, p2}
TwoClients == {w1, w2}
FirstOnly  == {w1}
====
