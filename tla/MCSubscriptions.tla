---- MODULE MCSubscriptions ----
(* Small instances of Subscriptions for TLC. *)
EXTENDS Subscriptions, TLC

\* The order of ids and threads does not matter.
Symmetry == Permutations(Ids) \union Permutations(Clients) \union Permutations(Callers)
====
