---- MODULE MCLocalLake ----
(* Small instances of LocalLake and DataQuality for TLC. *)
EXTENDS DataQuality

\* Symbols are numbers in the order of their names.
AllSymbols == {1, 2}
ThreeTimes == 1 .. 3
TwoWeekdays == {1, 3}

\* Whole symbols, and a range of both.
SomeRequests ==
  {[kind |-> k, symbols |-> S, start |-> NoTime, end |-> NoTime] :
     k \in Kinds, S \in {{}, {1}}}
  \union {[kind |-> k, symbols |-> {1, 2}, start |-> 2, end |-> 3] : k \in Kinds}
====
