---- MODULE RpcDispatch_proofs ----
(***************************************************************************)
(* Theorems about TradingGuard for any threads, orders and limits, and     *)
(* about RpcDispatch, the endpoint around it, for any settings, requests   *)
(* and threads.                                                            *)
(*                                                                         *)
(* The daily limit needs orders that do not overlap.  The argument: while  *)
(* no order waits to be counted, the counters are not behind what was      *)
(* traded today, so the check leaves room for the order it lets through,   *)
(* and the room is still there when xtquant takes the order, because       *)
(* nobody else trades and because a new day only makes more of it.         *)
(* Cancellations and refused orders may come at any moment: they carry no  *)
(* order.                                                                  *)
(*                                                                         *)
(* Orders that do overlap are counted nevertheless, and their number is    *)
(* that of the threads: this takes sums over sets of threads, whose laws   *)
(* are derived from their definition by induction over finite sets.        *)
(*                                                                         *)
(* The requests of the endpoint keep to TradingGuard step by step, so what *)
(* is proved of TradingGuard holds for them.  That only consented orders   *)
(* trade and that the audit is true needs to know, at each step of a       *)
(* request, what its thread holds and what the dispatcher has noted: the   *)
(* invariant Tracks goes through the steps.                                *)
(***************************************************************************)
EXTENDS RpcDispatch, FiniteSetTheorems, TLAPS

USE DEF Days, history

LEMMA UsedTodayType == TypeOK => UsedToday \in [Measures -> Nat]
BY DEF TypeOK, UsedToday, Nothing

LEMMA PlusType ==
  ASSUME NEW a \in [Measures -> Nat], NEW b \in [Measures -> Nat]
  PROVE  Plus(a, b) \in [Measures -> Nat]
BY DEF Plus

(***************************************************************************)
(* Type correctness of the whole dispatcher model.                         *)
(***************************************************************************)
LEMMA TypeStep == TypeOK /\ [Next]_vars => TypeOK'
<1> SUFFICES ASSUME TypeOK, [Next]_vars PROVE TypeOK'
  OBVIOUS
<1>u. UsedToday \in [Measures -> Nat]
  BY UsedTodayType
<1>1. ASSUME NEW t \in Threads, NEW o \in Orders, CheckOrder(t, o) PROVE TypeOK'
  <2>1. o \in [Measures -> Nat]
    BY TradingAssumption
  <2>2. pc' \in [Threads -> {"idle", "call", "record"}]
    BY <1>1 DEF TypeOK, CheckOrder
  <2>3. order' \in [Threads -> [Measures -> Nat]]
    BY <1>1, <2>1 DEF TypeOK, CheckOrder
  <2> QED BY <1>1, <1>u, <2>2, <2>3 DEF TypeOK, CheckOrder
<1>2. ASSUME NEW t \in Threads, Cancel(t) PROVE TypeOK'
  BY <1>2 DEF TypeOK, Cancel
<1>3. ASSUME NEW t \in Threads, CallXtquant(t) PROVE TypeOK'
  <2>1. Plus(placed[today], order[t]) \in [Measures -> Nat]
    BY PlusType DEF TypeOK
  <2>2. Nothing \in [Measures -> Nat]
    BY DEF Nothing
  <2>3. placed' \in [Days -> [Measures -> Nat]]
    BY <1>3, <2>1 DEF TypeOK, CallXtquant
  <2>4. order' \in [Threads -> [Measures -> Nat]]
    BY <1>3, <2>2 DEF TypeOK, CallXtquant
  <2>5. pc' \in [Threads -> {"idle", "call", "record"}]
    BY <1>3 DEF TypeOK, CallXtquant
  <2> QED BY <1>3, <2>3, <2>4, <2>5 DEF TypeOK, CallXtquant
<1>4. ASSUME NEW t \in Threads, RecordOrder(t) PROVE TypeOK'
  <2>1. Plus(UsedToday, order[t]) \in [Measures -> Nat]
    BY <1>u, PlusType DEF TypeOK
  <2>2. Nothing \in [Measures -> Nat]
    BY DEF Nothing
  <2> QED BY <1>4, <2>1, <2>2 DEF TypeOK, RecordOrder
<1>5. CASE Midnight
  BY <1>5, TradingAssumption DEF TypeOK, Midnight
<1>6. CASE UNCHANGED vars
  BY <1>6 DEF TypeOK, vars
<1> QED BY <1>1, <1>2, <1>3, <1>4, <1>5, <1>6 DEF Next

LEMMA TypeInit == Init => TypeOK
<1> SUFFICES ASSUME Init PROVE TypeOK
  OBVIOUS
<1>1. Nothing \in [Measures -> Nat]
  BY DEF Nothing
<1>2. today \in Days /\ day \in Days
  BY TradingAssumption DEF Init
<1>3. overlapped \in BOOLEAN
  BY DEF Init
<1> QED BY <1>1, <1>2, <1>3 DEF Init, TypeOK

THEOREM TypeCorrect == Spec => []TypeOK
<1>1. Init => TypeOK
  BY TypeInit
<1>2. TypeOK /\ [Next]_vars => TypeOK'
  BY TypeStep
<1> QED BY <1>1, <1>2, PTL DEF Spec
----
(***************************************************************************)
(* The invariant behind the daily limit.                                   *)
(***************************************************************************)
OneOrder == \A t, u \in Threads : order[t] # Nothing /\ order[u] # Nothing => t = u

IdleHoldsNothing == \A t \in Threads : pc[t] = "idle" => order[t] = Nothing

FutureIsEmpty == \A d \in Days : d > today => placed[d] = Nothing

\* What a thread is about to send still fits.
RoomForChecked ==
  \A t \in Threads : pc[t] = "call" =>
    \A m \in Measures : placed[today][m] + order[t][m] <= DailyMax[m]

Recording(t) == pc[t] = "record" /\ order[t] # Nothing

\* The counters are behind by the order of the thread that records it.
CountedButOne ==
  \A m \in Measures :
    /\ (\A t \in Threads : ~Recording(t)) => placed[today][m] <= UsedToday[m]
    /\ \A t \in Threads : Recording(t) => placed[today][m] <= UsedToday[m] + order[t][m]

LimitInv ==
  /\ TypeOK
  /\ OneOrder
  /\ IdleHoldsNothing
  /\ FutureIsEmpty
  /\ RoomForChecked
  /\ CountedButOne
  /\ DailyLimitAlways

LEMMA LimitInvInit == Init => LimitInv
<1> SUFFICES ASSUME Init PROVE LimitInv
  OBVIOUS
<1>1. TypeOK
  BY TypeInit
<1>2. DailyLimitAlways
  BY TradingAssumption DEF Init, DailyLimitAlways, Nothing
<1>3. CountedButOne
  BY TradingAssumption DEF Init, CountedButOne, Recording, UsedToday, Nothing
<1>4. OneOrder /\ IdleHoldsNothing /\ FutureIsEmpty /\ RoomForChecked
  BY DEF Init, OneOrder, IdleHoldsNothing, FutureIsEmpty, RoomForChecked
<1> QED BY <1>1, <1>2, <1>3, <1>4 DEF LimitInv

\* A step that only brings the counters up to the date of today.
LEMMA RefreshKeeps ==
  ASSUME LimitInv, TypeOK', UsedToday' = UsedToday,
         UNCHANGED <<today, pc, order, placed>>
  PROVE  LimitInv'
BY DEF LimitInv, OneOrder, IdleHoldsNothing, FutureIsEmpty, RoomForChecked,
       CountedButOne, Recording, DailyLimitAlways, Nothing

LEMMA CheckOrderKeeps ==
  ASSUME LimitInv, TypeOK', NEW t \in Threads, NEW o \in Orders, CheckOrder(t, o), ~overlapped'
  PROVE  LimitInv'
<1> USE DEF LimitInv
<1>o. o \in [Measures -> Nat]
  BY TradingAssumption
<1>u. UsedToday \in [Measures -> Nat] /\ UsedToday' = UsedToday
  BY UsedTodayType DEF CheckOrder, UsedToday, Nothing
<1>1. CASE ~Fits(o)
  <2>1. UNCHANGED <<today, pc, order, placed>>
    BY <1>1 DEF CheckOrder
  <2> QED BY <1>u, <2>1, RefreshKeeps
<1>2. CASE Fits(o)
  <2>i. \A u \in Threads : order[u] = Nothing
    BY <1>2 DEF CheckOrder
  <2>p. /\ pc'[t] = "call" /\ order'[t] = o
        /\ \A u \in Threads : u # t => pc'[u] = pc[u] /\ order'[u] = Nothing
    BY <1>2, <2>i DEF CheckOrder, TypeOK
  <2>n. today' = today /\ placed' = placed
    BY DEF CheckOrder
  <2>c. \A m \in Measures : placed[today][m] <= UsedToday[m]
    BY <2>i DEF CountedButOne, Recording
  <2>1. OneOrder'
    BY <2>p DEF OneOrder, Nothing
  <2>2. IdleHoldsNothing'
    BY <2>p DEF IdleHoldsNothing, Nothing
  <2>3. FutureIsEmpty' /\ DailyLimitAlways'
    BY <2>n DEF FutureIsEmpty, DailyLimitAlways, Nothing
  <2>4. RoomForChecked'
    <3> SUFFICES ASSUME NEW u \in Threads, NEW m \in Measures
                 PROVE  placed[today][m] + order'[u][m] <= DailyMax[m]
      BY <2>n DEF RoomForChecked
    <3>1. /\ placed[today][m] \in Nat /\ UsedToday[m] \in Nat /\ o[m] \in Nat
          /\ DailyMax[m] \in Nat
      BY <1>u, <1>o, TradingAssumption DEF TypeOK
    <3>2. CASE u = t
      <4>1. UsedToday[m] + o[m] <= DailyMax[m]
        BY <1>2 DEF Fits
      <4> QED BY <2>c, <2>p, <3>1, <3>2, <4>1
    <3>3. CASE u # t
      <4>1. order'[u][m] = 0
        BY <2>p, <3>3 DEF Nothing
      <4>2. placed[today][m] <= DailyMax[m]
        BY DEF DailyLimitAlways, TypeOK
      <4> QED BY <3>1, <4>1, <4>2
    <3> QED BY <3>2, <3>3
  <2>5. CountedButOne'
    <3>1. \A u \in Threads : ~Recording(u)'
      BY <2>p DEF Recording, Nothing
    <3>2. \A m \in Measures : placed'[today'][m] <= UsedToday'[m]
      BY <2>c, <2>n, <1>u
    <3> QED BY <3>1, <3>2 DEF CountedButOne
  <2> QED BY <2>1, <2>2, <2>3, <2>4, <2>5
<1> QED BY <1>1, <1>2

LEMMA CancelKeeps ==
  ASSUME LimitInv, TypeOK', NEW t \in Threads, Cancel(t)
  PROVE  LimitInv'
<1> USE DEF LimitInv
<1>i. order[t] = Nothing /\ order' = order /\ today' = today /\ placed' = placed
  BY DEF Cancel, IdleHoldsNothing
<1>p. pc'[t] = "call" /\ \A u \in Threads : u # t => pc'[u] = pc[u]
  BY DEF Cancel, TypeOK
<1>u. UsedToday' = UsedToday
  BY DEF Cancel, UsedToday, Nothing
<1>1. OneOrder' /\ FutureIsEmpty' /\ DailyLimitAlways'
  BY <1>i DEF OneOrder, FutureIsEmpty, DailyLimitAlways, Nothing
<1>2. IdleHoldsNothing'
  BY <1>i, <1>p DEF IdleHoldsNothing, Nothing
<1>3. RoomForChecked'
  <2> SUFFICES ASSUME NEW u \in Threads, pc'[u] = "call", NEW m \in Measures
               PROVE  placed[today][m] + order[u][m] <= DailyMax[m]
    BY <1>i DEF RoomForChecked
  <2>1. CASE u = t
    <3>1. order[u][m] = 0
      BY <1>i, <2>1 DEF Nothing
    <3>2. placed[today][m] \in Nat /\ placed[today][m] <= DailyMax[m]
      BY DEF TypeOK, DailyLimitAlways
    <3> QED BY <3>1, <3>2, TradingAssumption
  <2>2. CASE u # t
    BY <1>p, <2>2 DEF RoomForChecked
  <2> QED BY <2>1, <2>2
<1>4. CountedButOne'
  <2>1. \A u \in Threads : Recording(u)' <=> Recording(u)
    BY <1>i, <1>p DEF Recording, Nothing
  <2> QED BY <1>i, <1>u, <2>1 DEF CountedButOne
<1> QED BY <1>1, <1>2, <1>3, <1>4

LEMMA CallKeeps ==
  ASSUME LimitInv, TypeOK', NEW t \in Threads, CallXtquant(t)
  PROVE  LimitInv'
<1> USE DEF LimitInv
<1>u. UsedToday \in [Measures -> Nat] /\ UsedToday' = UsedToday
  BY UsedTodayType DEF CallXtquant, UsedToday, Nothing
<1>i. \A u \in Threads : u # t => pc'[u] = pc[u] /\ order'[u] = order[u]
  BY DEF CallXtquant, TypeOK
<1>t. /\ pc[t] = "call" /\ today' = today
      /\ \/ pc'[t] = "record" /\ order'[t] = order[t]
         \/ pc'[t] = "idle" /\ order'[t] = Nothing /\ placed' = placed
  BY DEF CallXtquant, TypeOK
<1>q. \/ placed' = placed
      \/ placed' = [placed EXCEPT ![today] = Plus(placed[today], order[t])]
  BY DEF CallXtquant
<1>r. \A m \in Measures : placed'[today][m] \in {placed[today][m], placed[today][m] + order[t][m]}
  BY <1>q DEF TypeOK, Plus
<1>a. order[t] # Nothing => \A u \in Threads : u # t => order[u] = Nothing
  BY DEF OneOrder
<1>e. order[t] = Nothing => \A m \in Measures : placed'[today][m] = placed[today][m]
  <2> SUFFICES ASSUME order[t] = Nothing, NEW m \in Measures
               PROVE  placed'[today][m] = placed[today][m]
    OBVIOUS
  <2>1. order[t][m] = 0
    BY DEF Nothing
  <2>2. placed[today][m] \in Nat
    BY DEF TypeOK
  <2> QED BY <1>r, <2>1, <2>2
<1>1. OneOrder'
  BY <1>i, <1>t DEF OneOrder, Nothing
<1>2. IdleHoldsNothing'
  BY <1>i, <1>t DEF IdleHoldsNothing, Nothing
<1>3. FutureIsEmpty'
  <2> SUFFICES ASSUME NEW d \in Days, d > today PROVE placed'[d] = Nothing
    BY <1>t DEF FutureIsEmpty, Nothing
  <2> QED BY <1>q DEF FutureIsEmpty, TypeOK
<1>4. DailyLimitAlways'
  <2> SUFFICES ASSUME NEW d \in Days, NEW m \in Measures PROVE placed'[d][m] <= DailyMax[m]
    BY DEF DailyLimitAlways
  <2>1. placed[d][m] <= DailyMax[m] /\ placed[today][m] + order[t][m] <= DailyMax[m]
    BY <1>t DEF DailyLimitAlways, RoomForChecked
  <2>2. placed'[d][m] \in {placed[d][m], placed[today][m] + order[t][m]}
    BY <1>q DEF TypeOK, Plus
  <2> QED BY <2>1, <2>2
<1>5. RoomForChecked'
  <2> SUFFICES ASSUME NEW u \in Threads, u # t, pc[u] = "call", NEW m \in Measures
               PROVE  placed'[today][m] + order[u][m] <= DailyMax[m]
    BY <1>i, <1>t DEF RoomForChecked
  <2>1. CASE order[t] = Nothing
    BY <1>e, <2>1 DEF RoomForChecked
  <2>2. CASE order[t] # Nothing
    <3>1. order[u][m] = 0
      BY <1>a, <2>2 DEF Nothing
    <3>2. placed'[today][m] \in Nat /\ placed'[today][m] <= DailyMax[m]
      BY <1>4 DEF TypeOK, DailyLimitAlways
    <3> QED BY <3>1, <3>2
  <2> QED BY <2>1, <2>2
<1>6. CountedButOne'
  <2>1. CASE order[t] = Nothing
    <3>1. \A u \in Threads : Recording(u)' <=> Recording(u)
      BY <1>i, <1>t, <2>1 DEF Recording, Nothing
    <3>2. \A u \in Threads : order'[u] = order[u]
      BY <1>i, <1>t, <2>1
    <3> QED BY <1>e, <1>t, <1>u, <2>1, <3>1, <3>2 DEF CountedButOne
  <2>2. CASE order[t] # Nothing
    <3>1. \A u \in Threads : ~Recording(u)
      BY <1>a, <1>t, <2>2 DEF Recording
    <3>2. \A u \in Threads : u # t => ~Recording(u)'
      BY <1>a, <1>i, <2>2 DEF Recording, Nothing
    <3> SUFFICES ASSUME NEW m \in Measures
                 PROVE /\ pc'[t] # "record" => placed'[today][m] <= UsedToday[m]
                       /\ pc'[t] = "record" => placed'[today][m] <= UsedToday[m] + order[t][m]
      BY <1>t, <1>u, <2>2, <3>2 DEF CountedButOne, Recording, Nothing
    <3>3. placed[today][m] <= UsedToday[m]
      BY <3>1 DEF CountedButOne
    <3>4. placed[today][m] \in Nat /\ UsedToday[m] \in Nat /\ order[t][m] \in Nat
      BY <1>u DEF TypeOK
    <3> QED BY <1>r, <1>t, <3>3, <3>4
  <2> QED BY <2>1, <2>2
<1> QED BY <1>1, <1>2, <1>3, <1>4, <1>5, <1>6

LEMMA RecordKeeps ==
  ASSUME LimitInv, TypeOK', NEW t \in Threads, RecordOrder(t)
  PROVE  LimitInv'
<1> USE DEF LimitInv
<1>i. \A u \in Threads : u # t => pc'[u] = pc[u] /\ order'[u] = order[u]
  BY DEF RecordOrder, TypeOK
<1>t. pc[t] = "record" /\ pc'[t] = "idle" /\ order'[t] = Nothing
  BY DEF RecordOrder, TypeOK
<1>n. today' = today /\ placed' = placed
  BY DEF RecordOrder
<1>u. \A m \in Measures : UsedToday'[m] = UsedToday[m] + order[t][m]
  BY DEF RecordOrder, UsedToday, Plus
<1>1. OneOrder' /\ IdleHoldsNothing'
  BY <1>i, <1>t DEF OneOrder, IdleHoldsNothing, Nothing
<1>2. FutureIsEmpty' /\ DailyLimitAlways'
  BY <1>n DEF FutureIsEmpty, DailyLimitAlways, Nothing
<1>3. RoomForChecked'
  BY <1>i, <1>t, <1>n DEF RoomForChecked
<1>4. CountedButOne'
  <2>1. CASE order[t] = Nothing
    <3>1. \A m \in Measures : UsedToday'[m] = UsedToday[m]
      BY <1>u, <2>1, UsedTodayType DEF Nothing
    <3>2. \A u \in Threads : (Recording(u)' <=> Recording(u)) /\ order'[u] = order[u]
      BY <1>i, <1>t, <2>1 DEF Recording, Nothing
    <3> QED BY <1>n, <3>1, <3>2 DEF CountedButOne
  <2>2. CASE order[t] # Nothing
    <3>1. \A u \in Threads : ~Recording(u)'
      BY <1>i, <1>t, <2>2 DEF Recording, OneOrder, Nothing
    <3>2. \A m \in Measures : placed'[today'][m] <= UsedToday'[m]
      BY <1>n, <1>t, <1>u, <2>2 DEF CountedButOne, Recording
    <3> QED BY <3>1, <3>2 DEF CountedButOne
  <2> QED BY <2>1, <2>2
<1> QED BY <1>1, <1>2, <1>3, <1>4

LEMMA MidnightKeeps ==
  ASSUME LimitInv, TypeOK', Midnight
  PROVE  LimitInv'
<1> USE DEF LimitInv
<1>n. /\ today \in Nat /\ today' = today + 1 /\ today' \in Days
      /\ placed' = placed /\ order' = order /\ pc' = pc
  BY DEF Midnight, TypeOK
<1>z. \A m \in Measures : placed'[today'][m] = 0
  BY <1>n DEF FutureIsEmpty, Nothing
<1>u. \A m \in Measures : UsedToday'[m] \in Nat
  BY DEF TypeOK, UsedToday, Nothing
<1>1. OneOrder' /\ IdleHoldsNothing' /\ DailyLimitAlways'
  BY <1>n DEF OneOrder, IdleHoldsNothing, DailyLimitAlways, Nothing
<1>2. FutureIsEmpty'
  BY <1>n DEF FutureIsEmpty, Nothing
<1>3. RoomForChecked'
  <2> SUFFICES ASSUME NEW t \in Threads, pc[t] = "call", NEW m \in Measures
               PROVE  order[t][m] <= DailyMax[m]
    BY <1>n, <1>z DEF RoomForChecked, TypeOK
  <2>1. placed[today][m] + order[t][m] <= DailyMax[m]
    BY DEF RoomForChecked
  <2>2. placed[today][m] \in Nat /\ order[t][m] \in Nat /\ DailyMax[m] \in Nat
    BY TradingAssumption DEF TypeOK
  <2> QED BY <2>1, <2>2
<1>4. CountedButOne'
  <2>1. \A t \in Threads, m \in Measures : order'[t][m] \in Nat
    BY DEF TypeOK
  <2> QED BY <1>z, <1>u, <2>1 DEF CountedButOne
<1> QED BY <1>1, <1>2, <1>3, <1>4

(***************************************************************************)
(* No day exceeds its limits as long as no order is let through while      *)
(* another is under way, for any threads, orders, limits and number of     *)
(* days.                                                                   *)
(***************************************************************************)
THEOREM DailyLimitHolds == Spec => []DailyLimit
<1> DEFINE Inv == TypeOK /\ (~overlapped => LimitInv)
<1>1. Init => Inv
  BY LimitInvInit, TypeInit
<1>2. Inv /\ [Next]_vars => Inv'
  <2> SUFFICES ASSUME Inv, [Next]_vars PROVE Inv'
    OBVIOUS
  <2>t. TypeOK'
    BY TypeStep
  <2>o. overlapped => overlapped'
    BY DEF Next, CheckOrder, Cancel, CallXtquant, RecordOrder, Midnight, vars, TypeOK
  <2> SUFFICES ASSUME LimitInv, ~overlapped' PROVE LimitInv'
    BY <2>t, <2>o
  <2>1. ASSUME NEW t \in Threads, NEW o \in Orders, CheckOrder(t, o) PROVE LimitInv'
    BY <2>1, <2>t, CheckOrderKeeps
  <2>2. ASSUME NEW t \in Threads, Cancel(t) PROVE LimitInv'
    BY <2>2, <2>t, CancelKeeps
  <2>3. ASSUME NEW t \in Threads, CallXtquant(t) PROVE LimitInv'
    BY <2>3, <2>t, CallKeeps
  <2>4. ASSUME NEW t \in Threads, RecordOrder(t) PROVE LimitInv'
    BY <2>4, <2>t, RecordKeeps
  <2>5. CASE Midnight
    BY <2>5, <2>t, MidnightKeeps
  <2>6. CASE UNCHANGED vars
    <3>1. UsedToday' = UsedToday
      BY <2>6 DEF vars, UsedToday, Nothing
    <3> QED BY <2>6, <2>t, <3>1, RefreshKeeps DEF vars
  <2> QED BY <2>1, <2>2, <2>3, <2>4, <2>5, <2>6 DEF Next
<1>3. Inv => DailyLimit
  BY DEF LimitInv, DailyLimit
<1> QED BY <1>1, <1>2, <1>3, PTL DEF Spec
----
(***************************************************************************)
(* Sums over sets of threads.                                              *)
(*                                                                         *)
(* MapThenSumSet is a recursive function over the subsets of its set, so   *)
(* that the sum over another set is another function.  The lemmas show     *)
(* that these functions exist (TableTells) and agree where they overlap    *)
(* (TablesAgree), and from there the laws of sums: SumTakeOut, SumSame,    *)
(* SumMonotonic, SumBound.  Each is an induction over the subsets of a     *)
(* finite set, in the form of GoodSubsets.                                 *)
(***************************************************************************)
(***************************************************************************)
(* Induction over the subsets of a finite set, for a set of good ones.     *)
(***************************************************************************)
LEMMA GoodSubsets ==
  ASSUME NEW S, IsFiniteSet(S), NEW G,
         \A T \in SUBSET S : (\A U \in SUBSET T : U # T => U \in G) => T \in G
  PROVE  \A T \in SUBSET S : T \in G
<1> DEFINE Bad == {T \in SUBSET S : T \notin G}
<1>1. IsWellFoundedOn(StrictSubsetOrdering(S), SUBSET S)
  BY FS_StrictSubsetOrderingWellFounded, FS_FiniteSubsetsOfFinite
<1>2. SUFFICES ASSUME Bad # {} PROVE FALSE
  OBVIOUS
<1>3. Bad \subseteq SUBSET S
  OBVIOUS
<1> HIDE DEF Bad
<1>4. PICK T \in Bad : \A U \in Bad : <<U, T>> \notin StrictSubsetOrdering(S)
  BY <1>1, <1>2, <1>3, WFMin
<1>5. \A U \in SUBSET T : U # T => U \in G
  BY <1>4 DEF Bad, StrictSubsetOrdering
<1> QED BY <1>4, <1>5 DEF Bad

SumOver(g, m, S) == MapThenSumSet(LAMBDA t : g[t][m], S)

Chosen(T) == CHOOSE x \in T : TRUE

\* The summands are numbers.
Summable(g, m, S) == IsFiniteSet(S) /\ \A x \in S : g[x][m] \in Nat

\* F tells the sums over the subsets of S.
Tells(F, g, m, S) ==
  F = [T \in SUBSET S |-> IF T = {} THEN 0 ELSE g[Chosen(T)][m] + F[T \ {Chosen(T)}]]

Table(g, m, S) == CHOOSE F : Tells(F, g, m, S)

\* MapThenSumSet, told with a table.
LEMMA SumDef == \A g, m, S : SumOver(g, m, S) = Table(g, m, S)[S]
BY DEF SumOver, MapThenSumSet, MapThenFoldSet, Table, Tells, Chosen

LEMMA ChosenProperties == ASSUME NEW T, T # {} PROVE Chosen(T) \in T
BY DEF Chosen

LEMMA TellsProperties ==
  ASSUME NEW F, NEW g, NEW m, NEW S, Tells(F, g, m, S)
  PROVE  /\ F[{}] = 0
         /\ \A T \in SUBSET S : T # {} => F[T] = g[Chosen(T)][m] + F[T \ {Chosen(T)}]
BY DEF Tells

\* Two tables tell the same sums of the sets that both know.
LEMMA TablesAgree ==
  ASSUME NEW g, NEW m, NEW A, NEW B, NEW C, IsFiniteSet(C), C \subseteq A, C \subseteq B,
         NEW E, Tells(E, g, m, A), NEW F, Tells(F, g, m, B)
  PROVE  \A T \in SUBSET C : E[T] = F[T]
<1> DEFINE G == {T \in SUBSET C : E[T] = F[T]}
<1>1. ASSUME NEW T \in SUBSET C, \A U \in SUBSET T : U # T => U \in G
      PROVE  T \in G
  <2>1. CASE T = {}
    BY <2>1, TellsProperties
  <2>2. CASE T # {}
    <3>1. T \ {Chosen(T)} \in SUBSET T /\ T \ {Chosen(T)} # T
      BY <2>2, ChosenProperties
    <3>2. E[T \ {Chosen(T)}] = F[T \ {Chosen(T)}]
      BY <1>1, <3>1
    <3> QED BY <2>2, <3>2, TellsProperties
  <2> QED BY <2>1, <2>2
<1> HIDE DEF G
<1>2. \A T \in SUBSET C : T \in G
  BY <1>1, GoodSubsets
<1> QED BY <1>2 DEF G

\* There is a table for each finite set: the table of a set is put together from those
\* of its strict subsets.
LEMMA TableTells ==
  ASSUME NEW g, NEW m, NEW S, IsFiniteSet(S)
  PROVE  \A T \in SUBSET S : Tells(Table(g, m, T), g, m, T)
<1> DEFINE G == {T \in SUBSET S : \E F : Tells(F, g, m, T)}
<1>f. \A T \in SUBSET S : IsFiniteSet(T)
  BY FS_Subset
<1>1. ASSUME NEW T \in SUBSET S, \A U \in SUBSET T : U # T => U \in G
      PROVE  T \in G
  <2> DEFINE H(U) == Table(g, m, U)[U]
             F == [U \in SUBSET T |-> IF U = {} THEN 0 ELSE g[Chosen(U)][m] + H(U \ {Chosen(U)})]
  <2>t. \A U \in SUBSET T : U # T => Tells(Table(g, m, U), g, m, U)
    BY <1>1 DEF Table
  <2>1. ASSUME NEW U \in SUBSET T, U # T
        PROVE  F[U] = H(U)
    <3>1. CASE U = {}
      BY <2>1, <2>t, <3>1, TellsProperties
    <3>2. CASE U # {}
      <4> DEFINE V == U \ {Chosen(U)}
      <4>1. V \in SUBSET U /\ V \in SUBSET T /\ V # T /\ V \in SUBSET S
        BY <2>1
      <4>2. Table(g, m, V)[V] = Table(g, m, U)[V]
        <5>1. Tells(Table(g, m, V), g, m, V) /\ Tells(Table(g, m, U), g, m, U) /\ IsFiniteSet(V)
          BY <1>f, <2>1, <2>t, <4>1, ChosenProperties
        <5> HIDE DEF V
        <5> QED BY <4>1, <5>1, TablesAgree
      <4>3. H(U) = g[Chosen(U)][m] + Table(g, m, U)[V]
        BY <2>1, <2>t, <3>2, TellsProperties
      <4> QED BY <3>2, <4>2, <4>3
    <3> QED BY <3>1, <3>2
  <2>2. \A U \in SUBSET T : U # {} => U \ {Chosen(U)} \in SUBSET T /\ U \ {Chosen(U)} # T
    BY ChosenProperties
  <2> HIDE DEF H
  <2>3. \A U \in SUBSET T : U # {} => F[U \ {Chosen(U)}] = H(U \ {Chosen(U)})
    BY <2>1, <2>2
  <2>4. Tells(F, g, m, T)
    BY <2>3 DEF Tells
  <2> QED BY <2>4
<1> HIDE DEF G
<1>2. \A T \in SUBSET S : T \in G
  BY <1>1, GoodSubsets
<1> QED BY <1>2 DEF G, Table

\* The sum over the empty set, and over any other: a chosen element and the rest.
LEMMA SumChosen ==
  ASSUME NEW g, NEW m, NEW S, IsFiniteSet(S)
  PROVE  /\ SumOver(g, m, {}) = 0
         /\ S # {} => SumOver(g, m, S) = g[Chosen(S)][m] + SumOver(g, m, S \ {Chosen(S)})
<1>1. \A T \in SUBSET S : Tells(Table(g, m, T), g, m, T) /\ IsFiniteSet(T)
  BY TableTells, FS_Subset
<1>2. SumOver(g, m, {}) = 0
  BY <1>1, SumDef, TellsProperties
<1>3. CASE S # {}
  <2> DEFINE R == S \ {Chosen(S)}
  <2>1. Table(g, m, S)[S] = g[Chosen(S)][m] + Table(g, m, S)[R]
    BY <1>1, <1>3, TellsProperties
  <2>2. Table(g, m, S)[R] = Table(g, m, R)[R]
    <3>1. R \in SUBSET S /\ R \subseteq S /\ S \in SUBSET S
      OBVIOUS
    <3> HIDE DEF R
    <3>2. Tells(Table(g, m, R), g, m, R) /\ Tells(Table(g, m, S), g, m, S) /\ IsFiniteSet(R)
      BY <1>1, <3>1
    <3> QED BY <3>1, <3>2, TablesAgree
  <2> QED BY <1>2, <2>1, <2>2, SumDef
<1> QED BY <1>2, <1>3

\* A sum of numbers is a number.
LEMMA SumType ==
  ASSUME NEW m, NEW S, NEW g, Summable(g, m, S)
  PROVE  \A T \in SUBSET S : SumOver(g, m, T) \in Nat
<1> USE DEF Summable
<1> DEFINE G == {T \in SUBSET S : SumOver(g, m, T) \in Nat}
<1>1. ASSUME NEW T \in SUBSET S, \A U \in SUBSET T : U # T => U \in G
      PROVE  T \in G
  <2>0. IsFiniteSet(T)
    BY FS_Subset
  <2>1. CASE T = {}
    <3>1. SumOver(g, m, {}) = 0
      BY <2>0, SumChosen
    <3> QED BY <2>1, <3>1
  <2>2. CASE T # {}
    <3>1. Chosen(T) \in T
      BY <2>2, ChosenProperties
    <3>2. SumOver(g, m, T \ {Chosen(T)}) \in Nat
      BY <1>1, <3>1
    <3>3. SumOver(g, m, T) = g[Chosen(T)][m] + SumOver(g, m, T \ {Chosen(T)})
      BY <2>0, <2>2, SumChosen
    <3> QED BY <3>1, <3>2, <3>3
  <2> QED BY <2>1, <2>2
<1> HIDE DEF G
<1>2. \A T \in SUBSET S : T \in G
  BY <1>1, GoodSubsets
<1> QED BY <1>2 DEF G

\* Any element can be taken out first.
LEMMA SumTakeOutAll ==
  ASSUME NEW m, NEW S, NEW g, Summable(g, m, S)
  PROVE  \A T \in SUBSET S : \A x \in T : SumOver(g, m, T) = g[x][m] + SumOver(g, m, T \ {x})
<1> USE DEF Summable
<1> DEFINE Out(T) == \A x \in T : SumOver(g, m, T) = g[x][m] + SumOver(g, m, T \ {x})
           G == {T \in SUBSET S : Out(T)}
<1>1. ASSUME NEW T \in SUBSET S, \A U \in SUBSET T : U # T => U \in G
      PROVE  T \in G
  <2> SUFFICES ASSUME NEW x \in T
               PROVE  SumOver(g, m, T) = g[x][m] + SumOver(g, m, T \ {x})
    OBVIOUS
  <2> DEFINE c == Chosen(T)
             R == (T \ {c}) \ {x}
  <2>1. c \in T
    BY ChosenProperties
  <2>2. SumOver(g, m, T) = g[c][m] + SumOver(g, m, T \ {c})
    BY FS_Subset, SumChosen
  <2>3. CASE x = c
    BY <2>2, <2>3
  <2>4. CASE x # c
    <3>1. Out(T \ {c}) /\ Out(T \ {x})
      BY <1>1, <2>1
    <3>2. x \in T \ {c} /\ c \in T \ {x} /\ (T \ {x}) \ {c} = R
      BY <2>1, <2>4
    <3>3. /\ SumOver(g, m, T \ {c}) = g[x][m] + SumOver(g, m, R)
          /\ SumOver(g, m, T \ {x}) = g[c][m] + SumOver(g, m, R)
      BY <3>1, <3>2
    <3>4. SumOver(g, m, R) \in Nat /\ g[x][m] \in Nat /\ g[c][m] \in Nat
      BY <2>1, SumType
    <3> QED BY <2>2, <3>3, <3>4
  <2> QED BY <2>3, <2>4
<1> HIDE DEF G
<1>2. \A T \in SUBSET S : T \in G
  BY <1>1, GoodSubsets
<1> QED BY <1>2 DEF G

LEMMA SumTakeOut ==
  ASSUME NEW m, NEW S, NEW g, Summable(g, m, S), NEW x \in S
  PROVE  SumOver(g, m, S) = g[x][m] + SumOver(g, m, S \ {x})
BY SumTakeOutAll

LEMMA SummableSubset ==
  ASSUME NEW m, NEW S, NEW g, Summable(g, m, S)
  PROVE  \A T \in SUBSET S : Summable(g, m, T)
BY FS_Subset DEF Summable

\* The sum depends on the summands only.
LEMMA SumSame ==
  ASSUME NEW m, NEW S, IsFiniteSet(S), NEW g, NEW h, \A x \in S : g[x][m] = h[x][m]
  PROVE  \A T \in SUBSET S : SumOver(g, m, T) = SumOver(h, m, T)
<1> DEFINE G == {T \in SUBSET S : SumOver(g, m, T) = SumOver(h, m, T)}
<1>1. ASSUME NEW T \in SUBSET S, \A U \in SUBSET T : U # T => U \in G
      PROVE  T \in G
  <2>0. IsFiniteSet(T)
    BY FS_Subset
  <2>1. CASE T = {}
    BY <2>0, <2>1, SumChosen
  <2>2. CASE T # {}
    <3>1. Chosen(T) \in T
      BY <2>2, ChosenProperties
    <3>2. SumOver(g, m, T \ {Chosen(T)}) = SumOver(h, m, T \ {Chosen(T)})
      BY <1>1, <3>1
    <3> QED BY <2>0, <2>2, <3>1, <3>2, SumChosen
  <2> QED BY <2>1, <2>2
<1> HIDE DEF G
<1>2. \A T \in SUBSET S : T \in G
  BY <1>1, GoodSubsets
<1> QED BY <1>2 DEF G

\* A part has no larger sum.
LEMMA SumMonotonic ==
  ASSUME NEW m, NEW S, NEW g, Summable(g, m, S)
  PROVE  \A T \in SUBSET S : SumOver(g, m, T) <= SumOver(g, m, S)
<1>n. \A T \in SUBSET S : SumOver(g, m, T) \in Nat
  BY SumType DEF Summable
<1> USE DEF Summable
<1> DEFINE G == {T \in SUBSET S : \A U \in SUBSET T : SumOver(g, m, U) <= SumOver(g, m, T)}
<1>1. ASSUME NEW T \in SUBSET S, \A U \in SUBSET T : U # T => U \in G
      PROVE  T \in G
  <2> SUFFICES ASSUME NEW U \in SUBSET T
               PROVE  SumOver(g, m, U) <= SumOver(g, m, T)
    OBVIOUS
  <2>1. CASE U = T
    BY <1>n, <2>1
  <2>2. CASE U # T
    <3>1. PICK x \in T : x \notin U
      BY <2>2
    <3>2. T \ {x} \in SUBSET T /\ T \ {x} # T /\ U \in SUBSET (T \ {x})
      BY <3>1
    <3>3. SumOver(g, m, U) <= SumOver(g, m, T \ {x})
      BY <1>1, <3>2
    <3>4. SumOver(g, m, T) = g[x][m] + SumOver(g, m, T \ {x})
      BY SumTakeOut, SummableSubset
    <3>5. g[x][m] \in Nat /\ SumOver(g, m, T \ {x}) \in Nat /\ SumOver(g, m, U) \in Nat
      BY <1>n
    <3> QED BY <3>3, <3>4, <3>5
  <2> QED BY <2>1, <2>2
<1> HIDE DEF G
<1>2. S \in G
  BY <1>1, GoodSubsets
<1> QED BY <1>2 DEF G

\* A sum is at most its number of summands times the largest.
LEMMA SumBound ==
  ASSUME NEW m, NEW S, NEW g, Summable(g, m, S),
         NEW b \in Nat, \A x \in S : g[x][m] <= b
  PROVE  SumOver(g, m, S) <= Cardinality(S) * b
<1> USE DEF Summable
<1> DEFINE G == {T \in SUBSET S : SumOver(g, m, T) <= Cardinality(T) * b}
<1>1. ASSUME NEW T \in SUBSET S, \A U \in SUBSET T : U # T => U \in G
      PROVE  T \in G
  <2>0. IsFiniteSet(T)
    BY FS_Subset
  <2>1. CASE T = {}
    <3>1. SumOver(g, m, {}) = 0 /\ Cardinality({}) = 0
      BY <2>0, SumChosen, FS_EmptySet
    <3> QED BY <2>1, <3>1
  <2>2. CASE T # {}
    <3> DEFINE x == Chosen(T)
               R == T \ {x}
    <3>1. x \in T /\ R \in SUBSET T /\ R # T
      BY <2>2, ChosenProperties
    <3>2. SumOver(g, m, R) <= Cardinality(R) * b
      BY <1>1, <3>1
    <3>3. SumOver(g, m, T) = g[x][m] + SumOver(g, m, R)
      BY <2>0, <2>2, SumChosen
    <3>4. Cardinality(T) = Cardinality(R) + 1 /\ Cardinality(R) \in Nat
      <4>1. Cardinality(R) = Cardinality(T) - 1 /\ IsFiniteSet(R)
        BY <2>0, <3>1, FS_RemoveElement
      <4> QED BY <2>0, <4>1, FS_CardinalityType
    <3>5. g[x][m] \in Nat /\ g[x][m] <= b /\ SumOver(g, m, R) \in Nat
      BY <3>1, SumType
    <3> HIDE DEF x, R
    <3>6. (Cardinality(R) + 1) * b = Cardinality(R) * b + b /\ Cardinality(R) * b \in Nat
      BY <3>4
    <3> QED BY <3>2, <3>3, <3>4, <3>5, <3>6
  <2> QED BY <2>1, <2>2
<1> HIDE DEF G
<1>2. S \in G
  BY <1>1, GoodSubsets
<1> QED BY <1>2 DEF G
----
(***************************************************************************)
(* The counters and the orders under way.                                  *)
(***************************************************************************)
RecordingThreads == {t \in Threads : pc[t] = "record"}

TheLimit(m) == DailyMax[m] + (Cardinality(Threads) - 1) * OrderMax[m]

DayIsPast == day <= today

OrdersAreLimited == \A t \in Threads, m \in Measures : order[t][m] <= OrderMax[m]

\* What is counted and what is under way are within the limit of an overrun.
RoomForAll == \A m \in Measures : UsedToday[m] + SumOver(order, m, Threads) <= TheLimit(m)

OverrunInv ==
  /\ TypeOK
  /\ DayIsPast
  /\ IdleHoldsNothing
  /\ FutureIsEmpty
  /\ TradedIsCounted
  /\ OrdersAreLimited
  /\ RoomForAll
  /\ OverrunIsBounded

\* InFlight is such a sum, now and after a step.
LEMMA InFlightIsSum == \A m : InFlight(m) = SumOver(order, m, RecordingThreads)
BY DEF InFlight, SumOver, RecordingThreads

LEMMA InFlightIsSumNext == \A m : InFlight(m)' = SumOver(order', m, RecordingThreads')
BY DEF InFlight, SumOver, RecordingThreads, MapThenSumSet, MapThenFoldSet

LEMMA OrdersSummable ==
  ASSUME TypeOK
  PROVE  \A m \in Measures, S \in SUBSET Threads : Summable(order, m, S)
BY TradingAssumption, FS_Subset DEF TypeOK, Summable

LEMMA OrdersSummableNext ==
  ASSUME TypeOK'
  PROVE  \A m \in Measures, S \in SUBSET Threads : Summable(order', m, S)
BY TradingAssumption, FS_Subset DEF TypeOK, Summable

LEMMA LimitType ==
  ASSUME NEW m \in Measures
  PROVE  /\ TheLimit(m) \in Nat /\ DailyMax[m] \in Nat /\ OrderMax[m] \in Nat
         /\ (Cardinality(Threads) - 1) * OrderMax[m] \in Nat
<1>1. Cardinality(Threads) \in Nat \ {0}
  BY TradingAssumption, FS_CardinalityType, FS_EmptySet
<1>2. DailyMax[m] \in Nat /\ OrderMax[m] \in Nat
  BY TradingAssumption
<1> QED BY <1>1, <1>2 DEF TheLimit

\* The summands of a step that changes the order of one thread.
LEMMA OthersSumSame ==
  ASSUME TypeOK, TypeOK', NEW t \in Threads, \A u \in Threads : u # t => order'[u] = order[u],
         NEW m \in Measures, NEW S \in SUBSET Threads, t \notin S
  PROVE  SumOver(order', m, S) = SumOver(order, m, S)
<1>1. IsFiniteSet(S) /\ \A u \in S : order'[u][m] = order[u][m]
  BY TradingAssumption, FS_Subset
<1> QED BY <1>1, SumSame

LEMMA AllButOne ==
  ASSUME TypeOK, TypeOK', NEW t \in Threads, \A u \in Threads : u # t => order'[u] = order[u],
         NEW m \in Measures
  PROVE  LET rest == SumOver(order, m, Threads \ {t})
         IN  /\ rest \in Nat
             /\ SumOver(order, m, Threads) = order[t][m] + rest
             /\ SumOver(order', m, Threads) = order'[t][m] + rest
<1>1. Summable(order, m, Threads) /\ Summable(order', m, Threads)
  BY OrdersSummable, OrdersSummableNext
<1>2. SumOver(order', m, Threads \ {t}) = SumOver(order, m, Threads \ {t})
  BY OthersSumSame
<1>3. SumOver(order, m, Threads \ {t}) \in Nat
  BY <1>1, SumType
<1> QED BY <1>1, <1>2, <1>3, SumTakeOut

\* Threads without t hold at most one order each.
LEMMA RestIsLimited ==
  ASSUME OverrunInv, NEW t \in Threads, NEW m \in Measures
  PROVE  SumOver(order, m, Threads \ {t}) <= (Cardinality(Threads) - 1) * OrderMax[m]
<1> DEFINE S == Threads \ {t}
<1>1. Summable(order, m, S) /\ \A u \in S : order[u][m] <= OrderMax[m]
  BY OrdersSummable DEF OverrunInv, OrdersAreLimited
<1>2. Cardinality(S) = Cardinality(Threads) - 1
  BY TradingAssumption, FS_RemoveElement
<1>3. OrderMax[m] \in Nat
  BY LimitType
<1> HIDE DEF S
<1>4. SumOver(order, m, S) <= Cardinality(S) * OrderMax[m]
  BY <1>1, <1>3, SumBound
<1> QED BY <1>2, <1>4 DEF S

\* What is traded and not counted is in the hands of a thread, so the room for all is
\* room for what is traded.
LEMMA RoomIsEnough ==
  TypeOK /\ TradedIsCounted /\ RoomForAll => \A m \in Measures : placed[today][m] <= TheLimit(m)
<1> SUFFICES ASSUME TypeOK, TradedIsCounted, RoomForAll, NEW m \in Measures
             PROVE  placed[today][m] <= TheLimit(m)
  OBVIOUS
<1>1. RecordingThreads \in SUBSET Threads /\ Threads \in SUBSET Threads
  BY DEF RecordingThreads
<1>2. Summable(order, m, Threads)
  BY <1>1, OrdersSummable
<1>3. SumOver(order, m, RecordingThreads) <= SumOver(order, m, Threads)
  BY <1>1, <1>2, SumMonotonic
<1>4. SumOver(order, m, RecordingThreads) \in Nat /\ SumOver(order, m, Threads) \in Nat
  BY <1>1, <1>2, SumType
<1>5. placed[today][m] <= UsedToday[m] + SumOver(order, m, RecordingThreads)
  BY InFlightIsSum DEF TradedIsCounted
<1>6. UsedToday[m] + SumOver(order, m, Threads) <= TheLimit(m)
  BY DEF RoomForAll
<1>7. placed[today][m] \in Nat /\ UsedToday[m] \in Nat /\ TheLimit(m) \in Nat
  BY UsedTodayType, LimitType DEF TypeOK
<1> QED BY <1>3, <1>4, <1>5, <1>6, <1>7

\* The step of one thread, told by what it does to the sums.
LEMMA SumsKeep ==
  ASSUME OverrunInv, TypeOK', UNCHANGED today, DayIsPast', IdleHoldsNothing', FutureIsEmpty',
         OrdersAreLimited',
         \A d \in Days : d # today => placed'[d] = placed[d],
         \A m \in Measures : placed'[today][m] <= UsedToday'[m] + SumOver(order', m, RecordingThreads'),
         \A m \in Measures : UsedToday'[m] + SumOver(order', m, Threads) <= TheLimit(m)
  PROVE  OverrunInv'
<1>1. TradedIsCounted'
  BY InFlightIsSumNext DEF TradedIsCounted
<1>2. RoomForAll'
  BY DEF RoomForAll, TheLimit
<1>3. (\A m \in Measures : placed[today][m] <= TheLimit(m))'
  BY <1>1, <1>2, RoomIsEnough, PTL
<1>4. OverrunIsBounded'
  BY <1>3 DEF OverrunIsBounded, OverrunInv, TheLimit
<1> QED BY <1>1, <1>2, <1>4 DEF OverrunInv

LEMMA CheckOrderKeepsAll ==
  ASSUME OverrunInv, TypeOK', NEW t \in Threads, NEW o \in Orders, CheckOrder(t, o)
  PROVE  OverrunInv'
<1> USE DEF OverrunInv
<1>o. o \in [Measures -> Nat] /\ \A m \in Measures : o[m] <= OrderMax[m]
  BY TradingAssumption DEF CheckOrder, WithinOrderLimits
<1>u. UsedToday \in [Measures -> Nat] /\ UsedToday' = UsedToday
  BY UsedTodayType DEF CheckOrder, UsedToday, Nothing
<1>i. /\ today' = today /\ placed' = placed
      /\ \A u \in Threads : u # t => pc'[u] = pc[u] /\ order'[u] = order[u]
      /\ pc[t] = "idle" /\ pc'[t] \in {"idle", "call"}
      /\ \/ pc'[t] = "idle" /\ order'[t] = order[t]
         \/ pc'[t] = "call" /\ order'[t] = o /\ Fits(o)
  BY DEF CheckOrder, TypeOK
<1>1. DayIsPast' /\ FutureIsEmpty'
  BY <1>i DEF CheckOrder, DayIsPast, FutureIsEmpty, Nothing, TypeOK
<1>2. IdleHoldsNothing'
  BY <1>i DEF IdleHoldsNothing, Nothing
<1>3. OrdersAreLimited'
  BY <1>i, <1>o DEF OrdersAreLimited
<1>r. RecordingThreads' = RecordingThreads /\ t \notin RecordingThreads /\ RecordingThreads \in SUBSET Threads
  BY <1>i DEF RecordingThreads
<1>4. ASSUME NEW m \in Measures
      PROVE  placed'[today][m] <= UsedToday'[m] + SumOver(order', m, RecordingThreads')
  <2>1. SumOver(order', m, RecordingThreads) = SumOver(order, m, RecordingThreads)
    BY <1>i, <1>r, OthersSumSame
  <2>2. placed[today][m] <= UsedToday[m] + SumOver(order, m, RecordingThreads)
    BY InFlightIsSum DEF TradedIsCounted
  <2> QED BY <1>i, <1>u, <1>r, <2>1, <2>2
<1>5. ASSUME NEW m \in Measures
      PROVE  UsedToday'[m] + SumOver(order', m, Threads) <= TheLimit(m)
  <2> DEFINE rest == SumOver(order, m, Threads \ {t})
  <2>1. /\ rest \in Nat
        /\ SumOver(order, m, Threads) = order[t][m] + rest
        /\ SumOver(order', m, Threads) = order'[t][m] + rest
    BY <1>i, AllButOne
  <2>2. UsedToday[m] + SumOver(order, m, Threads) <= TheLimit(m)
    BY DEF RoomForAll
  <2>3. rest <= (Cardinality(Threads) - 1) * OrderMax[m]
    BY RestIsLimited
  <2>4. UsedToday[m] \in Nat /\ o[m] \in Nat /\ order[t][m] \in Nat
    BY <1>o, <1>u DEF TypeOK
  <2> HIDE DEF rest
  <2>5. CASE order'[t] = order[t]
    BY <1>u, <2>1, <2>2, <2>5
  <2>6. CASE order'[t] = o /\ Fits(o)
    <3>1. UsedToday[m] + o[m] <= DailyMax[m]
      BY <2>6 DEF Fits
    <3> DEFINE k == (Cardinality(Threads) - 1) * OrderMax[m]
    <3>2. TheLimit(m) = DailyMax[m] + k /\ k \in Nat /\ DailyMax[m] \in Nat
      BY LimitType DEF TheLimit
    <3> HIDE DEF k
    <3>3. UsedToday[m] + (o[m] + rest) <= DailyMax[m] + k
      <4>1. rest <= k
        BY <2>3 DEF k
      <4> QED BY <2>1, <2>4, <3>1, <3>2, <4>1
    <3> QED BY <1>u, <2>1, <2>6, <3>2, <3>3
  <2> QED BY <1>i, <2>5, <2>6
<1> QED BY <1>i, <1>1, <1>2, <1>3, <1>4, <1>5, SumsKeep

LEMMA CancelKeepsAll ==
  ASSUME OverrunInv, TypeOK', NEW t \in Threads, Cancel(t)
  PROVE  OverrunInv'
<1> USE DEF OverrunInv
<1>i. /\ today' = today /\ placed' = placed /\ order' = order /\ day' = day
      /\ \A u \in Threads : u # t => pc'[u] = pc[u]
      /\ pc[t] = "idle" /\ pc'[t] = "call"
  BY DEF Cancel, TypeOK
<1>u. UsedToday' = UsedToday
  BY DEF Cancel, UsedToday, Nothing
<1>1. DayIsPast' /\ FutureIsEmpty' /\ OrdersAreLimited'
  BY <1>i DEF DayIsPast, FutureIsEmpty, OrdersAreLimited, Nothing
<1>2. IdleHoldsNothing'
  BY <1>i DEF IdleHoldsNothing, Nothing
<1>3. RecordingThreads' = RecordingThreads
  BY <1>i DEF RecordingThreads
<1>4. \A m \in Measures : placed'[today][m] <= UsedToday'[m] + SumOver(order', m, RecordingThreads')
  BY <1>i, <1>u, <1>3, InFlightIsSum DEF TradedIsCounted
<1>5. \A m \in Measures : UsedToday'[m] + SumOver(order', m, Threads) <= TheLimit(m)
  BY <1>i, <1>u DEF RoomForAll
<1> QED BY <1>i, <1>1, <1>2, <1>4, <1>5, SumsKeep

LEMMA CallKeepsAll ==
  ASSUME OverrunInv, TypeOK', NEW t \in Threads, CallXtquant(t)
  PROVE  OverrunInv'
<1> USE DEF OverrunInv
<1>u. UsedToday \in [Measures -> Nat] /\ UsedToday' = UsedToday
  BY UsedTodayType DEF CallXtquant, UsedToday, Nothing
<1>i. /\ today' = today /\ day' = day
      /\ \A u \in Threads : u # t => pc'[u] = pc[u] /\ order'[u] = order[u]
      /\ pc[t] = "call"
      /\ \/ pc'[t] = "record" /\ order'[t] = order[t]
         \/ pc'[t] = "idle" /\ order'[t] = Nothing /\ placed' = placed
  BY DEF CallXtquant, TypeOK
<1>q. \/ placed' = placed
      \/ placed' = [placed EXCEPT ![today] = Plus(placed[today], order[t])]
  BY DEF CallXtquant
<1>p. /\ \A d \in Days : d # today => placed'[d] = placed[d]
      /\ \A m \in Measures : placed'[today][m] \in {placed[today][m], placed[today][m] + order[t][m]}
  BY <1>q DEF TypeOK, Plus
<1>1. DayIsPast' /\ FutureIsEmpty'
  BY <1>i, <1>p DEF DayIsPast, FutureIsEmpty, Nothing, TypeOK
<1>2. IdleHoldsNothing'
  BY <1>i DEF IdleHoldsNothing, Nothing
<1>3. OrdersAreLimited'
  <2>1. \A m \in Measures : Nothing[m] <= OrderMax[m]
    BY TradingAssumption DEF Nothing
  <2> QED BY <1>i, <2>1 DEF OrdersAreLimited
<1>s. ASSUME NEW m \in Measures
      PROVE  /\ placed[today][m] <= UsedToday[m] + SumOver(order, m, RecordingThreads)
             /\ placed[today][m] \in Nat /\ UsedToday[m] \in Nat /\ order[t][m] \in Nat
             /\ SumOver(order, m, RecordingThreads) \in Nat
  <2>1. RecordingThreads \in SUBSET Threads /\ Summable(order, m, Threads)
    BY OrdersSummable DEF RecordingThreads
  <2> QED BY <1>u, <2>1, InFlightIsSum, SumType DEF TradedIsCounted, TypeOK
<1>4. ASSUME NEW m \in Measures
      PROVE  placed'[today][m] <= UsedToday'[m] + SumOver(order', m, RecordingThreads')
  <2>1. CASE pc'[t] = "record"
    <3>1. RecordingThreads' \ {t} = RecordingThreads /\ t \in RecordingThreads'
          /\ RecordingThreads' \in SUBSET Threads /\ t \notin RecordingThreads
      BY <1>i, <2>1 DEF RecordingThreads
    <3>2. SumOver(order', m, RecordingThreads') = order'[t][m] + SumOver(order', m, RecordingThreads)
      BY <3>1, OrdersSummableNext, SumTakeOut
    <3>3. SumOver(order', m, RecordingThreads) = SumOver(order, m, RecordingThreads)
      BY <1>i, <3>1, OthersSumSame
    <3> QED BY <1>i, <1>u, <1>p, <1>s, <2>1, <3>2, <3>3
  <2>2. CASE pc'[t] = "idle"
    <3>1. RecordingThreads' = RecordingThreads /\ t \notin RecordingThreads
          /\ RecordingThreads \in SUBSET Threads
      BY <1>i, <2>2 DEF RecordingThreads
    <3>2. SumOver(order', m, RecordingThreads) = SumOver(order, m, RecordingThreads)
      BY <1>i, <3>1, OthersSumSame
    <3> QED BY <1>i, <1>u, <1>s, <2>2, <3>1, <3>2
  <2> QED BY <1>i, <2>1, <2>2
<1>5. ASSUME NEW m \in Measures
      PROVE  UsedToday'[m] + SumOver(order', m, Threads) <= TheLimit(m)
  <2> DEFINE rest == SumOver(order, m, Threads \ {t})
  <2>1. /\ rest \in Nat
        /\ SumOver(order, m, Threads) = order[t][m] + rest
        /\ SumOver(order', m, Threads) = order'[t][m] + rest
    BY <1>i, AllButOne
  <2>2. UsedToday[m] + SumOver(order, m, Threads) <= TheLimit(m) /\ TheLimit(m) \in Nat
    BY LimitType DEF RoomForAll
  <2>3. order'[t][m] = order[t][m] \/ order'[t][m] = 0
    BY <1>i DEF Nothing
  <2> HIDE DEF rest
  <2> QED BY <1>s, <1>u, <2>1, <2>2, <2>3
<1> QED BY <1>i, <1>p, <1>1, <1>2, <1>3, <1>4, <1>5, SumsKeep

LEMMA RecordKeepsAll ==
  ASSUME OverrunInv, TypeOK', NEW t \in Threads, RecordOrder(t)
  PROVE  OverrunInv'
<1> USE DEF OverrunInv
<1>i. /\ today' = today /\ placed' = placed /\ day' = today
      /\ \A u \in Threads : u # t => pc'[u] = pc[u] /\ order'[u] = order[u]
      /\ pc[t] = "record" /\ pc'[t] = "idle" /\ order'[t] = Nothing
  BY DEF RecordOrder, TypeOK
<1>u. \A m \in Measures : UsedToday'[m] = UsedToday[m] + order[t][m]
  BY DEF RecordOrder, UsedToday, Plus
<1>n. \A m \in Measures : /\ UsedToday[m] \in Nat /\ order[t][m] \in Nat /\ order'[t][m] = 0
                          /\ placed[today][m] \in Nat
  <2>1. \A m \in Measures : UsedToday[m] \in Nat
    BY UsedTodayType
  <2>2. \A m \in Measures : order'[t][m] = 0
    BY <1>i DEF Nothing
  <2>3. \A m \in Measures : order[t][m] \in Nat /\ placed[today][m] \in Nat
    BY DEF TypeOK
  <2> QED BY <2>1, <2>2, <2>3
<1>1. DayIsPast' /\ FutureIsEmpty'
  BY <1>i DEF DayIsPast, FutureIsEmpty, Nothing, TypeOK
<1>2. IdleHoldsNothing'
  BY <1>i DEF IdleHoldsNothing, Nothing
<1>3. OrdersAreLimited'
  <2>1. \A m \in Measures : Nothing[m] <= OrderMax[m]
    BY TradingAssumption DEF Nothing
  <2> QED BY <1>i, <2>1 DEF OrdersAreLimited
<1>4. ASSUME NEW m \in Measures
      PROVE  placed'[today][m] <= UsedToday'[m] + SumOver(order', m, RecordingThreads')
  <2>1. RecordingThreads \ {t} = RecordingThreads' /\ t \in RecordingThreads
        /\ RecordingThreads \in SUBSET Threads /\ RecordingThreads' \in SUBSET Threads
        /\ t \notin RecordingThreads'
    BY <1>i DEF RecordingThreads
  <2>2. SumOver(order, m, RecordingThreads) = order[t][m] + SumOver(order, m, RecordingThreads')
    BY <2>1, OrdersSummable, SumTakeOut
  <2>3. SumOver(order', m, RecordingThreads') = SumOver(order, m, RecordingThreads')
    BY <1>i, <2>1, OthersSumSame
  <2>4. SumOver(order, m, RecordingThreads') \in Nat
    BY <2>1, OrdersSummable, SumType
  <2>5. placed[today][m] <= UsedToday[m] + SumOver(order, m, RecordingThreads)
    BY InFlightIsSum DEF TradedIsCounted
  <2> QED BY <1>i, <1>u, <1>n, <2>2, <2>3, <2>4, <2>5
<1>5. ASSUME NEW m \in Measures
      PROVE  UsedToday'[m] + SumOver(order', m, Threads) <= TheLimit(m)
  <2>1. /\ SumOver(order, m, Threads \ {t}) \in Nat
        /\ SumOver(order, m, Threads) = order[t][m] + SumOver(order, m, Threads \ {t})
        /\ SumOver(order', m, Threads) = order'[t][m] + SumOver(order, m, Threads \ {t})
    BY <1>i, AllButOne
  <2>2. UsedToday[m] + SumOver(order, m, Threads) <= TheLimit(m)
    BY DEF RoomForAll
  <2> QED BY <1>u, <1>n, <2>1, <2>2
<1> QED BY <1>i, <1>1, <1>2, <1>3, <1>4, <1>5, SumsKeep

LEMMA MidnightKeepsAll ==
  ASSUME OverrunInv, TypeOK', Midnight
  PROVE  OverrunInv'
<1> USE DEF OverrunInv
<1>i. /\ today \in Nat /\ today' = today + 1 /\ day' = day /\ day \in Nat
      /\ placed' = placed /\ order' = order /\ pc' = pc /\ today' \in Days
  BY DEF Midnight, TypeOK
<1>u. \A m \in Measures : UsedToday'[m] = 0 /\ UsedToday[m] \in Nat /\ placed'[today'][m] = 0
  <2>1. day' # today'
    BY <1>i DEF DayIsPast
  <2> QED BY <1>i, <2>1, UsedTodayType DEF UsedToday, Nothing, FutureIsEmpty
<1>n. /\ RecordingThreads' = RecordingThreads
      /\ \A m \in Measures : /\ SumOver(order, m, RecordingThreads) \in Nat
                             /\ SumOver(order, m, Threads) \in Nat
  <2>1. RecordingThreads \in SUBSET Threads /\ \A m \in Measures : Summable(order, m, Threads)
    BY OrdersSummable DEF RecordingThreads
  <2> QED BY <1>i, <2>1, SumType DEF RecordingThreads
<1>1. DayIsPast' /\ IdleHoldsNothing' /\ OrdersAreLimited' /\ OverrunIsBounded'
  BY <1>i DEF DayIsPast, IdleHoldsNothing, OrdersAreLimited, OverrunIsBounded, Nothing
<1>2. FutureIsEmpty'
  BY <1>i DEF FutureIsEmpty, Nothing
<1>3. TradedIsCounted'
  BY <1>i, <1>u, <1>n, InFlightIsSumNext DEF TradedIsCounted
<1>4. RoomForAll'
  <2> SUFFICES ASSUME NEW m \in Measures
               PROVE  UsedToday'[m] + SumOver(order', m, Threads) <= TheLimit(m)
    BY DEF RoomForAll, TheLimit
  <2>1. UsedToday[m] + SumOver(order, m, Threads) <= TheLimit(m) /\ TheLimit(m) \in Nat
    BY LimitType DEF RoomForAll
  <2> QED BY <1>i, <1>u, <1>n, <2>1
<1> QED BY <1>1, <1>2, <1>3, <1>4

LEMMA OverrunInvInit == Init => OverrunInv
<1> SUFFICES ASSUME Init PROVE OverrunInv
  OBVIOUS
<1>t. TypeOK
  BY TypeInit
<1>s. \A m \in Measures : /\ SumOver(order, m, Threads) = 0
                          /\ SumOver(order, m, RecordingThreads) = 0
  <2> SUFFICES ASSUME NEW m \in Measures
               PROVE  /\ SumOver(order, m, Threads) = 0
                      /\ SumOver(order, m, RecordingThreads) = 0
    OBVIOUS
  <2>1. RecordingThreads = {}
    BY DEF Init, RecordingThreads
  <2>2. Summable(order, m, Threads) /\ \A t \in Threads : order[t][m] <= 0
    BY <1>t, OrdersSummable DEF Init, Nothing
  <2>3. SumOver(order, m, Threads) <= Cardinality(Threads) * 0
    BY <2>2, SumBound
  <2>4. SumOver(order, m, Threads) \in Nat /\ Cardinality(Threads) \in Nat
    BY <2>2, TradingAssumption, SumType, FS_CardinalityType
  <2>5. SumOver(order, m, {}) = 0
    BY TradingAssumption, SumChosen
  <2> QED BY <2>1, <2>3, <2>4, <2>5
<1>u. \A m \in Measures : UsedToday[m] = 0 /\ \A d \in Days : placed[d][m] = 0
  BY DEF Init, UsedToday, Nothing
<1>1. DayIsPast /\ IdleHoldsNothing /\ FutureIsEmpty
  BY DEF Init, DayIsPast, IdleHoldsNothing, FutureIsEmpty
<1>2. OrdersAreLimited
  BY TradingAssumption DEF Init, OrdersAreLimited, Nothing
<1>3. TradedIsCounted
  BY <1>s, <1>u, <1>t, InFlightIsSum DEF TradedIsCounted, TypeOK
<1>4. RoomForAll /\ OverrunIsBounded
  BY <1>s, <1>u, LimitType DEF RoomForAll, OverrunIsBounded, TheLimit
<1> QED BY <1>t, <1>1, <1>2, <1>3, <1>4 DEF OverrunInv

LEMMA OverrunStep == OverrunInv /\ [Next]_vars => OverrunInv'
<1> SUFFICES ASSUME OverrunInv, [Next]_vars PROVE OverrunInv'
  OBVIOUS
<1>t. TypeOK'
  BY TypeStep DEF OverrunInv
<1>1. ASSUME NEW t \in Threads, NEW o \in Orders, CheckOrder(t, o) PROVE OverrunInv'
  BY <1>1, <1>t, CheckOrderKeepsAll
<1>2. ASSUME NEW t \in Threads, Cancel(t) PROVE OverrunInv'
  BY <1>2, <1>t, CancelKeepsAll
<1>3. ASSUME NEW t \in Threads, CallXtquant(t) PROVE OverrunInv'
  BY <1>3, <1>t, CallKeepsAll
<1>4. ASSUME NEW t \in Threads, RecordOrder(t) PROVE OverrunInv'
  BY <1>4, <1>t, RecordKeepsAll
<1>5. CASE Midnight
  BY <1>5, <1>t, MidnightKeepsAll
<1>6. CASE UNCHANGED vars
  <2>1. UNCHANGED <<UsedToday, RecordingThreads>>
    BY <1>6 DEF vars, UsedToday, Nothing, RecordingThreads
  <2>2. /\ today' = today /\ DayIsPast' /\ IdleHoldsNothing' /\ FutureIsEmpty' /\ OrdersAreLimited'
        /\ order' = order /\ placed' = placed
    BY <1>6 DEF vars, OverrunInv, DayIsPast, IdleHoldsNothing, FutureIsEmpty, OrdersAreLimited, Nothing
  <2>3. \A m \in Measures : placed'[today][m] <= UsedToday'[m] + SumOver(order', m, RecordingThreads')
    BY <2>1, <2>2, InFlightIsSum DEF OverrunInv, TradedIsCounted
  <2>4. \A m \in Measures : UsedToday'[m] + SumOver(order', m, Threads) <= TheLimit(m)
    BY <2>1, <2>2 DEF OverrunInv, RoomForAll
  <2> QED BY <1>t, <2>2, <2>3, <2>4, SumsKeep
<1> QED BY <1>1, <1>2, <1>3, <1>4, <1>5, <1>6 DEF Next

(***************************************************************************)
(* No order slips past the counters, whatever threads overlap, fail or     *)
(* wait over midnight: what was placed today is counted or in the hands of *)
(* a thread that will count it.                                            *)
(***************************************************************************)
THEOREM TradedIsCountedHolds == Spec => []TradedIsCounted
<1>1. OverrunInv => TradedIsCounted
  BY DEF OverrunInv
<1> QED BY <1>1, OverrunInvInit, OverrunStep, PTL DEF Spec

(***************************************************************************)
(* With any number of threads a day exceeds its limit at most by the       *)
(* largest order for each other thread.                                    *)
(***************************************************************************)
THEOREM OverrunBounded == Spec => []OverrunIsBounded
<1>1. OverrunInv => OverrunIsBounded
  BY DEF OverrunInv
<1> QED BY <1>1, OverrunInvInit, OverrunStep, PTL DEF Spec

----
(***************************************************************************)
(* The endpoint.                                                           *)
(***************************************************************************)

(***************************************************************************)
(* Every step of a request is one of TradingGuard, or changes nothing      *)
(* there.                                                                  *)
(***************************************************************************)
LEMMA DropIsGuarded ==
  ASSUME NEW t \in Threads, pc[t] = "call", Drop(t)
  PROVE  CallXtquant(t)
BY DEF Drop, CallXtquant, history

LEMMA RequestIsGuarded == [RpcNext]_rpcVars => [Next]_vars
<1> SUFFICES ASSUME [RpcNext]_rpcVars PROVE [Next]_vars
  OBVIOUS
<1>1. ASSUME NEW t \in Threads, NEW c \in Calls, Dispatch(t, c) PROVE [Next]_vars
  <2>1. c.order \in Orders
    BY RpcAssumption
  <2>2. CASE PrepareTradingCall(t, c)
    BY <2>1, <2>2 DEF PrepareTradingCall, Next
  <2>3. CASE UNCHANGED vars
    BY <2>3
  <2> QED BY <1>1, <2>2, <2>3 DEF Dispatch, Refuse, DispatchMethod, RefuseTrading, DryRun
<1>2. ASSUME NEW t \in Threads, FindHandler(t) PROVE [Next]_vars
  BY <1>2, DropIsGuarded DEF FindHandler, Next
<1>3. ASSUME NEW t \in Threads, CallHandler(t) PROVE [Next]_vars
  BY <1>3 DEF CallHandler, Next
<1>4. ASSUME NEW t \in Threads, Finish(t) PROVE [Next]_vars
  BY <1>4 DEF Finish, Next
<1>5. ASSUME NEW t \in Threads, RecordAudit(t) PROVE [Next]_vars
  BY <1>5 DEF RecordAudit
<1>6. CASE NextDay
  BY <1>6 DEF NextDay, Next
<1>7. CASE UNCHANGED rpcVars
  BY <1>7 DEF rpcVars
<1> QED BY <1>1, <1>2, <1>3, <1>4, <1>5, <1>6, <1>7 DEF RpcNext

(***************************************************************************)
(* The endpoint implements TradingGuard.                                   *)
(***************************************************************************)
THEOREM GuardKept == RpcSpec => GuardIsKept
<1>1. RpcInit => Init
  BY DEF RpcInit
<1>2. [RpcNext]_rpcVars => [Next]_vars
  BY RequestIsGuarded
<1> QED BY <1>1, <1>2, PTL DEF RpcSpec, GuardIsKept, Spec

(***************************************************************************)
(* Whatever the settings and the requests, the daily limits hold for       *)
(* orders that do not overlap.                                             *)
(***************************************************************************)
THEOREM EndpointKeepsDailyLimit == RpcSpec => []DailyLimit
<1>1. RpcSpec => Spec
  BY GuardKept DEF GuardIsKept
<1> QED BY <1>1, DailyLimitHolds, PTL

(***************************************************************************)
(* Orders that do overlap at the endpoint exceed a daily limit at most by  *)
(* the largest order for each other thread.                                *)
(***************************************************************************)
THEOREM EndpointOverrunBounded == RpcSpec => []OverrunIsBounded
<1>1. RpcSpec => Spec
  BY GuardKept DEF GuardIsKept
<1> QED BY <1>1, OverrunBounded, PTL
----
(***************************************************************************)
(* The types.                                                              *)
(***************************************************************************)
LEMMA RpcTypeInit == RpcInit => RpcTypeOK
BY TypeInit DEF RpcInit, RpcTypeOK, Levels

LEMMA DecisionType == ASSUME NEW c PROVE Decision(c).level \in Levels
BY DEF Decision, MethodSpec, TransparentMethodDecision, Verdict, Levels

LEMMA RpcTypeStep == RpcTypeOK /\ [RpcNext]_rpcVars => RpcTypeOK'
<1> SUFFICES ASSUME RpcTypeOK, [RpcNext]_rpcVars PROVE RpcTypeOK'
  OBVIOUS
<1>t. TypeOK'
  BY RequestIsGuarded, TypeStep DEF RpcTypeOK
<1> HIDE DEF TypeOK
<1>1. ASSUME NEW t \in Threads, NEW c \in Calls, Dispatch(t, c) PROVE RpcTypeOK'
  <2>1. Decision(c).level \in Levels
    BY DecisionType
  <2> HIDE DEF Levels
  <2>2. /\ call' = [call EXCEPT ![t] = {c}]
        /\ level' = [level EXCEPT ![t] = Decision(c).level]
        /\ UNCHANGED <<settings, real, took>>
    BY <1>1 DEF Dispatch, Refuse, DispatchMethod, RefuseTrading, DryRun, PrepareTradingCall, Admit, Arrive
  <2>3. /\ \/ step' = [step EXCEPT ![t] = "find"] /\ UNCHANGED ok
           \/ step' = [step EXCEPT ![t] = "audit"] /\ \E b \in BOOLEAN : ok' = [ok EXCEPT ![t] = b]
        /\ \/ UNCHANGED <<dry, detailed>>
           \/ /\ \E d \in {"yes", "no"} : dry' = [dry EXCEPT ![t] = d]
              /\ detailed' = [detailed EXCEPT ![t] = TRUE]
    BY <1>1 DEF Dispatch, Refuse, DispatchMethod, RefuseTrading, DryRun, PrepareTradingCall, Settle
  <2>4. step' \in [Threads -> {"idle", "find", "call", "record", "audit"}] /\ ok' \in [Threads -> BOOLEAN]
    BY <2>3 DEF RpcTypeOK
  <2>5. dry' \in [Threads -> {"unset", "yes", "no"}] /\ detailed' \in [Threads -> BOOLEAN]
    <3>1. dry \in [Threads -> {"unset", "yes", "no"}] /\ detailed \in [Threads -> BOOLEAN]
      BY DEF RpcTypeOK
    <3>2. CASE UNCHANGED <<dry, detailed>>
      BY <3>1, <3>2
    <3>3. CASE /\ \E d \in {"yes", "no"} : dry' = [dry EXCEPT ![t] = d]
               /\ detailed' = [detailed EXCEPT ![t] = TRUE]
      BY <3>1, <3>3
    <3> QED BY <2>3, <3>2, <3>3
  <2>6. call' \in [Threads -> SUBSET Calls] /\ level' \in [Threads -> Levels]
    BY <2>1, <2>2 DEF RpcTypeOK
  <2> QED BY <1>t, <2>2, <2>4, <2>5, <2>6 DEF RpcTypeOK
<1>2. ASSUME NEW t \in Threads, FindHandler(t) PROVE RpcTypeOK'
  <2>1. /\ UNCHANGED <<settings, call, level, dry, detailed, took>>
        /\ \E s \in {"call", "audit"} : step' = [step EXCEPT ![t] = s]
        /\ UNCHANGED ok \/ \E b \in BOOLEAN : ok' = [ok EXCEPT ![t] = b]
        /\ UNCHANGED real \/ \E b \in BOOLEAN : real' = [real EXCEPT ![t] = b]
    BY <1>2 DEF FindHandler, Settle
  <2> QED BY <1>t, <2>1 DEF RpcTypeOK
<1>3. ASSUME NEW t \in Threads, CallHandler(t) PROVE RpcTypeOK'
  <2>1. /\ UNCHANGED <<settings, call, level, dry, detailed, real>>
        /\ \E s \in {"record", "audit"} : step' = [step EXCEPT ![t] = s]
        /\ UNCHANGED ok \/ \E b \in BOOLEAN : ok' = [ok EXCEPT ![t] = b]
        /\ UNCHANGED took \/ \E b \in BOOLEAN : took' = [took EXCEPT ![t] = b]
    BY <1>3 DEF CallHandler, Settle
  <2> QED BY <1>t, <2>1 DEF RpcTypeOK
<1>4. ASSUME NEW t \in Threads, Finish(t) PROVE RpcTypeOK'
  <2>1. /\ UNCHANGED <<settings, call, level, dry, detailed, real, took>>
        /\ step' = [step EXCEPT ![t] = "audit"]
        /\ \E b \in BOOLEAN : ok' = [ok EXCEPT ![t] = b]
    BY <1>4 DEF Finish, Settle
  <2> QED BY <1>t, <2>1 DEF RpcTypeOK
<1>5. ASSUME NEW t \in Threads, RecordAudit(t) PROVE RpcTypeOK'
  BY <1>5, <1>t DEF RecordAudit, RpcTypeOK, Levels
<1>6. CASE NextDay
  BY <1>6, <1>t DEF NextDay, RpcTypeOK, state
<1>7. CASE UNCHANGED rpcVars
  BY <1>7, <1>t DEF rpcVars, RpcTypeOK, state
<1> QED BY <1>1, <1>2, <1>3, <1>4, <1>5, <1>6, <1>7 DEF RpcNext
----
(***************************************************************************)
(* What a request is about at each of its steps.  Holds: what the thread   *)
(* has in TradingGuard.  Notes: what the dispatcher has noted for the      *)
(* audit.                                                                  *)
(***************************************************************************)
IsTrading(t) == level[t] = "trading"

Holds(t) ==
  /\ step[t] \in {"find", "call"} => pc[t] = IF IsTrading(t) THEN "call" ELSE "idle"
  /\ step[t] = "record"           => pc[t] = IF IsTrading(t) THEN "record" ELSE "idle"
  /\ step[t] \in {"idle", "audit"} => pc[t] = "idle"
  /\ step[t] \in {"idle", "find", "call"} => ~took[t]
  /\ pc[t] # "idle" \/ took[t] => \A c \in call[t] : Consented(c)

Notes(t) ==
  /\ step[t] = "idle" => dry[t] = "unset" /\ ~detailed[t] /\ ~real[t] /\ ~ok[t]
  /\ step[t] \in {"find", "call", "record"} =>
       IF IsTrading(t) THEN detailed[t] /\ dry[t] = "no" ELSE dry[t] = "unset"
  /\ step[t] = "find" => ~real[t] /\ ~ok[t]
  /\ step[t] \in {"call", "record"} => (real[t] <=> IsTrading(t)) /\ ~ok[t]
  /\ step[t] = "record" => (took[t] => IsTrading(t))
  /\ step[t] = "audit" =>
       /\ took[t] => IsTrading(t) /\ real[t] /\ detailed[t] /\ dry[t] = "no"
       /\ dry[t] = "yes" => ~real[t]
       /\ ok[t] /\ IsTrading(t) => detailed[t] /\ (real[t] <=> dry[t] = "no")

Tracks == \A t \in Threads : Holds(t) /\ Notes(t)

\* A call that passes the checks is one that was consented to.
LEMMA ValidIsConsented ==
  ASSUME NEW c, Decision(c).error = NoError, Decision(c).level = "trading",
         Validate(c) = NoError, ValidateConfirmation(c) = NoError, ~settings.trading_dry_run
  PROVE  Consented(c)
<1>1. settings.enable_trading
  BY DEF Decision, Verdict, NoError
<1>2. c.target = "trader"
  BY DEF Validate, NoError
<1>3. settings.require_trade_confirmation => c.confirmed
  BY DEF ValidateConfirmation, NoError
<1>4. CASE IsOrder(c)
  <2>1. ValidateOrder(c) = NoError
    BY <1>2, <1>4 DEF Validate
  <2>2. ValidateAccount(c) = NoError /\ ValidateSymbol(c) = NoError
    BY <2>1 DEF ValidateOrder, NoError
  <2>3. c.account \in settings.accounts
    BY <2>2 DEF ValidateAccount, NoError
  <2>4. c.symbol \notin settings.blocked /\ (settings.symbols # {} => c.symbol \in settings.symbols)
    BY <2>2 DEF ValidateSymbol, NoError
  <2> QED BY <1>1, <1>2, <1>3, <2>3, <2>4 DEF Consented
<1>5. CASE ~IsOrder(c)
  <2>1. ValidateCancel(c) = NoError
    BY <1>2, <1>5 DEF Validate, NoError
  <2>2. c.account \in settings.accounts
    BY <2>1 DEF ValidateCancel, ValidateAccount, NoError
  <2> QED BY <1>1, <1>2, <1>3, <1>5, <2>2 DEF Consented
<1> QED BY <1>4, <1>5

LEMMA TracksInit == RpcInit => Tracks
BY DEF RpcInit, Init, Tracks, Holds, Notes, IsTrading

\* A step of thread t leaves the other requests alone.
LEMMA OthersTrack ==
  ASSUME Tracks, NEW t \in Threads, UNCHANGED settings,
         \A u \in Threads \ {t} :
           /\ pc'[u] = pc[u] /\ call'[u] = call[u] /\ level'[u] = level[u] /\ dry'[u] = dry[u]
           /\ detailed'[u] = detailed[u] /\ real'[u] = real[u] /\ ok'[u] = ok[u]
           /\ step'[u] = step[u] /\ took'[u] = took[u],
         Holds(t)', Notes(t)'
  PROVE  Tracks'
<1>1. ASSUME NEW u \in Threads \ {t} PROVE (Holds(u) /\ Notes(u))'
  <2>1. Holds(u) /\ Notes(u)
    BY DEF Tracks
  <2>2. Holds(u)'
    BY <2>1 DEF Holds, IsTrading, Consented
  <2>3. Notes(u)'
    BY <2>1 DEF Notes, IsTrading
  <2> QED BY <2>2, <2>3
<1> QED BY <1>1 DEF Tracks

LEMMA TracksStep == RpcTypeOK /\ Tracks /\ [RpcNext]_rpcVars => Tracks'
<1> SUFFICES ASSUME RpcTypeOK, Tracks, [RpcNext]_rpcVars PROVE Tracks'
  OBVIOUS
<1> USE DEF RpcTypeOK, TypeOK
<1>1. ASSUME NEW t \in Threads, NEW c \in Calls, Dispatch(t, c) PROVE Tracks'
  <2>1. /\ step[t] = "idle"
        /\ call' = [call EXCEPT ![t] = {c}]
        /\ level' = [level EXCEPT ![t] = Decision(c).level]
        /\ UNCHANGED <<settings, real, took>>
    BY <1>1 DEF Dispatch, Refuse, DispatchMethod, RefuseTrading, DryRun, PrepareTradingCall, Admit, Arrive
  <2>2. /\ pc[t] = "idle" /\ ~took[t] /\ dry[t] = "unset" /\ ~detailed[t] /\ ~real[t] /\ ~ok[t]
    BY <2>1 DEF Tracks, Holds, Notes
  \* A call that does not trade, or one that is refused.
  <2>3. ASSUME UNCHANGED vars, UNCHANGED <<dry, detailed>>,
               \/ /\ step' = [step EXCEPT ![t] = "find"]
                  /\ UNCHANGED ok
                  /\ Decision(c).level # "trading"
               \/ /\ step' = [step EXCEPT ![t] = "audit"]
                  /\ ok' = [ok EXCEPT ![t] = FALSE]
        PROVE  Tracks'
    <3>1. Holds(t)' /\ Notes(t)'
      BY <2>1, <2>2, <2>3 DEF vars, Holds, Notes, IsTrading
    <3> QED BY <2>1, <2>3, <3>1, OthersTrack DEF vars
  <2>4. CASE DryRun(t, c)
    <3>1. /\ dry' = [dry EXCEPT ![t] = "yes"] /\ detailed' = [detailed EXCEPT ![t] = TRUE]
          /\ ok' = [ok EXCEPT ![t] = TRUE] /\ step' = [step EXCEPT ![t] = "audit"]
          /\ UNCHANGED vars
      BY <2>4 DEF DryRun, Settle
    <3>2. Holds(t)' /\ Notes(t)'
      BY <2>1, <2>2, <3>1, <2>4 DEF vars, Holds, Notes, IsTrading, DryRun, Admit
    <3> QED BY <2>1, <3>1, <3>2, OthersTrack DEF vars
  <2>5. CASE PrepareTradingCall(t, c)
    <3>1. Decision(c).level = "trading" /\ Consented(c)
      BY <2>5, ValidIsConsented DEF PrepareTradingCall, Admit
    <3>2. Consented(c)'
      BY <2>1, <3>1 DEF Consented
    <3> HIDE DEF Consented
    <3>3. CASE pc'[t] = "call"
      <4>1. /\ dry' = [dry EXCEPT ![t] = "no"] /\ detailed' = [detailed EXCEPT ![t] = TRUE]
            /\ step' = [step EXCEPT ![t] = "find"] /\ UNCHANGED ok
        BY <2>5, <3>3 DEF PrepareTradingCall
      <4>2. pc' = [pc EXCEPT ![t] = "call"] \/ pc' = pc
        BY <2>5 DEF PrepareTradingCall, CheckOrder, Cancel
      <4>3. Holds(t)' /\ Notes(t)'
        BY <2>1, <2>2, <3>1, <3>2, <3>3, <4>1 DEF Holds, Notes, IsTrading
      <4> QED BY <2>1, <4>1, <4>2, <4>3, OthersTrack
    <3>4. CASE pc'[t] # "call"
      <4>1. /\ UNCHANGED <<dry, detailed>> /\ step' = [step EXCEPT ![t] = "audit"]
            /\ ok' = [ok EXCEPT ![t] = FALSE]
        BY <2>5, <3>4 DEF PrepareTradingCall, Settle, NoError
      <4>2. pc' = pc
        BY <2>5, <3>4 DEF PrepareTradingCall, CheckOrder, Cancel
      <4>3. Holds(t)' /\ Notes(t)'
        BY <2>1, <2>2, <4>1, <4>2 DEF Holds, Notes, IsTrading
      <4> QED BY <2>1, <4>1, <4>2, <4>3, OthersTrack
    <3> QED BY <3>3, <3>4
  <2>6. CASE Refuse(t, c)
    BY <2>3, <2>6 DEF Refuse, Settle
  <2>7. CASE DispatchMethod(t, c)
    BY <2>3, <2>7 DEF DispatchMethod
  <2>8. CASE RefuseTrading(t, c)
    BY <2>3, <2>8 DEF RefuseTrading, Settle
  <2> QED BY <1>1, <2>4, <2>5, <2>6, <2>7, <2>8 DEF Dispatch
<1>2. ASSUME NEW t \in Threads, FindHandler(t) PROVE Tracks'
  <2>1. step[t] = "find" /\ UNCHANGED <<settings, call, level, dry, detailed, took>>
    BY <1>2 DEF FindHandler
  <2>2. Holds(t) /\ Notes(t)
    BY DEF Tracks
  <2>3. CASE /\ step' = [step EXCEPT ![t] = "call"]
             /\ real' = [real EXCEPT ![t] = (level[t] = "trading")]
             /\ UNCHANGED <<vars, ok>>
    <3>1. Holds(t)' /\ Notes(t)'
      BY <2>1, <2>2, <2>3 DEF vars, Holds, Notes, IsTrading, Consented
    <3> QED BY <2>1, <2>3, <3>1, OthersTrack DEF vars
  <2>4. CASE /\ Settle(t, "TARGET_NOT_CONNECTED")
             /\ IF pc[t] = "call" THEN Drop(t) ELSE UNCHANGED vars
             /\ UNCHANGED real
    <3>1. step' = [step EXCEPT ![t] = "audit"] /\ ok' = [ok EXCEPT ![t] = FALSE]
      BY <2>4 DEF Settle, NoError
    <3>2. pc' = [pc EXCEPT ![t] = "idle"]
      BY <2>1, <2>2, <2>4 DEF Drop, vars, Holds
    <3>3. Holds(t)' /\ Notes(t)'
      BY <2>1, <2>2, <2>4, <3>1, <3>2 DEF Holds, Notes, IsTrading, Consented
    <3> QED BY <2>1, <2>4, <3>1, <3>2, <3>3, OthersTrack
  <2> QED BY <1>2, <2>3, <2>4 DEF FindHandler
<1>3. ASSUME NEW t \in Threads, CallHandler(t) PROVE Tracks'
  <2>1. step[t] = "call" /\ UNCHANGED <<settings, call, level, dry, detailed, real>>
    BY <1>3 DEF CallHandler
  <2>2. Holds(t) /\ Notes(t)
    BY DEF Tracks
  <2>3. CASE IsTrading(t)
    <3>1. /\ CallXtquant(t)
          /\ \E b \in BOOLEAN : took' = [took EXCEPT ![t] = b]
      BY <1>3, <2>3 DEF CallHandler, IsTrading
    <3>2. \/ /\ pc' = [pc EXCEPT ![t] = "record"]
             /\ step' = [step EXCEPT ![t] = "record"] /\ UNCHANGED ok
          \/ /\ pc' = [pc EXCEPT ![t] = "idle"]
             /\ step' = [step EXCEPT ![t] = "audit"] /\ ok' = [ok EXCEPT ![t] = FALSE]
      BY <1>3, <2>3 DEF CallHandler, IsTrading, CallXtquant, Settle, NoError
    <3>3. \A c \in call[t] : Consented(c)
      BY <2>1, <2>2, <2>3 DEF Holds
    <3>4. Holds(t)' /\ Notes(t)'
      BY <2>1, <2>2, <2>3, <3>1, <3>2, <3>3 DEF Holds, Notes, IsTrading, Consented
    <3> QED BY <2>1, <3>1, <3>2, <3>4, OthersTrack
  <2>4. CASE ~IsTrading(t)
    <3>1. /\ UNCHANGED <<vars, took>>
          /\ \/ step' = [step EXCEPT ![t] = "record"] /\ UNCHANGED ok
             \/ step' = [step EXCEPT ![t] = "audit"] /\ ok' = [ok EXCEPT ![t] = FALSE]
      BY <1>3, <2>4 DEF CallHandler, IsTrading, Settle, NoError
    <3>2. Holds(t)' /\ Notes(t)'
      BY <2>1, <2>2, <2>4, <3>1 DEF vars, Holds, Notes, IsTrading, Consented
    <3> QED BY <2>1, <3>1, <3>2, OthersTrack DEF vars
  <2> QED BY <2>3, <2>4
<1>4. ASSUME NEW t \in Threads, Finish(t) PROVE Tracks'
  <2>1. step[t] = "record" /\ UNCHANGED <<settings, call, level, dry, detailed, real, took>>
    BY <1>4 DEF Finish
  <2>2. Holds(t) /\ Notes(t)
    BY DEF Tracks
  <2>3. step' = [step EXCEPT ![t] = "audit"] /\ \E b \in BOOLEAN : ok' = [ok EXCEPT ![t] = b]
    BY <1>4 DEF Finish, Settle
  <2>4. pc' = [pc EXCEPT ![t] = "idle"]
    BY <1>4, <2>1, <2>2 DEF Finish, RecordOrder, vars, Holds, Notes
  <2>5. Holds(t)' /\ Notes(t)'
    BY <2>1, <2>2, <2>3, <2>4 DEF Holds, Notes, IsTrading, Consented
  <2> QED BY <2>1, <2>3, <2>4, <2>5, OthersTrack
<1>5. ASSUME NEW t \in Threads, RecordAudit(t) PROVE Tracks'
  <2>1. step[t] = "audit" /\ pc[t] = "idle"
    BY <1>5 DEF RecordAudit, Tracks, Holds
  <2>2. Holds(t)' /\ Notes(t)'
    BY <1>5, <2>1 DEF RecordAudit, vars, Holds, Notes, IsTrading
  <2> QED BY <1>5, <2>2, OthersTrack DEF RecordAudit, vars
<1>6. CASE NextDay
  BY <1>6 DEF NextDay, Midnight, Tracks, Holds, Notes, IsTrading, Consented, state
<1>7. CASE UNCHANGED rpcVars
  BY <1>7 DEF rpcVars, vars, Tracks, Holds, Notes, IsTrading, Consented, state
<1> QED BY <1>1, <1>2, <1>3, <1>4, <1>5, <1>6, <1>7 DEF RpcNext

(***************************************************************************)
(* Type correctness of the endpoint.                                       *)
(***************************************************************************)
THEOREM RpcTypeCorrect == RpcSpec => []RpcTypeOK
BY RpcTypeInit, RpcTypeStep, PTL DEF RpcSpec

LEMMA RequestsTrack == RpcSpec => []Tracks
BY TracksInit, TracksStep, RpcTypeCorrect, PTL DEF RpcSpec

(***************************************************************************)
(* xtquant trades what the operator and the client have allowed, and       *)
(* nothing else, under any settings.                                       *)
(***************************************************************************)
THEOREM OnlyConsentedTradesHolds == RpcSpec => []OnlyConsentedTrades
<1>1. Tracks => OnlyConsentedTrades
  BY DEF Tracks, Holds, OnlyConsentedTrades
<1> QED BY <1>1, RequestsTrack, PTL

(***************************************************************************)
(* The audit of a call tells whether it traded, however it failed.         *)
(***************************************************************************)
THEOREM AuditIsTrueHolds == RpcSpec => []AuditIsTrue
<1>1. Tracks => AuditIsTrue
  BY DEF Tracks, Notes, IsTrading, AuditIsTrue
<1> QED BY <1>1, RequestsTrack, PTL
====
