---- MODULE TradingGuard ----
(***************************************************************************)
(* The safety net of real trading: RpcDispatcher (rpc/dispatcher.py) with  *)
(* prepare_trading_call and DailyTradingLimits (trading.py).               *)
(*                                                                         *)
(* A request is validated against the limits of one order, checked against *)
(* what the process has traded today, sent to xtquant and counted.  The    *)
(* endpoint is a plain function, so requests run in the threads of a pool; *)
(* check_order and record_order each hold the lock, and the call in        *)
(* between does not.  An order is what it adds to each Measure (volume,    *)
(* amount).  Requests that are refused earlier, or run dry, change         *)
(* nothing.                                                                *)
(***************************************************************************)
EXTENDS Integers, FiniteSets, FiniteSetsExt

CONSTANTS Threads,   \* the threads that serve requests
          Measures,  \* what is limited: volume and amount
          Orders,    \* the orders clients send
          OrderMax,  \* max_order_volume, max_order_amount
          DailyMax,  \* daily_max_order_volume, daily_max_order_amount
          LastDay    \* bound: the days of a run are 1 .. LastDay

ASSUME TradingAssumption ==
  /\ Orders \subseteq [Measures -> Nat]
  /\ OrderMax \in [Measures -> Nat]
  /\ DailyMax \in [Measures -> Nat]
  /\ LastDay \in Nat \ {0}
  /\ IsFiniteSet(Threads) /\ Threads # {}

VARIABLES today,   \* the date
          day,     \* DailyTradingLimits._day
          used,    \* order_volume and order_amount
          pc,      \* where the request of a thread is
          order,   \* its order
          placed,  \* history: what xtquant accepted on a day
          overlapped \* history: an order was let through while another was under way

history == <<placed, overlapped>>
vars    == <<today, day, used, pc, order, history>>

Days == 1 .. LastDay

Nothing == [m \in Measures |-> 0]

Plus(a, b) == [m \in Measures |-> a[m] + b[m]]

\* _reset_if_new_day.
UsedToday == IF day = today THEN used ELSE Nothing

\* An order is refused only if it exceeds both limits.
WithinSomeLimit(o) == \E m \in Measures : o[m] <= OrderMax[m]

WithinOrderLimits(o) == \A m \in Measures : o[m] <= OrderMax[m]

\* An order fits as long as the limit has not been reached before it.
FitsBefore(o) == \A m \in Measures : UsedToday[m] < DailyMax[m]

Fits(o) == \A m \in Measures : UsedToday[m] + o[m] <= DailyMax[m]

Init ==
  /\ today = 1
  /\ day = 1
  /\ used = Nothing
  /\ pc = [t \in Threads |-> "idle"]
  /\ order = [t \in Threads |-> Nothing]
  /\ placed = [d \in Days |-> Nothing]
  /\ overlapped = FALSE
----
\* _validate_order and check_order.
CheckOrder(t, o) ==
  /\ pc[t] = "idle"
  /\ WithinOrderLimits(o)
  /\ day' = today
  /\ used' = UsedToday
  /\ IF Fits(o)
     THEN /\ pc' = [pc EXCEPT ![t] = "call"]
          /\ order' = [order EXCEPT ![t] = o]
          /\ overlapped' = (overlapped \/ \E u \in Threads : order[u] # Nothing)
     ELSE UNCHANGED <<pc, order, overlapped>>
  /\ UNCHANGED <<today, placed>>

\* A cancellation is validated but not limited.
Cancel(t) ==
  /\ pc[t] = "idle"
  /\ pc' = [pc EXCEPT ![t] = "call"]
  /\ UNCHANGED <<today, day, used, order, history>>

\* get_target and the call: xtquant takes the order, or answers that it does
\* not, or one of the two raises and nothing is recorded.
CallXtquant(t) ==
  /\ pc[t] = "call"
  /\ \/ /\ placed' = [placed EXCEPT ![today] = Plus(@, order[t])]
        /\ pc' = [pc EXCEPT ![t] = "record"]
        /\ UNCHANGED order
     \/ /\ pc' = [pc EXCEPT ![t] = "record"]
        /\ UNCHANGED <<order, placed>>
     \/ /\ pc' = [pc EXCEPT ![t] = "idle"]
        /\ order' = [order EXCEPT ![t] = Nothing]
        /\ UNCHANGED placed
  /\ UNCHANGED <<today, day, used, overlapped>>

\* The count of another thread between the check and the record is lost.
RecordLastOnly(t) ==
  /\ pc[t] = "record"
  /\ day' = today
  /\ used' = order[t]
  /\ pc' = [pc EXCEPT ![t] = "idle"]
  /\ order' = [order EXCEPT ![t] = Nothing]
  /\ UNCHANGED <<today, history>>

RecordOrder(t) ==
  /\ pc[t] = "record"
  /\ day' = today
  /\ used' = Plus(UsedToday, order[t])
  /\ pc' = [pc EXCEPT ![t] = "idle"]
  /\ order' = [order EXCEPT ![t] = Nothing]
  /\ UNCHANGED <<today, history>>

Midnight ==
  /\ today < LastDay
  /\ today' = today + 1
  /\ UNCHANGED <<day, used, pc, order, history>>

Next ==
  \/ \E t \in Threads :
       \/ \E o \in Orders : CheckOrder(t, o)
       \/ Cancel(t) \/ CallXtquant(t) \/ RecordOrder(t)
  \/ Midnight

Spec == Init /\ [][Next]_vars
----
TypeOK ==
  /\ today \in Days
  /\ day \in Days
  /\ used \in [Measures -> Nat]
  /\ pc \in [Threads -> {"idle", "call", "record"}]
  /\ order \in [Threads -> [Measures -> Nat]]
  /\ placed \in [Days -> [Measures -> Nat]]
  /\ overlapped \in BOOLEAN

(***************************************************************************)
(* No more is traded on a day than the daily limits allow, whatever        *)
(* orders, limits and callers there are: what the comment and the tests of *)
(* DailyTradingLimits promise.                                             *)
(* The code does not keep it: two orders can pass the check before either  *)
(* is counted.                                                             *)
(***************************************************************************)
DailyLimitAlways == \A d \in Days, m \in Measures : placed[d][m] <= DailyMax[m]

(***************************************************************************)
(* What the code keeps of it: the daily limits hold as long as no order    *)
(* was let through while another was under way, whatever happens between   *)
(* the check of an order and its count: a rejection, an exception,         *)
(* midnight, any number of cancellations and of refused orders.            *)
(***************************************************************************)
DailyLimit == ~overlapped => DailyLimitAlways

InFlight(m) == MapThenSumSet(LAMBDA t : order[t][m], {t \in Threads : pc[t] = "record"})

(***************************************************************************)
(* What was traded today and is not counted yet is in the hands of a       *)
(* thread that will count it: no order slips past the counters.            *)
(***************************************************************************)
TradedIsCounted == \A m \in Measures : placed[today][m] <= UsedToday[m] + InFlight(m)

(***************************************************************************)
(* The overrun that concurrent requests can cause is bounded: each other   *)
(* thread can have one order checked and not yet counted.                  *)
(***************************************************************************)
OverrunIsBounded ==
  \A d \in Days, m \in Measures :
    placed[d][m] <= DailyMax[m] + (Cardinality(Threads) - 1) * OrderMax[m]
====
