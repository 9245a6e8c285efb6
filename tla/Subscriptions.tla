---- MODULE Subscriptions ----
(***************************************************************************)
(* Realtime market subscriptions: MarketSubscriptionService                *)
(* (market/subscription_service.py) over XtDataSubscriptionAdapter         *)
(* (market/subscription_adapter.py).                                       *)
(*                                                                         *)
(* A subscription asks xtdata for each of its symbols and keeps the        *)
(* handles it gets.  Requests run in the threads of the server's pool and  *)
(* quotes come in threads of xtdata; nothing is locked, so the records     *)
(* change between any two calls of a request.  Each subscribe_quote and    *)
(* unsubscribe_quote is one action; so are the read and the write of       *)
(* _set_status, which keeps the handles it has read.  A quote is checked   *)
(* and numbered in one action: nothing shared is touched in between.       *)
(***************************************************************************)
EXTENDS Integers, FiniteSets

CONSTANTS Ids,             \* subscription ids
          NoId,            \* what an idle thread works on
          NSymbols,        \* the symbols of a subscription
          Clients,         \* the threads that serve requests
          Callers,         \* the threads of xtdata that deliver quotes
          OnePerId,        \* clients wait for the answer before they name the id again
          MaxRequests,     \* bound: requests of a run
          MaxQuotes        \* bound: quotes of a run

ASSUME SubscriptionAssumption ==
  /\ NoId \notin Ids
  /\ NSymbols \in Nat \ {0}
  /\ Clients \intersect Callers = {}
  /\ OnePerId \in BOOLEAN
  /\ MaxRequests \in Nat
  /\ MaxQuotes \in Nat

VARIABLES status,   \* the status of a subscription, "absent" before it is created
          handles,  \* its upstream_id
          live,     \* the handles xtdata serves, with the subscription they call back
          made,     \* how many handles xtdata has given out
          astray,   \* history: handles for which an exception left record and xtdata apart
          pc, op, mine, old, new, \* the requests' local state
          seq,      \* _event_seq
          quote,    \* the quote a thread is handling
          latest,   \* the event_seq in _latest_quotes (all subscriptions name one symbol)
          sent,     \* the event_seq of the last market_quote event
          requests

upstream == <<live, made, astray>>
local    == <<pc, op, mine, old, new>>
quotes   == <<seq, quote, latest, sent>>
vars     == <<status, handles, upstream, local, quotes, requests>>

Statuses == {"absent", "starting", "active", "degraded", "stopped"}
NoQuote  == [step |-> "none", seq |-> 0]

HandlesOf(id) == {h \in 1 .. made : <<h, id>> \in live}

Init ==
  /\ status = [id \in Ids |-> "absent"]
  /\ handles = [id \in Ids |-> {}]
  /\ live = {} /\ made = 0 /\ astray = {}
  /\ pc = [c \in Clients |-> "idle"]
  /\ op = [c \in Clients |-> "none"]
  /\ mine = [c \in Clients |-> NoId]
  /\ old = [c \in Clients |-> {}]
  /\ new = [c \in Clients |-> {}]
  /\ seq = 0 /\ latest = 0 /\ sent = 0
  /\ quote = [x \in Clients \union Callers |-> NoQuote]
  /\ requests = 0

Goto(c, label) == pc' = [pc EXCEPT ![c] = label]

Return(c) ==
  /\ pc' = [pc EXCEPT ![c] = "idle"]
  /\ op' = [op EXCEPT ![c] = "none"]
  /\ mine' = [mine EXCEPT ![c] = NoId]
  /\ old' = [old EXCEPT ![c] = {}]
  /\ new' = [new EXCEPT ![c] = {}]
----
(***************************************************************************)
(* The requests.                                                           *)
(***************************************************************************)
Begin(c, id, name) ==
  /\ pc[c] = "idle"
  /\ OnePerId => \A d \in Clients : mine[d] # id
  /\ requests < MaxRequests
  /\ requests' = requests + 1
  /\ op' = [op EXCEPT ![c] = name]
  /\ mine' = [mine EXCEPT ![c] = id]

Create(c, id) ==
  /\ Begin(c, id, "create")
  /\ status[id] = "absent"
  /\ status' = [status EXCEPT ![id] = "starting"]
  /\ Goto(c, "subscribe")
  /\ UNCHANGED <<handles, upstream, old, new, quotes>>

Stop(c, id) ==
  /\ Begin(c, id, "stop")
  /\ status[id] # "absent"
  /\ IF status[id] = "stopped"
     THEN Goto(c, "read") /\ UNCHANGED old
     ELSE Goto(c, "find") /\ old' = [old EXCEPT ![c] = handles[id]]
  /\ UNCHANGED <<status, handles, upstream, new, quotes>>

\* The handles of an active subscription are not cancelled.
RecoverOnly(c, id) ==
  /\ Begin(c, id, "recover")
  /\ status[id] # "absent"
  /\ Goto(c, "subscribe")
  /\ UNCHANGED <<status, handles, upstream, old, new, quotes>>

Recover(c, id) ==
  /\ Begin(c, id, "recover")
  /\ status[id] # "absent"
  /\ IF status[id] = "active"
     THEN Goto(c, "find") /\ old' = [old EXCEPT ![c] = handles[id]]
     ELSE Goto(c, "subscribe") /\ UNCHANGED old
  /\ UNCHANGED <<status, handles, upstream, new, quotes>>

(***************************************************************************)
(* The adapter: unsubscribe, then subscribe, one handle at a time.         *)
(***************************************************************************)
FindCancel(c) ==
  /\ pc[c] = "find"
  /\ Goto(c, "cancel")
  /\ UNCHANGED <<status, handles, upstream, op, mine, old, new, quotes, requests>>

CancelOne(c) ==
  /\ pc[c] = "cancel"
  /\ \E h \in old[c] :
       /\ live' = {l \in live : l[1] # h}
       /\ old' = [old EXCEPT ![c] = @ \ {h}]
  /\ UNCHANGED <<status, handles, made, astray, pc, op, mine, new, quotes, requests>>

\* xtdata is not connected, has no unsubscribe_quote, or the call raises: the
\* exception ends the request.
CancelRaises(c) ==
  /\ \/ pc[c] = "find" /\ UNCHANGED astray
     \/ /\ pc[c] = "cancel" /\ old[c] # {}
        /\ astray' = astray \union (handles[mine[c]] \ old[c])
  /\ Return(c)
  /\ UNCHANGED <<status, handles, live, made, quotes, requests>>

Cancelled(c) ==
  /\ pc[c] = "cancel"
  /\ old[c] = {}
  /\ Goto(c, IF op[c] = "stop" THEN "read" ELSE "subscribe")
  /\ UNCHANGED <<status, handles, upstream, op, mine, old, new, quotes, requests>>

SubscribeOne(c) ==
  /\ pc[c] = "subscribe"
  /\ Cardinality(new[c]) < NSymbols
  /\ made' = made + 1
  /\ live' = live \union {<<made + 1, mine[c]>>}
  /\ new' = [new EXCEPT ![c] = @ \union {made + 1}]
  /\ UNCHANGED <<status, handles, astray, pc, op, mine, old, quotes, requests>>

\* The handles of the symbols before are forgotten.
SubscribeRaises(c) ==
  /\ pc[c] = "subscribe"
  /\ Cardinality(new[c]) < NSymbols
  /\ astray' = astray \union new[c]
  /\ new' = [new EXCEPT ![c] = {}]
  /\ Goto(c, "read")
  /\ UNCHANGED <<status, handles, live, made, op, mine, old, quotes, requests>>

\* get_full_tick: some initial quotes, handled by this thread.
Subscribed(c) ==
  /\ pc[c] = "subscribe"
  /\ Cardinality(new[c]) = NSymbols
  /\ Goto(c, "seed")
  /\ UNCHANGED <<status, handles, upstream, op, mine, old, new, quotes, requests>>

(***************************************************************************)
(* _set_status: "active" with the new handles, "stopped" or "degraded"     *)
(* with those the record had when it was read.                             *)
(***************************************************************************)
Activate(c) ==
  /\ pc[c] = "seed"
  /\ quote[c] = NoQuote
  /\ status' = [status EXCEPT ![mine[c]] = "active"]
  /\ handles' = [handles EXCEPT ![mine[c]] = new[c]]
  /\ Return(c)
  /\ UNCHANGED <<upstream, quotes, requests>>

ReadRecord(c) ==
  /\ pc[c] = "read"
  /\ old' = [old EXCEPT ![c] = handles[mine[c]]]
  /\ Goto(c, "write")
  /\ UNCHANGED <<status, handles, upstream, op, mine, new, quotes, requests>>

WriteRecord(c) ==
  /\ pc[c] = "write"
  /\ status' = [status EXCEPT ![mine[c]] = IF op[c] = "stop" THEN "stopped" ELSE "degraded"]
  /\ handles' = [handles EXCEPT ![mine[c]] = old[c]]
  /\ Return(c)
  /\ UNCHANGED <<upstream, quotes, requests>>
----
(***************************************************************************)
(* handle_quote: the status is checked, the event gets its number, the     *)
(* quote is cached, the event is published.                                *)
(***************************************************************************)
Receive(x, id) ==
  /\ quote[x] = NoQuote
  /\ status[id] \in {"starting", "active"}
  /\ seq < MaxQuotes
  /\ seq' = seq + 1
  /\ quote' = [quote EXCEPT ![x] = [step |-> "record", seq |-> seq + 1]]
  /\ UNCHANGED <<status, handles, upstream, local, latest, sent, requests>>

Seed(c) == pc[c] = "seed" /\ Receive(c, mine[c])

Callback(x) == \E l \in live : Receive(x, l[2])

RecordQuote(x) ==
  /\ quote[x].step = "record"
  /\ latest' = quote[x].seq
  /\ quote' = [quote EXCEPT ![x].step = "publish"]
  /\ UNCHANGED <<status, handles, upstream, local, seq, sent, requests>>

PublishQuote(x) ==
  /\ quote[x].step = "publish"
  /\ sent' = quote[x].seq
  /\ quote' = [quote EXCEPT ![x] = NoQuote]
  /\ UNCHANGED <<status, handles, upstream, local, seq, latest, requests>>

Serve(c) ==
  \/ \E id \in Ids : Create(c, id) \/ Stop(c, id) \/ Recover(c, id)
  \/ FindCancel(c) \/ CancelOne(c) \/ CancelRaises(c) \/ Cancelled(c)
  \/ SubscribeOne(c) \/ SubscribeRaises(c) \/ Subscribed(c)
  \/ Seed(c)
  \/ Activate(c) \/ ReadRecord(c) \/ WriteRecord(c)

Next ==
  \/ \E c \in Clients : Serve(c)
  \/ \E x \in Callers : Callback(x)
  \/ \E x \in Clients \union Callers : RecordQuote(x) \/ PublishQuote(x)

Spec == Init /\ [][Next]_vars
----
TypeOK ==
  /\ status \in [Ids -> Statuses]
  /\ handles \in [Ids -> SUBSET Nat]
  /\ live \subseteq Nat \X Ids
  /\ made \in Nat
  /\ astray \subseteq 1 .. made
  /\ pc \in [Clients -> {"idle", "find", "cancel", "subscribe", "seed", "read", "write"}]
  /\ op \in [Clients -> {"none", "create", "stop", "recover"}]
  /\ mine \in [Clients -> Ids \union {NoId}]
  /\ old \in [Clients -> SUBSET Nat]
  /\ new \in [Clients -> SUBSET Nat]
  /\ seq \in 0 .. MaxQuotes
  /\ quote \in [Clients \union Callers -> [step : {"none", "record", "publish"}, seq : 0 .. MaxQuotes]]
  /\ latest \in 0 .. MaxQuotes
  /\ sent \in 0 .. MaxQuotes
  /\ requests \in 0 .. MaxRequests

(***************************************************************************)
(* xtdata calls back for a subscription exactly through the handles of its *)
(* record, and only while it is active: once no request is under way for   *)
(* an id, nothing is left over from stops and recoveries.  The exceptions  *)
(* are the handles an exception of xtdata left behind: those subscribed    *)
(* before the symbol that failed, and those cancelled before the handle    *)
(* that could not be.                                                      *)
(***************************************************************************)
LiveHandlesAreKnown ==
  \A id \in Ids : (\A c \in Clients : mine[c] # id) =>
    HandlesOf(id) \ astray = (IF status[id] = "active" THEN handles[id] ELSE {}) \ astray

(***************************************************************************)
(* A subscription somebody stopped comes back only through a recovery      *)
(* (docs/realtime-subscriptions.md:219 and :222).                          *)
(* The code does not keep it when clients do not wait for answers          *)
(* (OnePerId = FALSE): a creation that is still subscribing, and is        *)
(* listed, sets a subscription active that was stopped meanwhile.          *)
(***************************************************************************)
StoppedUntilRecovered ==
  [][\A id \in Ids : status[id] = "stopped" /\ status'[id] # "stopped" =>
       \E c \in Clients : mine[c] = id /\ op[c] = "recover"]_vars

(***************************************************************************)
(* A stop request that ends leaves the subscription stopped, even when     *)
(* xtdata cannot cancel it (docs/realtime-subscriptions.md:100).           *)
(* The code does not keep it: an exception of xtdata ends the request      *)
(* before the status is written (CancelRaises).                            *)
(***************************************************************************)
StopEndsStopped ==
  [][\A c \in Clients : op[c] = "stop" /\ op'[c] = "none" =>
       status'[mine[c]] = "stopped"]_vars

(***************************************************************************)
(* The event_seq of market_quote events is monotonic                       *)
(* (docs/realtime-subscriptions.md:38).                                    *)
(* The code does not keep it: a quote is numbered and published in two     *)
(* steps by the thread that delivers it, and another thread may come in    *)
(* between.                                                                *)
(***************************************************************************)
EventSeqIsMonotonic == [][sent' # sent => sent' > sent]_vars
====
