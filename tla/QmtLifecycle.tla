---- MODULE QmtLifecycle ----
(***************************************************************************)
(* connect, reconnect and disconnect of QmtService                         *)
(* (services/qmt_service.py, api/routes_qmt.py).                           *)
(*                                                                         *)
(* Requests run in the threads of a pool and the service has no lock, so   *)
(* any other request may come between two steps.  A step is one call of    *)
(* xtquant, or the assignments and tests between two such calls.  A        *)
(* trader is a number; the trader of the service is the one that is used   *)
(* whenever self.trader is written in the code, whoever made it.           *)
(***************************************************************************)
EXTENDS Integers

CONSTANTS Threads,     \* the threads that serve requests
          HasTrader,   \* userdata is configured and exists, and connect_trader is set
          HasAccount,  \* account_id is configured
          MaxRequests, \* bound: requests of a run
          MaxDrops     \* bound: how often MiniQMT drops a connection

ASSUME LifecycleAssumption ==
  /\ HasTrader \in BOOLEAN /\ HasAccount \in BOOLEAN
  /\ MaxRequests \in Nat /\ MaxDrops \in Nat

None == 0

VARIABLES connectQuote,     \* settings.connect_quote, fixed when the server starts
          trader,           \* self.trader, None or a number
          traderConnected, accountSubscribed,
          quoteClient, quoteConnected,
          state, lastError, \* lifecycle
          announced,        \* the last lifecycle event
          made,             \* upstream: how many traders were made
          started, linked,  \* upstream: traders that run, and that are connected
          quoteUp,          \* upstream: xtdata is connected
          pc, op, held, reply, \* the requests: step, kind, the trader to stop, what a call returned
          overlapped,       \* history: two requests were under way together since all rested
          everOverlapped,   \* history: two requests were under way together
          dropped,          \* history: MiniQMT dropped a connection since the service rested
          stuck,            \* history: the traders whose stop raised, None for xtdata.disconnect
          requests, drops

service  == <<connectQuote, trader, traderConnected, accountSubscribed, quoteClient, quoteConnected>>
told     == <<state, lastError, announced>>
upstream == <<made, started, linked, quoteUp>>
local    == <<held, reply>>
history  == <<overlapped, everOverlapped, dropped, stuck>>
vars     == <<service, told, upstream, pc, op, local, history, requests, drops>>

States == {"new", "connecting", "connected", "partial", "error", "disconnected"}
Kinds  == {"connect", "reconnect", "disconnect"}

AtRest == \A t \in Threads : pc[t] = "idle"

Init ==
  /\ connectQuote \in BOOLEAN
  /\ trader = None /\ traderConnected = FALSE /\ accountSubscribed = FALSE
  /\ quoteClient = FALSE /\ quoteConnected = FALSE
  /\ state = "new" /\ lastError = FALSE /\ announced = "none"
  /\ made = 0 /\ started = {} /\ linked = {} /\ quoteUp = FALSE
  /\ pc = [t \in Threads |-> "idle"]
  /\ op = [t \in Threads |-> "none"]
  /\ held = [t \in Threads |-> None]
  /\ reply = [t \in Threads |-> FALSE]
  /\ overlapped = FALSE /\ everOverlapped = FALSE /\ dropped = FALSE /\ stuck = {}
  /\ requests = 0 /\ drops = 0

Goto(t, step) == pc' = [pc EXCEPT ![t] = step]

\* All three begin with disconnect, whose first step is _stop_trader.
Request(t, kind) ==
  /\ pc[t] = "idle"
  /\ requests < MaxRequests
  /\ requests' = requests + 1
  /\ op' = [op EXCEPT ![t] = kind]
  /\ overlapped' = ~AtRest
  /\ everOverlapped' = (everOverlapped \/ ~AtRest)
  /\ dropped' = (dropped /\ ~AtRest)
  /\ Goto(t, "stop")
  /\ UNCHANGED <<service, told, upstream, local, stuck, drops>>

Return(t) ==
  /\ Goto(t, "idle")
  /\ op' = [op EXCEPT ![t] = "none"]
----
(***************************************************************************)
(* _stop_trader, of a disconnect and of a connection that failed.          *)
(***************************************************************************)
Undoing(t) == pc[t] \in {"undo", "undo stop", "undo clear"}

FindTrader(t) ==
  /\ pc[t] \in {"stop", "undo"}
  /\ held' = [held EXCEPT ![t] = trader]
  /\ Goto(t, IF Undoing(t)
             THEN IF trader = None THEN "undo clear" ELSE "undo stop"
             ELSE IF trader = None THEN "clear" ELSE "stop call")
  /\ UNCHANGED <<service, told, upstream, op, reply, history, requests, drops>>

\* The trader is let go of but not stopped.
ForgetTrader(t) ==
  /\ pc[t] \in {"stop call", "undo stop"}
  /\ Goto(t, IF Undoing(t) THEN "undo clear" ELSE "clear")
  /\ held' = [held EXCEPT ![t] = None]
  /\ UNCHANGED <<service, told, upstream, op, reply, history, requests, drops>>

\* What stop raises is suppressed.
StopTrader(t) ==
  /\ pc[t] \in {"stop call", "undo stop"}
  /\ \/ /\ started' = started \ {held[t]}
        /\ linked' = linked \ {held[t]}
        /\ UNCHANGED stuck
     \/ stuck' = stuck \union {held[t]} /\ UNCHANGED <<started, linked>>
  /\ held' = [held EXCEPT ![t] = None]
  /\ Goto(t, IF Undoing(t) THEN "undo clear" ELSE "clear")
  /\ UNCHANGED <<service, told, made, quoteUp, op, reply, overlapped, everOverlapped, dropped,
                 requests, drops>>

ClearTrader(t) ==
  /\ pc[t] \in {"clear", "undo clear"}
  /\ trader' = None
  /\ traderConnected' = FALSE
  /\ accountSubscribed' = FALSE
  /\ Goto(t, IF Undoing(t) THEN "failed" ELSE "stop quote")
  /\ UNCHANGED <<connectQuote, quoteClient, quoteConnected, told, upstream, op, local, history,
                 requests, drops>>

(***************************************************************************)
(* _disconnect_quote, the new state and its event.                         *)
(***************************************************************************)
\* What disconnect raises is suppressed; xtdata is connected or not as it was.
DisconnectQuote(t) ==
  /\ pc[t] = "stop quote"
  /\ \/ quoteClient /\ quoteUp' = FALSE /\ UNCHANGED stuck
     \/ quoteClient /\ stuck' = stuck \union {None} /\ UNCHANGED quoteUp
     \/ ~quoteClient /\ UNCHANGED <<quoteUp, stuck>>
  /\ Goto(t, "disconnected")
  /\ UNCHANGED <<service, told, made, started, linked, op, local, overlapped, everOverlapped,
                 dropped, requests, drops>>

SetDisconnected(t) ==
  /\ pc[t] = "disconnected"
  /\ quoteClient' = FALSE
  /\ quoteConnected' = FALSE
  /\ state' = "disconnected"
  /\ Goto(t, "announce disconnect")
  /\ UNCHANGED <<connectQuote, trader, traderConnected, accountSubscribed, lastError, announced,
                 upstream, op, local, history, requests, drops>>

\* reconnect disconnects, then connects, which disconnects again.
AnnounceDisconnect(t) ==
  /\ pc[t] = "announce disconnect"
  /\ announced' = "qmt_disconnected"
  /\ \/ op[t] = "disconnect" /\ Return(t)
     \/ op[t] = "reconnect" /\ op' = [op EXCEPT ![t] = "connect"] /\ Goto(t, "stop")
     \/ op[t] = "connect" /\ Goto(t, "begin") /\ UNCHANGED op
  /\ UNCHANGED <<service, state, lastError, upstream, local, history, requests, drops>>
----
(***************************************************************************)
(* connect                                                                 *)
(***************************************************************************)
AfterQuote == IF HasTrader THEN "trader" ELSE "succeeded"

BeginConnect(t) ==
  /\ pc[t] = "begin"
  /\ state' = "connecting"
  /\ lastError' = FALSE
  /\ Goto(t, IF connectQuote THEN "quote" ELSE AfterQuote)
  /\ UNCHANGED <<service, announced, upstream, op, local, history, requests, drops>>

\* xtdata.reconnect returns a client that is connected or not, or raises.
ReconnectQuote(t) ==
  /\ pc[t] = "quote"
  /\ \/ quoteUp' = TRUE /\ reply' = [reply EXCEPT ![t] = TRUE] /\ Goto(t, "quote set")
     \/ quoteUp' = FALSE /\ reply' = [reply EXCEPT ![t] = FALSE] /\ Goto(t, "quote set")
     \/ Goto(t, "failed") /\ UNCHANGED <<quoteUp, reply>>
  /\ UNCHANGED <<service, told, made, started, linked, op, held, history, requests, drops>>

\* The client tells whether it is connected, or its is_connected raises: the
\* service keeps the client then and does not count as connected.  In place of
\* a client that is not connected there may be none.
SetQuote(t) ==
  /\ pc[t] = "quote set"
  /\ \/ /\ quoteClient' \in {TRUE, reply[t]}
        /\ quoteConnected' = reply[t]
        /\ Goto(t, IF reply[t] THEN AfterQuote ELSE "failed")
     \/ quoteClient' = TRUE /\ UNCHANGED quoteConnected /\ Goto(t, "failed")
  /\ reply' = [reply EXCEPT ![t] = FALSE]
  /\ UNCHANGED <<connectQuote, trader, traderConnected, accountSubscribed, told, upstream, op, held,
                 history, requests, drops>>

\* The path does not exist, or the classes cannot be loaded: nothing is undone.
NoTraderClass(t) ==
  /\ pc[t] = "trader"
  /\ Goto(t, "failed")
  /\ UNCHANGED <<service, told, upstream, op, local, history, requests, drops>>

NewTrader(t) ==
  /\ pc[t] = "trader"
  /\ made' = made + 1
  /\ trader' = made + 1
  /\ Goto(t, "start")
  /\ UNCHANGED <<connectQuote, traderConnected, accountSubscribed, quoteClient, quoteConnected,
                 told, started, linked, quoteUp, op, local, history, requests, drops>>

StartTrader(t) ==
  /\ pc[t] = "start"
  /\ trader # None
  /\ started' = started \union {trader}
  /\ Goto(t, "link")
  /\ UNCHANGED <<service, told, made, linked, quoteUp, op, local, history, requests, drops>>

ConnectTrader(t) ==
  /\ pc[t] = "link"
  /\ trader # None
  /\ \E ok \in BOOLEAN :
       /\ reply' = [reply EXCEPT ![t] = ok]
       /\ linked' = IF ok THEN linked \union {trader} ELSE linked
  /\ Goto(t, "link set")
  /\ UNCHANGED <<service, told, made, started, quoteUp, op, held, history, requests, drops>>

\* The result of the call is not compared.
SetTraderUp(t) ==
  /\ pc[t] = "link set"
  /\ traderConnected' = TRUE
  /\ reply' = [reply EXCEPT ![t] = FALSE]
  /\ Goto(t, IF HasAccount THEN "subscribe" ELSE "succeeded")
  /\ UNCHANGED <<connectQuote, trader, accountSubscribed, quoteClient, quoteConnected, told,
                 upstream, op, held, history, requests, drops>>

SetTrader(t) ==
  /\ pc[t] = "link set"
  /\ traderConnected' = reply[t]
  /\ reply' = [reply EXCEPT ![t] = FALSE]
  /\ Goto(t, IF ~reply[t] THEN "undo" ELSE IF HasAccount THEN "subscribe" ELSE "succeeded")
  /\ UNCHANGED <<connectQuote, trader, accountSubscribed, quoteClient, quoteConnected, told,
                 upstream, op, held, history, requests, drops>>

\* A subscription that is refused is not an error.
SubscribeAccount(t) ==
  /\ pc[t] = "subscribe"
  /\ trader # None
  /\ accountSubscribed' \in BOOLEAN
  /\ Goto(t, "succeeded")
  /\ UNCHANGED <<connectQuote, trader, traderConnected, quoteClient, quoteConnected, told,
                 upstream, op, local, history, requests, drops>>

\* A call raises; self.trader has become None.
TraderRaises(t) ==
  /\ pc[t] \in {"trader", "start", "link", "subscribe"}
  /\ Goto(t, "undo")
  /\ UNCHANGED <<service, told, upstream, op, local, history, requests, drops>>

\* The quote is not looked at.
MarkSuccessAnyway(t) ==
  /\ pc[t] = "succeeded"
  /\ state' = IF traderConnected \/ ~HasTrader THEN "connected" ELSE "partial"
  /\ lastError' = FALSE
  /\ Goto(t, "announce success")
  /\ UNCHANGED <<service, announced, upstream, op, local, history, requests, drops>>

MarkSuccess(t) ==
  /\ pc[t] = "succeeded"
  /\ state' = IF quoteConnected /\ (traderConnected \/ ~HasTrader) THEN "connected" ELSE "partial"
  /\ lastError' = FALSE
  /\ Goto(t, "announce success")
  /\ UNCHANGED <<service, announced, upstream, op, local, history, requests, drops>>

MarkError(t) ==
  /\ pc[t] = "failed"
  /\ state' = IF quoteConnected \/ traderConnected THEN "partial" ELSE "error"
  /\ lastError' = TRUE
  /\ Goto(t, "announce error")
  /\ UNCHANGED <<service, announced, upstream, op, local, history, requests, drops>>

Announce(t) ==
  /\ pc[t] \in {"announce success", "announce error"}
  /\ announced' = IF pc[t] = "announce success" THEN "qmt_connected" ELSE "qmt_error"
  /\ Return(t)
  /\ UNCHANGED <<service, state, lastError, upstream, local, history, requests, drops>>
----
\* MiniQMT drops a connection.  on_disconnected of the trader publishes an event;
\* the service goes on saying that it is connected.
Drop ==
  /\ drops < MaxDrops
  /\ drops' = drops + 1
  /\ dropped' = TRUE
  /\ \/ /\ linked # {}
        /\ \E x \in linked : linked' = linked \ {x}
        /\ announced' = "qmt_disconnected"
        /\ UNCHANGED quoteUp
     \/ quoteUp /\ quoteUp' = FALSE /\ UNCHANGED <<linked, announced>>
  /\ UNCHANGED <<service, state, lastError, made, started, pc, op, local, overlapped,
                 everOverlapped, stuck, requests>>

Serve(t) ==
  \/ FindTrader(t) \/ StopTrader(t) \/ ClearTrader(t)
  \/ DisconnectQuote(t) \/ SetDisconnected(t) \/ AnnounceDisconnect(t)
  \/ BeginConnect(t) \/ ReconnectQuote(t) \/ SetQuote(t)
  \/ NoTraderClass(t) \/ NewTrader(t) \/ StartTrader(t) \/ ConnectTrader(t) \/ SetTrader(t)
  \/ SubscribeAccount(t) \/ TraderRaises(t)
  \/ MarkSuccess(t) \/ MarkError(t) \/ Announce(t)

Next ==
  \/ \E t \in Threads : Serve(t) \/ \E kind \in Kinds : Request(t, kind)
  \/ Drop

Spec == Init /\ [][Next]_vars
----
TypeOK ==
  /\ connectQuote \in BOOLEAN
  /\ trader \in 0 .. made
  /\ traderConnected \in BOOLEAN /\ accountSubscribed \in BOOLEAN
  /\ quoteClient \in BOOLEAN /\ quoteConnected \in BOOLEAN
  /\ state \in States
  /\ lastError \in BOOLEAN
  /\ announced \in {"none", "qmt_connected", "qmt_error", "qmt_disconnected"}
  /\ made \in Nat
  /\ started \subseteq 1 .. made /\ linked \subseteq 1 .. made
  /\ quoteUp \in BOOLEAN
  /\ pc \in [Threads ->
       {"idle", "stop", "stop call", "clear", "stop quote", "disconnected", "announce disconnect",
        "begin", "quote", "quote set", "trader", "start", "link", "link set", "subscribe",
        "undo", "undo stop", "undo clear", "succeeded", "failed",
        "announce success", "announce error"}]
  /\ op \in [Threads -> Kinds \union {"none"}]
  /\ held \in [Threads -> 0 .. made]
  /\ reply \in [Threads -> BOOLEAN]
  /\ overlapped \in BOOLEAN /\ everOverlapped \in BOOLEAN /\ dropped \in BOOLEAN
  /\ stuck \subseteq 0 .. made
  /\ requests \in 0 .. MaxRequests
  /\ drops \in 0 .. MaxDrops

(***************************************************************************)
(* No trader runs but the one of the service, when no request is under     *)
(* way: a connection that is repeated or fails leaves no trader behind.    *)
(* The code does not keep it: of two connections that overlap each may     *)
(* start a trader, and a request that looked for one before it was there   *)
(* clears the service's field without stopping it.                         *)
(***************************************************************************)
NoTraderIsForgotten == AtRest => started \ stuck \subseteq {trader}

(***************************************************************************)
(* As long as no two requests were ever under way together nothing is left *)
(* behind: no trader runs but that of the service, and xtdata is not       *)
(* connected without the service holding the client it has to disconnect.  *)
(* What refused to be stopped (`stuck`: its stop, or xtdata.disconnect,    *)
(* raised, which the code suppresses) is not counted.                      *)
(***************************************************************************)
NothingIsLeftBehind ==
  everOverlapped \/ (NoTraderIsForgotten /\ (AtRest /\ quoteUp /\ None \notin stuck => quoteClient))

(***************************************************************************)
(* get_target hands the trader out under this condition.                   *)
(***************************************************************************)
TargetReady == trader # None /\ traderConnected

(***************************************************************************)
(* The status and the last event of a service at rest are true of xtquant: *)
(* the trader that is handed out runs and is connected, and each state     *)
(* says what is up.  Partial has two meanings: the quote is up and the     *)
(* trader failed, or quotes are switched off and all the rest succeeded,   *)
(* which the last event tells apart.  Requests that overlap, and MiniQMT   *)
(* when it drops a connection, make them false, but only until the next    *)
(* request that is alone.                                                  *)
(***************************************************************************)
StatusIsTrue ==
  AtRest /\ ~overlapped /\ ~dropped =>
    /\ quoteConnected => quoteUp
    /\ TargetReady => trader \in started \intersect linked
    /\ (trader # None) = traderConnected
    /\ accountSubscribed => TargetReady
    /\ CASE state = "connected"    -> quoteConnected /\ (TargetReady = HasTrader) /\ announced = "qmt_connected"
         [] state = "partial"      -> \/ quoteConnected /\ HasTrader /\ ~TargetReady /\ announced = "qmt_error"
                                      \/ ~connectQuote /\ ~quoteConnected /\ (TargetReady = HasTrader)
                                           /\ announced = "qmt_connected"
         [] state = "error"        -> ~quoteConnected /\ ~TargetReady /\ announced = "qmt_error"
         [] state = "disconnected" -> ~quoteConnected /\ ~TargetReady /\ announced = "qmt_disconnected"
         [] state = "new"          -> requests = 0
         [] OTHER                  -> FALSE
    /\ state # "disconnected" => lastError = (announced = "qmt_error")
====
