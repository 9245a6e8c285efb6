---- MODULE QmtLifecycle_proofs ----
(***************************************************************************)
(* Theorems about QmtLifecycle for every set of threads, with and without  *)
(* a quote, a trader and an account, and for any number of requests and    *)
(* drops.                                                                  *)
(*                                                                         *)
(* Both invariants speak of a service that is used by one request at a     *)
(* time (so far, or since it rested last).  They follow that request       *)
(* through its steps: LeftAt says what may still run at a step, TrueAt     *)
(* what the fields of the service say of xtquant there.                    *)
(***************************************************************************)
EXTENDS QmtLifecycle, TLAPS

OneAtATime == \A t, u \in Threads : pc[t] # "idle" /\ pc[u] # "idle" => t = u

\* Overlaps are noticed, and a request is of a kind.
NoOverlap ==
  /\ overlapped => everOverlapped
  /\ ~overlapped => OneAtATime

----
\* A trader whose stop raised may run on for good.
NoneRuns == started \subseteq stuck
OnlyOneRuns == started \subseteq stuck \union {trader}

\* Steps at which no trader of the service may run any more, or yet.
TraderGone == {"clear", "stop quote", "disconnected", "announce disconnect", "begin",
               "quote", "quote set", "trader", "start", "undo clear", "failed"}

\* Steps at which xtdata was disconnected and is not connected again.
QuoteGone == {"disconnected", "announce disconnect", "begin", "quote"}

QuoteIsOwned == quoteUp /\ None \notin stuck => quoteClient

LeftAt(t) ==
  /\ IF pc[t] \in TraderGone THEN NoneRuns ELSE OnlyOneRuns
  /\ pc[t] \in {"stop call", "undo stop"} => held[t] = trader
  /\ IF pc[t] \in QuoteGone THEN quoteUp => None \in stuck
     ELSE IF pc[t] = "quote set" THEN quoteUp /\ None \notin stuck => reply[t]
     ELSE QuoteIsOwned

LeftInv ==
  ~everOverlapped =>
    /\ AtRest => OnlyOneRuns /\ QuoteIsOwned
    /\ \A t \in Threads : pc[t] # "idle" => LeftAt(t)

----
NoTrader == trader = None /\ ~traderConnected /\ ~accountSubscribed

\* The quote is up, or switched off.
Quoted == (quoteConnected <=> connectQuote) /\ (quoteConnected => quoteUp)

UpAndLinked == trader \in started \intersect linked

\* A trader that is made and not yet connected.
NewTraderAt == Quoted /\ HasTrader /\ trader # None /\ ~traderConnected /\ ~accountSubscribed

Connected ==
  /\ Quoted
  /\ IF HasTrader THEN trader # None /\ traderConnected /\ UpAndLinked ELSE NoTrader
  /\ ~lastError

Failed == NoTrader /\ (quoteConnected => quoteUp /\ HasTrader)

SuccessState == IF connectQuote THEN "connected" ELSE "partial"

TrueAt(t) ==
  /\ pc[t] \in {"stop quote", "disconnected"} => NoTrader
  /\ pc[t] \in {"announce disconnect", "begin", "quote", "quote set"} =>
       NoTrader /\ ~quoteConnected
  /\ pc[t] = "announce disconnect" => state = "disconnected"
  /\ pc[t] \in {"quote", "quote set", "trader", "start", "link", "link set", "subscribe"} =>
       ~lastError
  /\ pc[t] \in {"quote", "quote set"} => connectQuote
  /\ pc[t] = "quote set" => (reply[t] => quoteUp)
  /\ pc[t] = "trader" => NoTrader /\ Quoted /\ HasTrader
  /\ pc[t] \in {"start", "link", "link set"} => NewTraderAt
  /\ pc[t] \in {"link", "link set"} => trader \in started
  /\ pc[t] = "link set" => (reply[t] => trader \in linked)
  /\ pc[t] = "subscribe" => HasTrader /\ Connected
  /\ pc[t] \in {"undo", "undo stop", "undo clear"} => Quoted /\ HasTrader
  /\ pc[t] = "failed" => Failed
  /\ pc[t] \in {"succeeded", "announce success"} => Connected
  /\ pc[t] = "announce success" => state = SuccessState
  /\ pc[t] = "announce error" =>
       Failed /\ lastError /\ state = IF quoteConnected THEN "partial" ELSE "error"

\* The status of a service at rest, by its state.
RestStatus ==
  \/ /\ state = SuccessState /\ Connected /\ announced = "qmt_connected"
  \/ /\ state \in {"partial", "error"} /\ Failed /\ lastError /\ announced = "qmt_error"
     /\ state = IF quoteConnected THEN "partial" ELSE "error"
  \/ /\ state = "disconnected" /\ NoTrader /\ ~quoteConnected /\ announced = "qmt_disconnected"
  \/ /\ state = "new" /\ NoTrader /\ ~quoteConnected /\ announced = "none" /\ ~lastError
     /\ requests = 0

StatusInv ==
  ~overlapped /\ ~dropped =>
    /\ AtRest => RestStatus
    /\ \A t \in Threads : TrueAt(t)

----
(***************************************************************************)
(* Types, in three parts: the steps, the numbers of traders, the flags.    *)
(***************************************************************************)
StepsOK ==
  /\ pc \in [Threads ->
       {"idle", "stop", "stop call", "clear", "stop quote", "disconnected", "announce disconnect",
        "begin", "quote", "quote set", "trader", "start", "link", "link set", "subscribe",
        "undo", "undo stop", "undo clear", "succeeded", "failed",
        "announce success", "announce error"}]
  /\ op \in [Threads -> Kinds \union {"none"}]

NumbersOK ==
  /\ made \in Nat
  /\ trader \in 0 .. made
  /\ started \subseteq 1 .. made /\ linked \subseteq 1 .. made
  /\ held \in [Threads -> 0 .. made]
  /\ stuck \subseteq 0 .. made
  /\ requests \in 0 .. MaxRequests
  /\ drops \in 0 .. MaxDrops

FlagsOK ==
  /\ connectQuote \in BOOLEAN
  /\ traderConnected \in BOOLEAN /\ accountSubscribed \in BOOLEAN
  /\ quoteClient \in BOOLEAN /\ quoteConnected \in BOOLEAN
  /\ state \in States
  /\ lastError \in BOOLEAN
  /\ announced \in {"none", "qmt_connected", "qmt_error", "qmt_disconnected"}
  /\ quoteUp \in BOOLEAN
  /\ reply \in [Threads -> BOOLEAN]
  /\ overlapped \in BOOLEAN /\ everOverlapped \in BOOLEAN /\ dropped \in BOOLEAN

LEMMA TypeParts == TypeOK <=> StepsOK /\ NumbersOK /\ FlagsOK
BY Zenon DEF TypeOK, StepsOK, NumbersOK, FlagsOK

LEMMA TypeInit == Init => TypeOK
<1>1. Init => StepsOK
  BY DEF Init, StepsOK
<1>2. Init => NumbersOK
  BY LifecycleAssumption DEF Init, NumbersOK, None
<1>3. Init => FlagsOK
  BY DEF Init, FlagsOK, States
<1>4. QED
  BY <1>1, <1>2, <1>3, TypeParts

LEMMA ServeSteps ==
  ASSUME StepsOK, NEW t \in Threads, Serve(t)
  PROVE  StepsOK'
<1>1. CASE FindTrader(t)
  BY <1>1 DEF StepsOK, FindTrader, Goto
<1>2. CASE StopTrader(t)
  BY <1>2 DEF StepsOK, StopTrader, Goto
<1>3. CASE ClearTrader(t)
  BY <1>3 DEF StepsOK, ClearTrader, Goto
<1>4. CASE DisconnectQuote(t)
  BY <1>4 DEF StepsOK, DisconnectQuote, Goto
<1>5. CASE SetDisconnected(t)
  BY <1>5 DEF StepsOK, SetDisconnected, Goto
<1>6. CASE AnnounceDisconnect(t)
  BY <1>6 DEF StepsOK, AnnounceDisconnect, Goto, Return, Kinds
<1>7. CASE BeginConnect(t)
  BY <1>7 DEF StepsOK, BeginConnect, AfterQuote, Goto
<1>8. CASE ReconnectQuote(t)
  BY <1>8 DEF StepsOK, ReconnectQuote, Goto
<1>9. CASE SetQuote(t)
  BY <1>9 DEF StepsOK, SetQuote, AfterQuote, Goto
<1>10. CASE NoTraderClass(t)
  BY <1>10 DEF StepsOK, NoTraderClass, Goto
<1>11. CASE NewTrader(t)
  BY <1>11 DEF StepsOK, NewTrader, Goto
<1>12. CASE StartTrader(t)
  BY <1>12 DEF StepsOK, StartTrader, Goto
<1>13. CASE ConnectTrader(t)
  BY <1>13 DEF StepsOK, ConnectTrader, Goto
<1>14. CASE SetTrader(t)
  BY <1>14 DEF StepsOK, SetTrader, Goto
<1>15. CASE SubscribeAccount(t)
  BY <1>15 DEF StepsOK, SubscribeAccount, Goto
<1>16. CASE TraderRaises(t)
  BY <1>16 DEF StepsOK, TraderRaises, Goto
<1>17. CASE MarkSuccess(t)
  BY <1>17 DEF StepsOK, MarkSuccess, Goto
<1>18. CASE MarkError(t)
  BY <1>18 DEF StepsOK, MarkError, Goto
<1>19. CASE Announce(t)
  BY <1>19 DEF StepsOK, Announce, Goto, Return
<1>20. QED
  BY <1>1, <1>2, <1>3, <1>4, <1>5, <1>6, <1>7, <1>8, <1>9, <1>10, <1>11, <1>12, <1>13,
     <1>14, <1>15, <1>16, <1>17, <1>18, <1>19 DEF Serve

LEMMA ServeNumbers ==
  ASSUME NumbersOK, NEW t \in Threads, Serve(t)
  PROVE  NumbersOK'
<1> USE DEF None
<1>1. CASE FindTrader(t)
  BY <1>1 DEF NumbersOK, FindTrader, service, told, upstream, history
<1>2. CASE StopTrader(t)
  <2>1. /\ \/ started' = started \ {held[t]} /\ linked' = linked \ {held[t]} /\ stuck' = stuck
           \/ started' = started /\ linked' = linked /\ stuck' = stuck \union {held[t]}
        /\ held' = [held EXCEPT ![t] = None]
        /\ UNCHANGED <<trader, made, requests, drops>>
    BY <1>2, Zenon DEF StopTrader, service
  <2>2. held[t] \in 0 .. made
    BY DEF NumbersOK
  <2>3. /\ started' \subseteq started /\ linked' \subseteq linked
        /\ stuck' \subseteq stuck \union {held[t]}
    BY <2>1
  <2>4. stuck' \subseteq 0 .. made
    BY <2>2, <2>3 DEF NumbersOK
  <2>5. held' \in [Threads -> 0 .. made]
    BY <2>1 DEF NumbersOK
  <2>6. QED
    BY <2>1, <2>3, <2>4, <2>5 DEF NumbersOK
<1>3. CASE ClearTrader(t)
  <2>1. trader' = None /\ UNCHANGED <<made, started, linked, held, stuck, requests, drops>>
    BY <1>3, Zenon DEF ClearTrader, upstream, local, history
  <2>2. QED
    BY <2>1 DEF NumbersOK
<1>4. CASE DisconnectQuote(t)
  <2>1. /\ stuck' = stuck \/ stuck' = stuck \union {None}
        /\ UNCHANGED <<trader, made, started, linked, held, requests, drops>>
    BY <1>4, Zenon DEF DisconnectQuote, service, local
  <2>2. stuck' \subseteq stuck \union {None}
    BY <2>1
  <2>3. stuck' \subseteq 0 .. made
    BY <2>2 DEF NumbersOK
  <2>4. QED
    BY <2>1, <2>3 DEF NumbersOK
<1>5. CASE SetDisconnected(t)
  BY <1>5 DEF NumbersOK, SetDisconnected, upstream, local, history
<1>6. CASE AnnounceDisconnect(t)
  BY <1>6 DEF NumbersOK, AnnounceDisconnect, service, upstream, local, history
<1>7. CASE BeginConnect(t)
  BY <1>7 DEF NumbersOK, BeginConnect, service, upstream, local, history
<1>8. CASE ReconnectQuote(t)
  BY <1>8 DEF NumbersOK, ReconnectQuote, service, told, history
<1>9. CASE SetQuote(t)
  BY <1>9 DEF NumbersOK, SetQuote, told, upstream, history
<1>10. CASE NoTraderClass(t)
  BY <1>10 DEF NumbersOK, NoTraderClass, service, told, upstream, local, history
<1>11. CASE NewTrader(t)
  <2>1. made \in Nat /\ made' = made + 1 /\ trader' = made + 1
    BY <1>11 DEF NumbersOK, NewTrader
  <2>2. /\ trader' \in 0 .. made'
        /\ 0 .. made \subseteq 0 .. made' /\ 1 .. made \subseteq 1 .. made'
    BY <2>1
  <2>3. /\ started' \subseteq 1 .. made' /\ linked' \subseteq 1 .. made'
        /\ stuck' \subseteq 0 .. made'
        /\ held' \in [Threads -> 0 .. made']
    BY <1>11, <2>2 DEF NumbersOK, NewTrader, local, history
  <2>4. QED
    BY <1>11, <2>1, <2>2, <2>3 DEF NumbersOK, NewTrader, local, history
<1>12. CASE StartTrader(t)
  <2>1. trader \in 1 .. made
    BY <1>12 DEF NumbersOK, StartTrader
  <2>2. QED
    BY <1>12, <2>1 DEF NumbersOK, StartTrader, service, told, local, history
<1>13. CASE ConnectTrader(t)
  <2>1. /\ trader # None
        /\ linked' = linked \/ linked' = linked \union {trader}
        /\ UNCHANGED <<trader, made, started, held, stuck, requests, drops>>
    BY <1>13, Zenon DEF ConnectTrader, service, history
  <2>2. trader \in 1 .. made /\ linked' \subseteq linked \union {trader}
    BY <2>1 DEF NumbersOK
  <2>3. linked' \subseteq 1 .. made
    BY <2>2 DEF NumbersOK
  <2>4. QED
    BY <2>1, <2>3 DEF NumbersOK
<1>14. CASE SetTrader(t)
  BY <1>14 DEF NumbersOK, SetTrader, told, upstream, history
<1>15. CASE SubscribeAccount(t)
  BY <1>15 DEF NumbersOK, SubscribeAccount, told, upstream, local, history
<1>16. CASE TraderRaises(t)
  BY <1>16 DEF NumbersOK, TraderRaises, service, told, upstream, local, history
<1>17. CASE MarkSuccess(t)
  BY <1>17 DEF NumbersOK, MarkSuccess, service, upstream, local, history
<1>18. CASE MarkError(t)
  BY <1>18 DEF NumbersOK, MarkError, service, upstream, local, history
<1>19. CASE Announce(t)
  BY <1>19 DEF NumbersOK, Announce, service, upstream, local, history
<1>20. QED
  BY <1>1, <1>2, <1>3, <1>4, <1>5, <1>6, <1>7, <1>8, <1>9, <1>10, <1>11, <1>12, <1>13,
     <1>14, <1>15, <1>16, <1>17, <1>18, <1>19 DEF Serve

LEMMA ServeFlags ==
  ASSUME FlagsOK, NEW t \in Threads, Serve(t)
  PROVE  FlagsOK'
<1>1. CASE FindTrader(t)
  BY <1>1 DEF FlagsOK, FindTrader, service, told, upstream, history
<1>2. CASE StopTrader(t)
  BY <1>2 DEF FlagsOK, StopTrader, service, told
<1>3. CASE ClearTrader(t)
  BY <1>3 DEF FlagsOK, ClearTrader, told, upstream, local, history
<1>4. CASE DisconnectQuote(t)
  BY <1>4 DEF FlagsOK, DisconnectQuote, service, told, local
<1>5. CASE SetDisconnected(t)
  BY <1>5 DEF FlagsOK, SetDisconnected, upstream, local, history, States
<1>6. CASE AnnounceDisconnect(t)
  BY <1>6 DEF FlagsOK, AnnounceDisconnect, service, upstream, local, history
<1>7. CASE BeginConnect(t)
  BY <1>7 DEF FlagsOK, BeginConnect, service, upstream, local, history, States
<1>8. CASE ReconnectQuote(t)
  <2>1. quoteUp' \in BOOLEAN /\ reply' \in [Threads -> BOOLEAN]
    BY <1>8 DEF FlagsOK, ReconnectQuote
  <2>2. UNCHANGED <<service, told, history>>
    BY <1>8 DEF ReconnectQuote
  <2>3. QED
    BY <2>1, <2>2 DEF FlagsOK, service, told, history
<1>9. CASE SetQuote(t)
  BY <1>9 DEF FlagsOK, SetQuote, told, upstream, history
<1>10. CASE NoTraderClass(t)
  BY <1>10 DEF FlagsOK, NoTraderClass, service, told, upstream, local, history
<1>11. CASE NewTrader(t)
  BY <1>11 DEF FlagsOK, NewTrader, told, local, history
<1>12. CASE StartTrader(t)
  BY <1>12 DEF FlagsOK, StartTrader, service, told, local, history
<1>13. CASE ConnectTrader(t)
  <2>1. reply' \in [Threads -> BOOLEAN]
    BY <1>13 DEF FlagsOK, ConnectTrader
  <2>2. UNCHANGED <<service, told, quoteUp, history>>
    BY <1>13 DEF ConnectTrader
  <2>3. QED
    BY <2>1, <2>2 DEF FlagsOK, service, told, history
<1>14. CASE SetTrader(t)
  BY <1>14 DEF FlagsOK, SetTrader, told, upstream, history
<1>15. CASE SubscribeAccount(t)
  BY <1>15 DEF FlagsOK, SubscribeAccount, told, upstream, local, history
<1>16. CASE TraderRaises(t)
  BY <1>16 DEF FlagsOK, TraderRaises, service, told, upstream, local, history
<1>17. CASE MarkSuccess(t)
  BY <1>17 DEF FlagsOK, MarkSuccess, service, upstream, local, history, States
<1>18. CASE MarkError(t)
  BY <1>18 DEF FlagsOK, MarkError, service, upstream, local, history, States
<1>19. CASE Announce(t)
  BY <1>19 DEF FlagsOK, Announce, service, upstream, local, history
<1>20. QED
  BY <1>1, <1>2, <1>3, <1>4, <1>5, <1>6, <1>7, <1>8, <1>9, <1>10, <1>11, <1>12, <1>13,
     <1>14, <1>15, <1>16, <1>17, <1>18, <1>19 DEF Serve

LEMMA TypeStep ==
  ASSUME TypeOK, [Next]_vars
  PROVE  TypeOK'
<1>1. StepsOK /\ NumbersOK /\ FlagsOK
  BY TypeParts
<1>2. ASSUME NEW t \in Threads, NEW kind \in Kinds, Request(t, kind)
      PROVE  StepsOK' /\ NumbersOK' /\ FlagsOK'
  <2>1. StepsOK'
    BY <1>1, <1>2 DEF StepsOK, Request, Goto
  <2>2. NumbersOK'
    BY <1>1, <1>2, LifecycleAssumption DEF NumbersOK, Request, service, upstream, local
  <2>3. FlagsOK'
    BY <1>1, <1>2 DEF FlagsOK, Request, AtRest, service, told, upstream, local
  <2>4. QED
    BY <2>1, <2>2, <2>3
<1>3. ASSUME Drop
      PROVE  StepsOK' /\ NumbersOK' /\ FlagsOK'
  <2>1. StepsOK'
    BY <1>1, <1>3 DEF StepsOK, Drop
  <2>2. NumbersOK'
    <3>1. /\ drops < MaxDrops /\ drops' = drops + 1
          /\ linked' = linked \/ \E x \in linked : linked' = linked \ {x}
          /\ UNCHANGED <<trader, made, started, held, stuck, requests>>
      BY <1>3, Zenon DEF Drop, service, local
    <3>2. linked' \subseteq linked
      BY <3>1
    <3>3. drops' \in 0 .. MaxDrops
      BY <1>1, <3>1, LifecycleAssumption DEF NumbersOK
    <3>4. QED
      BY <1>1, <3>1, <3>2, <3>3 DEF NumbersOK
  <2>3. FlagsOK'
    BY <1>1, <1>3 DEF FlagsOK, Drop, service, local
  <2>4. QED
    BY <2>1, <2>2, <2>3
<1>4. ASSUME UNCHANGED vars
      PROVE  StepsOK' /\ NumbersOK' /\ FlagsOK'
  <2>1. StepsOK'
    BY <1>1, <1>4 DEF StepsOK, vars
  <2>2. NumbersOK'
    BY <1>1, <1>4 DEF NumbersOK, vars, service, upstream, local, history
  <2>3. FlagsOK'
    BY <1>1, <1>4 DEF FlagsOK, vars, service, told, upstream, local, history
  <2>4. QED
    BY <2>1, <2>2, <2>3
<1>5. StepsOK' /\ NumbersOK' /\ FlagsOK'
  BY <1>1, <1>2, <1>3, <1>4, ServeSteps, ServeNumbers, ServeFlags DEF Next
<1>6. QED
  BY <1>5, Zenon DEF TypeOK, StepsOK, NumbersOK, FlagsOK

LEMMA TypeInvariant == Spec => []TypeOK
BY TypeInit, TypeStep, PTL DEF Spec

----
(***************************************************************************)
(* A step of one request leaves the others, and the record of overlaps,    *)
(* alone.                                                                  *)
(***************************************************************************)
LEMMA ServeIsLocal ==
  ASSUME TypeOK, NEW t \in Threads, Serve(t)
  PROVE  /\ pc[t] # "idle"
         /\ \A u \in Threads \ {t} : pc'[u] = pc[u]
         /\ overlapped' = overlapped /\ everOverlapped' = everOverlapped
         /\ dropped' = dropped /\ requests' = requests
<1>1. CASE FindTrader(t) \/ StopTrader(t) \/ ClearTrader(t)
  BY <1>1 DEF TypeOK, FindTrader, StopTrader, ClearTrader, Goto, history
<1>2. CASE DisconnectQuote(t) \/ SetDisconnected(t) \/ AnnounceDisconnect(t)
  BY <1>2 DEF TypeOK, DisconnectQuote, SetDisconnected, AnnounceDisconnect, Return, Goto, history
<1>3. CASE BeginConnect(t) \/ ReconnectQuote(t) \/ SetQuote(t)
  BY <1>3 DEF TypeOK, BeginConnect, ReconnectQuote, SetQuote, Goto, history
<1>4. CASE NoTraderClass(t) \/ NewTrader(t) \/ StartTrader(t) \/ ConnectTrader(t)
  BY <1>4 DEF TypeOK, NoTraderClass, NewTrader, StartTrader, ConnectTrader, Goto, history
<1>5. CASE SetTrader(t) \/ SubscribeAccount(t) \/ TraderRaises(t)
  BY <1>5 DEF TypeOK, SetTrader, SubscribeAccount, TraderRaises, Goto, history
<1>6. CASE MarkSuccess(t) \/ MarkError(t) \/ Announce(t)
  BY <1>6 DEF TypeOK, MarkSuccess, MarkError, Announce, Return, Goto, history
<1>7. QED
  BY <1>1, <1>2, <1>3, <1>4, <1>5, <1>6 DEF Serve

LEMMA NoOverlapStep ==
  ASSUME TypeOK, NoOverlap, [Next]_vars
  PROVE  NoOverlap'
<1>1. ASSUME NEW t \in Threads, NEW kind \in Kinds, Request(t, kind)
      PROVE  NoOverlap'
  BY <1>1 DEF TypeOK, NoOverlap, OneAtATime, Request, Goto, AtRest, service
<1>2. ASSUME NEW t \in Threads, Serve(t)
      PROVE  NoOverlap'
  BY <1>2, ServeIsLocal DEF NoOverlap, OneAtATime
<1>3. CASE Drop
  BY <1>3 DEF NoOverlap, OneAtATime, Drop, service
<1>4. CASE UNCHANGED vars
  BY <1>4 DEF NoOverlap, OneAtATime, vars, service, history
<1>5. QED
  BY <1>1, <1>2, <1>3, <1>4 DEF Next

----
(***************************************************************************)
(* What may still run.                                                     *)
(***************************************************************************)
LEMMA NoneIsNoTrader ==
  ASSUME TypeOK
  PROVE  None \notin started
<1>1. started \subseteq 1 .. made /\ made \in Nat
  BY TypeParts, Zenon DEF NumbersOK
<1>2. QED
  BY <1>1 DEF None

LEMMA ServeLeaves ==
  ASSUME TypeOK, NEW t \in Threads, LeftAt(t), Serve(t)
  PROVE  /\ pc'[t] = "idle" => OnlyOneRuns' /\ QuoteIsOwned'
         /\ pc'[t] # "idle" => LeftAt(t)'
<1> USE DEF LeftAt, NoneRuns, OnlyOneRuns, QuoteIsOwned, TraderGone, QuoteGone, Goto
<1>1. CASE FindTrader(t)
  <2>1. None \notin started
    BY NoneIsNoTrader
  <2>2. OnlyOneRuns
    BY <1>1 DEF FindTrader
  <2>3. trader = None => NoneRuns
    BY <2>1, <2>2
  <2>4. QED
    BY <1>1, <2>3 DEF TypeOK, FindTrader, Undoing, service, told, upstream, history
<1>2. CASE StopTrader(t)
  BY <1>2 DEF TypeOK, StopTrader, Undoing, service, told
<1>3. CASE ClearTrader(t)
  BY <1>3 DEF TypeOK, ClearTrader, Undoing, told, upstream, local, history
<1>4. CASE DisconnectQuote(t)
  <2>1. /\ pc[t] = "stop quote" /\ pc'[t] = "disconnected" /\ started' = started
        /\ stuck \subseteq stuck'
    BY <1>4, TypeParts DEF StepsOK, DisconnectQuote
  <2>2. quoteUp' => None \in stuck'
    BY <1>4, <2>1, TypeParts DEF FlagsOK, DisconnectQuote
  <2>3. QED
    BY <2>1, <2>2
<1>5. CASE SetDisconnected(t)
  BY <1>5 DEF TypeOK, SetDisconnected, upstream, local, history
<1>6. CASE AnnounceDisconnect(t)
  BY <1>6 DEF TypeOK, AnnounceDisconnect, Return, service, upstream, local, history
<1>7. CASE BeginConnect(t)
  BY <1>7 DEF TypeOK, BeginConnect, AfterQuote, service, upstream, local, history
<1>8. CASE ReconnectQuote(t)
  <2>1. /\ pc[t] = "quote" /\ pc'[t] \in {"quote set", "failed"}
        /\ UNCHANGED <<service, started, stuck>>
    BY <1>8, TypeParts DEF StepsOK, ReconnectQuote, history
  <2>2. /\ pc'[t] = "quote set" => quoteUp' = reply'[t]
        /\ pc'[t] = "failed" => quoteUp' = quoteUp
    BY <1>8, TypeParts DEF StepsOK, FlagsOK, ReconnectQuote
  <2>3. CASE pc'[t] = "quote set"
    <3>1. NoneRuns' /\ (quoteUp' => reply'[t])
      BY <2>1, <2>2, <2>3
    <3>2. QED
      BY <2>3, <3>1
  <2>4. CASE pc'[t] = "failed"
    <3>1. NoneRuns' /\ (quoteUp' => None \in stuck')
      BY <2>1, <2>2, <2>4
    <3>2. QED
      BY <2>4, <3>1
  <2>5. QED
    BY <2>1, <2>3, <2>4
<1>9. CASE SetQuote(t)
  BY <1>9 DEF TypeOK, SetQuote, AfterQuote, told, upstream, history
<1>10. CASE NoTraderClass(t)
  BY <1>10 DEF TypeOK, NoTraderClass, service, told, upstream, local, history
<1>11. CASE NewTrader(t)
  BY <1>11 DEF TypeOK, NewTrader, told, local, history
<1>12. CASE StartTrader(t)
  BY <1>12 DEF TypeOK, StartTrader, service, told, local, history
<1>13. CASE ConnectTrader(t)
  BY <1>13 DEF TypeOK, ConnectTrader, service, told, history
<1>14. CASE SetTrader(t)
  BY <1>14 DEF TypeOK, SetTrader, told, upstream, history
<1>15. CASE SubscribeAccount(t)
  BY <1>15 DEF TypeOK, SubscribeAccount, told, upstream, local, history
<1>16. CASE TraderRaises(t)
  BY <1>16 DEF TypeOK, TraderRaises, service, told, upstream, local, history
<1>17. CASE MarkSuccess(t)
  BY <1>17 DEF TypeOK, MarkSuccess, service, upstream, local, history
<1>18. CASE MarkError(t)
  BY <1>18 DEF TypeOK, MarkError, service, upstream, local, history
<1>19. CASE Announce(t)
  BY <1>19 DEF TypeOK, Announce, Return, service, upstream, local, history
<1>20. QED
  BY <1>1, <1>2, <1>3, <1>4, <1>5, <1>6, <1>7, <1>8, <1>9, <1>10, <1>11, <1>12, <1>13,
     <1>14, <1>15, <1>16, <1>17, <1>18, <1>19 DEF Serve

LEMMA LeftInvStep ==
  ASSUME TypeOK, NoOverlap, LeftInv, [Next]_vars
  PROVE  LeftInv'
<1>1. ASSUME NEW t \in Threads, NEW kind \in Kinds, Request(t, kind), ~everOverlapped'
      PROVE  ~AtRest' /\ \A u \in Threads : pc'[u] # "idle" => LeftAt(u)'
  <2>1. /\ AtRest /\ ~everOverlapped
        /\ pc'[t] = "stop" /\ \A u \in Threads \ {t} : pc'[u] = "idle"
        /\ UNCHANGED <<service, started, quoteUp, stuck>>
    BY <1>1 DEF TypeOK, Request, Goto, AtRest, upstream
  <2>2. OnlyOneRuns' /\ QuoteIsOwned'
    BY <2>1 DEF LeftInv, OnlyOneRuns, QuoteIsOwned, service
  <2>3. QED
    BY <2>1, <2>2 DEF AtRest, LeftAt, TraderGone, QuoteGone
<1>2. ASSUME NEW t \in Threads, Serve(t), ~everOverlapped'
      PROVE  /\ AtRest' => OnlyOneRuns' /\ QuoteIsOwned'
             /\ \A u \in Threads : pc'[u] # "idle" => LeftAt(u)'
  <2>1. /\ ~everOverlapped /\ pc[t] # "idle" /\ LeftAt(t)
        /\ \A u \in Threads \ {t} : pc'[u] = "idle"
    BY <1>2, ServeIsLocal DEF NoOverlap, OneAtATime, LeftInv
  <2>2. /\ pc'[t] = "idle" => OnlyOneRuns' /\ QuoteIsOwned'
        /\ pc'[t] # "idle" => LeftAt(t)'
    BY <1>2, <2>1, ServeLeaves
  <2>3. QED
    BY <2>1, <2>2 DEF AtRest
<1>3. ASSUME Drop, ~everOverlapped'
      PROVE  /\ AtRest' => OnlyOneRuns' /\ QuoteIsOwned'
             /\ \A u \in Threads : pc'[u] # "idle" => LeftAt(u)'
  <2>1. UNCHANGED <<service, started, pc, held, reply, stuck, everOverlapped>>
    BY <1>3 DEF Drop, local
  <2>2. quoteUp' => quoteUp
    BY <1>3 DEF Drop
  <2>3. ~everOverlapped
    BY <1>3, <2>1
  <2>4. AtRest' => OnlyOneRuns' /\ QuoteIsOwned'
    BY <2>1, <2>2, <2>3 DEF LeftInv, AtRest, OnlyOneRuns, QuoteIsOwned, service
  <2>5. ASSUME NEW u \in Threads, pc'[u] # "idle"
        PROVE  LeftAt(u)'
    <3>1. LeftAt(u)
      BY <2>1, <2>3, <2>5 DEF LeftInv
    <3>2. QED
      BY <2>1, <2>2, <3>1 DEF LeftAt, NoneRuns, OnlyOneRuns, QuoteIsOwned, service
  <2>6. QED
    BY <2>4, <2>5
<1>4. CASE UNCHANGED vars
  BY <1>4 DEF LeftInv, AtRest, LeftAt, NoneRuns, OnlyOneRuns, QuoteIsOwned, vars,
              service, upstream, local, history
<1>5. QED
  BY <1>1, <1>2, <1>3, <1>4 DEF LeftInv, Next

----
(***************************************************************************)
(* What the status says of xtquant.                                        *)
(***************************************************************************)
LEMMA ServeIsTrue ==
  ASSUME TypeOK, NEW t \in Threads, TrueAt(t), Serve(t)
  PROVE  TrueAt(t)' /\ (pc'[t] = "idle" => RestStatus')
<1> USE DEF TrueAt, NoTrader, Quoted, Connected, UpAndLinked, NewTraderAt, Failed, SuccessState, Goto
<1>1. CASE FindTrader(t)
  BY <1>1 DEF TypeOK, FindTrader, Undoing, service, told, upstream
<1>2. CASE StopTrader(t)
  BY <1>2 DEF TypeOK, StopTrader, Undoing, service, told
<1>3. CASE ClearTrader(t)
  BY <1>3 DEF TypeOK, ClearTrader, Undoing, told, upstream
<1>4. CASE DisconnectQuote(t)
  BY <1>4 DEF TypeOK, DisconnectQuote, service, told
<1>5. CASE SetDisconnected(t)
  BY <1>5 DEF TypeOK, SetDisconnected, upstream
<1>6. CASE AnnounceDisconnect(t)
  BY <1>6 DEF TypeOK, AnnounceDisconnect, Return, RestStatus, service, upstream
<1>7. CASE BeginConnect(t)
  BY <1>7, LifecycleAssumption DEF TypeOK, BeginConnect, AfterQuote, service, upstream
<1>8. CASE ReconnectQuote(t)
  BY <1>8 DEF TypeOK, ReconnectQuote, service, told
<1>9. CASE SetQuote(t)
  <2>1. NoTrader' /\ ~lastError' /\ connectQuote' /\ (reply[t] => quoteUp')
    BY <1>9 DEF SetQuote, told, upstream
  <2>2. \/ quoteConnected' = reply[t] /\ pc'[t] = IF reply[t] THEN AfterQuote ELSE "failed"
        \/ ~quoteConnected' /\ pc'[t] = "failed"
    BY <1>9 DEF TypeOK, SetQuote
  <2>3. CASE pc'[t] = "failed" /\ ~quoteConnected'
    BY <2>1, <2>3
  <2>4. CASE pc'[t] = AfterQuote /\ reply[t] /\ quoteConnected'
    <3>1. Quoted' /\ (HasTrader => pc'[t] = "trader") /\ (~HasTrader => pc'[t] = "succeeded")
      BY <2>1, <2>4 DEF AfterQuote
    <3>2. QED
      BY <2>1, <3>1
  <2>5. QED
    BY <1>9, <2>2, <2>3, <2>4 DEF TypeOK, AfterQuote
<1>10. CASE NoTraderClass(t)
  BY <1>10 DEF TypeOK, NoTraderClass, service, told, upstream
<1>11. CASE NewTrader(t)
  <2>1. trader' # None
    BY <1>11, TypeParts DEF NumbersOK, NewTrader, None
  <2>2. QED
    BY <1>11, <2>1 DEF TypeOK, NewTrader, told
<1>12. CASE StartTrader(t)
  BY <1>12 DEF TypeOK, StartTrader, service, told
<1>13. CASE ConnectTrader(t)
  BY <1>13 DEF TypeOK, ConnectTrader, service, told
<1>14. CASE SetTrader(t)
  BY <1>14 DEF TypeOK, SetTrader, told, upstream
<1>15. CASE SubscribeAccount(t)
  BY <1>15 DEF TypeOK, SubscribeAccount, told, upstream
<1>16. CASE TraderRaises(t)
  BY <1>16 DEF TypeOK, TraderRaises, service, told, upstream
<1>17. CASE MarkSuccess(t)
  <2>1. pc[t] = "succeeded" /\ pc'[t] = "announce success" /\ ~lastError'
    BY <1>17 DEF TypeOK, MarkSuccess
  <2>2. Quoted /\ (traderConnected \/ ~HasTrader)
    BY <2>1
  <2>3. state' = SuccessState'
    BY <1>17, <2>2 DEF MarkSuccess, service
  <2>4. Connected'
    BY <1>17, <2>1 DEF MarkSuccess, service, upstream
  <2>5. QED
    BY <2>1, <2>3, <2>4
<1>18. CASE MarkError(t)
  BY <1>18 DEF TypeOK, MarkError, service, upstream
<1>19. CASE Announce(t)
  BY <1>19 DEF TypeOK, Announce, Return, RestStatus, service, upstream
<1>20. QED
  BY <1>1, <1>2, <1>3, <1>4, <1>5, <1>6, <1>7, <1>8, <1>9, <1>10, <1>11, <1>12, <1>13,
     <1>14, <1>15, <1>16, <1>17, <1>18, <1>19 DEF Serve

LEMMA IdleIsTrue ==
  ASSUME NEW t \in Threads, pc[t] \in {"idle", "stop"}
  PROVE  TrueAt(t)
BY DEF TrueAt

LEMMA IdleIsTrueNext ==
  ASSUME NEW t \in Threads, pc'[t] \in {"idle", "stop"}
  PROVE  TrueAt(t)'
BY DEF TrueAt

LEMMA StatusInvStep ==
  ASSUME TypeOK, NoOverlap, StatusInv, [Next]_vars
  PROVE  StatusInv'
<1>1. ASSUME NEW t \in Threads, NEW kind \in Kinds, Request(t, kind), ~overlapped'
      PROVE  ~AtRest' /\ \A u \in Threads : TrueAt(u)'
  <2>1. pc'[t] = "stop" /\ \A u \in Threads \ {t} : pc'[u] = "idle"
    BY <1>1 DEF TypeOK, Request, Goto, AtRest
  <2>2. QED
    BY <2>1, IdleIsTrueNext DEF AtRest
<1>2. ASSUME NEW t \in Threads, Serve(t), ~overlapped', ~dropped'
      PROVE  (AtRest' => RestStatus') /\ \A u \in Threads : TrueAt(u)'
  <2>1. /\ ~overlapped /\ ~dropped /\ TrueAt(t)
        /\ \A u \in Threads \ {t} : pc'[u] = "idle"
    BY <1>2, ServeIsLocal DEF NoOverlap, OneAtATime, StatusInv
  <2>2. TrueAt(t)' /\ (pc'[t] = "idle" => RestStatus')
    BY <1>2, <2>1, ServeIsTrue
  <2>3. QED
    BY <2>1, <2>2, IdleIsTrueNext DEF AtRest
<1>3. CASE Drop
  BY <1>3 DEF StatusInv, Drop
<1>4. CASE UNCHANGED vars
  <2>1. UNCHANGED <<service, told, upstream, pc, reply, history, requests>>
    BY <1>4 DEF vars, local
  <2>2. UNCHANGED <<AtRest, RestStatus>>
    BY <2>1 DEF AtRest, RestStatus, SuccessState, NoTrader, Quoted, Connected, UpAndLinked, Failed,
                service, told, upstream
  <2>3. /\ NoTrader' = NoTrader /\ Quoted' = Quoted /\ Connected' = Connected
        /\ SuccessState' = SuccessState
        /\ NewTraderAt' = NewTraderAt /\ Failed' = Failed
    BY <2>1 DEF NoTrader, Quoted, Connected, SuccessState, UpAndLinked, NewTraderAt, Failed,
                service, told, upstream
  <2>4. ASSUME NEW t \in Threads, TrueAt(t)
        PROVE  TrueAt(t)'
    <3>1. /\ pc'[t] = pc[t] /\ reply'[t] = reply[t] /\ connectQuote' = connectQuote
          /\ trader' = trader /\ quoteConnected' = quoteConnected
          /\ state' = state /\ lastError' = lastError
          /\ started' = started /\ linked' = linked /\ quoteUp' = quoteUp
      BY <2>1 DEF service, told, upstream
    <3>2. QED
      BY <2>3, <2>4, <3>1 DEF TrueAt
  <2>5. QED
    BY <2>1, <2>2, <2>4 DEF StatusInv, history
<1>5. QED
  BY <1>1, <1>2, <1>3, <1>4 DEF StatusInv, Next

----
LifecycleInv == NoOverlap /\ LeftInv /\ StatusInv

LEMMA LifecycleInvariant == Spec => []LifecycleInv
<1>1. Init => LifecycleInv
  BY DEF Init, LifecycleInv, NoOverlap, OneAtATime, LeftInv, OnlyOneRuns, QuoteIsOwned,
         StatusInv, AtRest, RestStatus, NoTrader, TrueAt
<1>2. TypeOK /\ LifecycleInv /\ [Next]_vars => LifecycleInv'
  BY NoOverlapStep, LeftInvStep, StatusInvStep DEF LifecycleInv
<1>3. QED
  BY <1>1, <1>2, TypeInvariant, PTL DEF Spec

(***************************************************************************)
(* The fields of the service, the traders and the requests stay within     *)
(* their types, however requests overlap and connections drop.             *)
(***************************************************************************)
THEOREM TypeCorrect == Spec => []TypeOK
BY TypeInvariant

(***************************************************************************)
(* One request after the other never leaves a trader or a connection of    *)
(* xtdata behind, whichever of the calls fail, except what refused to be   *)
(* stopped.                                                                *)
(***************************************************************************)
THEOREM NothingIsLeftBehindHolds == Spec => []NothingIsLeftBehind
<1>1. LifecycleInv => NothingIsLeftBehind
  BY DEF LifecycleInv, LeftInv, OnlyOneRuns, QuoteIsOwned, NothingIsLeftBehind,
         NoTraderIsForgotten
<1>2. QED
  BY <1>1, LifecycleInvariant, PTL

(***************************************************************************)
(* The status of a service at rest is true of xtquant unless requests      *)
(* overlapped or MiniQMT dropped a connection since it rested last.        *)
(***************************************************************************)
THEOREM StatusIsTrueHolds == Spec => []StatusIsTrue
<1>1. ASSUME TypeOK, LifecycleInv, AtRest, ~overlapped, ~dropped
      PROVE  /\ quoteConnected => quoteUp
             /\ TargetReady => trader \in started \intersect linked
             /\ (trader # None) = traderConnected
             /\ accountSubscribed => TargetReady
             /\ CASE state = "connected"    -> quoteConnected /\ (TargetReady = HasTrader) /\ announced = "qmt_connected"
                  [] state = "partial"      -> \/ quoteConnected /\ HasTrader /\ ~TargetReady /\ announced = "qmt_error"
                                               \/ ~connectQuote /\ ~quoteConnected /\ (TargetReady = HasTrader)
                                                    /\ announced = "qmt_connected"
                  [] state = "error"        -> ~quoteConnected /\ ~TargetReady /\ announced = "qmt_error"
                  [] state = "disconnected" -> ~quoteConnected /\ ~TargetReady /\ announced = "qmt_disconnected"
                  [] state = "new"          -> requests = 0
                  [] OTHER                  -> FALSE
             /\ state # "disconnected" => lastError = (announced = "qmt_error")
  <2>1. RestStatus
    BY <1>1 DEF LifecycleInv, StatusInv
  <2>2. CASE state = SuccessState /\ Connected /\ announced = "qmt_connected"
    <3>1. /\ quoteConnected <=> connectQuote
          /\ (quoteConnected => quoteUp)
          /\ TargetReady = HasTrader /\ (trader # None) = traderConnected
          /\ TargetReady => trader \in started \intersect linked
          /\ accountSubscribed => TargetReady
          /\ ~lastError
      BY <1>1, <2>2, LifecycleAssumption DEF TypeOK, Connected, Quoted, NoTrader, UpAndLinked, TargetReady
    <3>2. state = IF connectQuote THEN "connected" ELSE "partial"
      BY <2>2 DEF SuccessState
    <3>3. lastError = (announced = "qmt_error")
      BY <1>1, <2>2, <3>1 DEF TypeOK
    <3>4. CASE connectQuote
      <4>1. state = "connected" /\ quoteConnected
        BY <3>1, <3>2, <3>4
      <4>2. QED
        BY <2>2, <3>1, <3>3, <4>1
    <3>5. CASE ~connectQuote
      <4>1. state = "partial" /\ ~quoteConnected
        BY <3>1, <3>2, <3>5
      <4>2. QED
        BY <2>2, <3>1, <3>3, <3>5, <4>1
    <3>6. QED
      BY <3>4, <3>5
  <2>3. CASE /\ state \in {"partial", "error"} /\ Failed /\ lastError
             /\ announced = "qmt_error"
             /\ state = IF quoteConnected THEN "partial" ELSE "error"
    BY <1>1, <2>3 DEF TypeOK, Failed, NoTrader, TargetReady
  <2>4. CASE /\ state = "disconnected" /\ NoTrader /\ ~quoteConnected
             /\ announced = "qmt_disconnected"
    BY <1>1, <2>4 DEF TypeOK, NoTrader, TargetReady
  <2>5. CASE /\ state = "new" /\ NoTrader /\ ~quoteConnected /\ announced = "none"
             /\ ~lastError /\ requests = 0
    BY <1>1, <2>5 DEF TypeOK, NoTrader, TargetReady
  <2>6. QED
    BY <2>1, <2>2, <2>3, <2>4, <2>5 DEF RestStatus
<1>2. TypeOK /\ LifecycleInv => StatusIsTrue
  BY <1>1 DEF StatusIsTrue
<1>3. QED
  BY <1>2, TypeInvariant, LifecycleInvariant, PTL
====
