---- MODULE Subscriptions_proofs ----
(***************************************************************************)
(* Theorems about Subscriptions for every number of ids, symbols, clients, *)
(* requests and quotes.                                                    *)
(*                                                                         *)
(* LiveHandlesAreKnown speaks of ids nobody works on.  While a request is  *)
(* under way, its step tells which handles xtdata still serves for its id: *)
(* those of the record that are not cancelled yet, then none, then those   *)
(* the request has got so far.  Clients that wait for an answer before     *)
(* they name the id again keep two requests of one id apart, and a handle  *)
(* belongs to one id, so that no request cancels those of another.         *)
(***************************************************************************)
EXTENDS Subscriptions, TLAPS

IdleHasNoId == \A c \in Clients : mine[c] \in Ids <=> pc[c] # "idle"

Alone == \A c, d \in Clients : mine[c] \in Ids /\ mine[c] = mine[d] => c = d

\* Handles are numbers xtdata has given out.
GivenOut ==
  /\ live \subseteq (1 .. made) \X Ids
  /\ \A id \in Ids : handles[id] \subseteq 1 .. made
  /\ \A c \in Clients : old[c] \subseteq 1 .. made /\ new[c] \subseteq 1 .. made

\* A handle that is served belongs to the record or request that names it.
OwnHandles ==
  \A h \in 1 .. made, x \in Ids : <<h, x>> \in live =>
    /\ \A id \in Ids : h \in handles[id] => x = id
    /\ \A c \in Clients : h \in new[c] => x = mine[c]

\* The handles the record shows.
Shown(id) == IF status[id] = "active" THEN handles[id] ELSE {}

Served(id, H) == HandlesOf(id) \ astray = H \ astray

\* What xtdata serves at each step of a request.
Phase(c) ==
  /\ pc[c] \notin {"subscribe", "seed"} => new[c] = {}
  /\ pc[c] \in {"find", "cancel", "write"} => old[c] \subseteq handles[mine[c]]
  /\ pc[c] = "find" => old[c] = handles[mine[c]] /\ Served(mine[c], Shown(mine[c]))
  /\ pc[c] = "cancel" => Served(mine[c], Shown(mine[c]) \intersect old[c])
  /\ pc[c] \in {"subscribe", "seed"} => Served(mine[c], new[c])
  /\ pc[c] \in {"read", "write"} => Served(mine[c], {})

HandlesInv ==
  /\ TypeOK
  /\ IdleHasNoId
  /\ Alone
  /\ GivenOut
  /\ OwnHandles
  /\ \A c \in Clients : Phase(c)
  /\ LiveHandlesAreKnown

Steps == {"idle", "find", "cancel", "subscribe", "seed", "read", "write"}
----
(***************************************************************************)
(* Types.                                                                  *)
(***************************************************************************)
LEMMA TypeInit == Init => TypeOK
BY SubscriptionAssumption DEF Init, TypeOK, Statuses, NoQuote

LEMMA ReturnTypes ==
  ASSUME TypeOK, NEW c \in Clients, Return(c)
  PROVE  /\ pc' \in [Clients -> Steps]
         /\ op' \in [Clients -> {"none", "create", "stop", "recover"}]
         /\ mine' \in [Clients -> Ids \union {NoId}]
         /\ old' \in [Clients -> SUBSET Nat] /\ new' \in [Clients -> SUBSET Nat]
         /\ pc'[c] = "idle" /\ mine'[c] = NoId /\ old'[c] = {} /\ new'[c] = {}
         /\ \A d \in Clients \ {c} : /\ pc'[d] = pc[d] /\ mine'[d] = mine[d]
                                     /\ old'[d] = old[d] /\ new'[d] = new[d]
BY DEF TypeOK, Return, Steps

LEMMA BeginTypes ==
  ASSUME TypeOK, NEW c \in Clients, NEW id \in Ids,
         NEW name \in {"create", "stop", "recover"}, Begin(c, id, name)
  PROVE  /\ op' \in [Clients -> {"none", "create", "stop", "recover"}]
         /\ mine' \in [Clients -> Ids \union {NoId}]
         /\ requests' \in 0 .. MaxRequests
BY SubscriptionAssumption DEF TypeOK, Begin

LEMMA RequestTypes ==
  ASSUME TypeOK, NEW c \in Clients, NEW id \in Ids,
         Create(c, id) \/ Stop(c, id) \/ Recover(c, id)
  PROVE  TypeOK'
<1>1. CASE Create(c, id)
  <2>1. Begin(c, id, "create")
    BY <1>1 DEF Create
  <2>2. /\ op' \in [Clients -> {"none", "create", "stop", "recover"}]
        /\ mine' \in [Clients -> Ids \union {NoId}]
        /\ requests' \in 0 .. MaxRequests
    BY <2>1, BeginTypes
  <2>3. QED
    BY <1>1, <2>2 DEF TypeOK, Create, Goto, Statuses, upstream, quotes
<1>2. CASE Stop(c, id)
  <2>1. Begin(c, id, "stop")
    BY <1>2 DEF Stop
  <2>2. /\ op' \in [Clients -> {"none", "create", "stop", "recover"}]
        /\ mine' \in [Clients -> Ids \union {NoId}]
        /\ requests' \in 0 .. MaxRequests
    BY <2>1, BeginTypes
  <2>3. /\ pc' \in [Clients -> Steps] /\ old' \in [Clients -> SUBSET Nat]
    BY <1>2 DEF TypeOK, Stop, Goto, Steps
  <2>4. QED
    BY <1>2, <2>2, <2>3 DEF TypeOK, Stop, Steps, upstream, quotes
<1>3. CASE Recover(c, id)
  <2>1. Begin(c, id, "recover")
    BY <1>3 DEF Recover
  <2>2. /\ op' \in [Clients -> {"none", "create", "stop", "recover"}]
        /\ mine' \in [Clients -> Ids \union {NoId}]
        /\ requests' \in 0 .. MaxRequests
    BY <2>1, BeginTypes
  <2>3. /\ pc' \in [Clients -> Steps] /\ old' \in [Clients -> SUBSET Nat]
    BY <1>3 DEF TypeOK, Recover, Goto, Steps
  <2>4. QED
    BY <1>3, <2>2, <2>3 DEF TypeOK, Recover, Steps, upstream, quotes
<1>4. QED
  BY <1>1, <1>2, <1>3

LEMMA AdapterTypes ==
  ASSUME TypeOK, IdleHasNoId, GivenOut, NEW c \in Clients,
         \/ FindCancel(c) \/ CancelOne(c) \/ CancelRaises(c) \/ Cancelled(c)
         \/ SubscribeOne(c) \/ SubscribeRaises(c) \/ Subscribed(c)
  PROVE  TypeOK'
<1>1. CASE FindCancel(c)
  BY <1>1 DEF TypeOK, FindCancel, Goto, upstream, quotes
<1>2. CASE CancelOne(c)
  BY <1>2 DEF TypeOK, CancelOne, quotes
<1>3. CASE CancelRaises(c)
  <2>1. /\ pc' \in [Clients -> Steps]
        /\ op' \in [Clients -> {"none", "create", "stop", "recover"}]
        /\ mine' \in [Clients -> Ids \union {NoId}]
        /\ old' \in [Clients -> SUBSET Nat] /\ new' \in [Clients -> SUBSET Nat]
    BY <1>3, ReturnTypes DEF CancelRaises
  <2>2. astray' \subseteq 1 .. made
    BY <1>3 DEF CancelRaises, TypeOK, IdleHasNoId, GivenOut
  <2>3. QED
    BY <1>3, <2>1, <2>2 DEF TypeOK, CancelRaises, Steps, quotes
<1>4. CASE Cancelled(c)
  BY <1>4 DEF TypeOK, Cancelled, Goto, upstream, quotes
<1>5. CASE SubscribeOne(c)
  <2>1. mine[c] \in Ids
    BY <1>5 DEF SubscribeOne, IdleHasNoId
  <2>2. /\ made' \in Nat /\ live' \subseteq Nat \X Ids /\ astray' \subseteq 1 .. made'
        /\ new' \in [Clients -> SUBSET Nat]
    BY <1>5, <2>1 DEF TypeOK, SubscribeOne
  <2>3. QED
    BY <1>5, <2>2 DEF TypeOK, SubscribeOne, quotes
<1>6. CASE SubscribeRaises(c)
  BY <1>6 DEF TypeOK, GivenOut, SubscribeRaises, Goto, quotes
<1>7. CASE Subscribed(c)
  BY <1>7 DEF TypeOK, Subscribed, Goto, upstream, quotes
<1>8. QED
  BY <1>1, <1>2, <1>3, <1>4, <1>5, <1>6, <1>7

LEMMA RecordTypes ==
  ASSUME TypeOK, IdleHasNoId, NEW c \in Clients,
         Activate(c) \/ ReadRecord(c) \/ WriteRecord(c)
  PROVE  TypeOK'
<1>1. CASE Activate(c) \/ WriteRecord(c)
  <2>1. /\ pc' \in [Clients -> Steps]
        /\ op' \in [Clients -> {"none", "create", "stop", "recover"}]
        /\ mine' \in [Clients -> Ids \union {NoId}]
        /\ old' \in [Clients -> SUBSET Nat] /\ new' \in [Clients -> SUBSET Nat]
    BY <1>1, ReturnTypes DEF Activate, WriteRecord
  <2>2. status' \in [Ids -> Statuses] /\ handles' \in [Ids -> SUBSET Nat]
    BY <1>1 DEF TypeOK, IdleHasNoId, Activate, WriteRecord, Statuses
  <2>3. QED
    BY <1>1, <2>1, <2>2 DEF TypeOK, Activate, WriteRecord, Steps, upstream, quotes
<1>2. CASE ReadRecord(c)
  <2>1. old' \in [Clients -> SUBSET Nat]
    BY <1>2 DEF TypeOK, IdleHasNoId, ReadRecord
  <2>2. QED
    BY <1>2, <2>1 DEF TypeOK, ReadRecord, Goto, upstream, quotes
<1>3. QED
  BY <1>1, <1>2

LEMMA QuoteTypes ==
  ASSUME TypeOK, NEW x \in Clients \union Callers,
         (\E id : Receive(x, id)) \/ RecordQuote(x) \/ PublishQuote(x)
  PROVE  TypeOK' /\ UNCHANGED <<status, handles, upstream, local>>
<1>1. ASSUME NEW id, Receive(x, id)
      PROVE  TypeOK' /\ UNCHANGED <<status, handles, upstream, local>>
  <2>1. seq' \in 0 .. MaxQuotes /\ seq + 1 \in 0 .. MaxQuotes
    BY <1>1, SubscriptionAssumption DEF TypeOK, Receive
  <2>2. quote' \in [Clients \union Callers -> [step : {"none", "record", "publish"}, seq : 0 .. MaxQuotes]]
    BY <1>1, <2>1 DEF TypeOK, Receive
  <2>3. QED
    BY <1>1, <2>1, <2>2 DEF TypeOK, Receive, upstream, local
<1>2. CASE RecordQuote(x)
  <2>1. quote[x] \in [step : {"none", "record", "publish"}, seq : 0 .. MaxQuotes]
    BY DEF TypeOK
  <2>2. [quote[x] EXCEPT !.step = "publish"] \in [step : {"none", "record", "publish"}, seq : 0 .. MaxQuotes]
    BY <2>1
  <2>3. quote' = [quote EXCEPT ![x] = [quote[x] EXCEPT !.step = "publish"]]
    BY <1>2 DEF RecordQuote
  <2>4. quote' \in [Clients \union Callers -> [step : {"none", "record", "publish"}, seq : 0 .. MaxQuotes]]
    BY <2>2, <2>3 DEF TypeOK
  <2>5. QED
    BY <1>2, <2>1, <2>4 DEF TypeOK, RecordQuote, upstream, local
<1>3. CASE PublishQuote(x)
  <2>1. NoQuote \in [step : {"none", "record", "publish"}, seq : 0 .. MaxQuotes]
    BY SubscriptionAssumption DEF NoQuote
  <2>2. quote' \in [Clients \union Callers -> [step : {"none", "record", "publish"}, seq : 0 .. MaxQuotes]]
    BY <1>3, <2>1 DEF TypeOK, PublishQuote
  <2>3. quote[x].seq \in 0 .. MaxQuotes
    BY DEF TypeOK
  <2>4. QED
    BY <1>3, <2>2, <2>3 DEF TypeOK, PublishQuote, upstream, local
<1>4. QED
  BY <1>1, <1>2, <1>3


----
(***************************************************************************)
(* What the step of a request makes of its id, and leaves of the others.   *)
(***************************************************************************)
OthersUntouched(c, id) ==
  /\ \A d \in Clients \ {c} :
       pc'[d] = pc[d] /\ mine'[d] = mine[d] /\ old'[d] = old[d] /\ new'[d] = new[d]
  /\ \A x \in Ids \ {id} :
       status'[x] = status[x] /\ handles'[x] = handles[x] /\ HandlesOf(x)' = HandlesOf(x)
  /\ astray \subseteq astray'

Advanced(c, id) ==
  /\ OthersUntouched(c, id)
  /\ pc'[c] = "idle" => mine'[c] = NoId /\ new'[c] = {} /\ Served(id, Shown(id))'
  /\ pc'[c] # "idle" => mine'[c] = id /\ Phase(c)'
  /\ GivenOut'
  /\ OwnHandles'

\* Handles that went astray are exempt, so more of them do no harm.
LEMMA ServedStays ==
  ASSUME NEW id, NEW H, Served(id, H), HandlesOf(id)' = HandlesOf(id), astray \subseteq astray'
  PROVE  HandlesOf(id)' \ astray' = H \ astray'
BY DEF Served

LEMMA RequestAdvances ==
  ASSUME HandlesInv, OnePerId, NEW c \in Clients, NEW id \in Ids,
         Create(c, id) \/ Stop(c, id) \/ Recover(c, id)
  PROVE  /\ pc[c] = "idle" /\ (\A d \in Clients : mine[d] # id)
         /\ pc'[c] # "idle" /\ Advanced(c, id)
<1>1. TypeOK /\ GivenOut /\ OwnHandles /\ Phase(c)
  BY DEF HandlesInv
<1>2. pc[c] = "idle" /\ (\A d \in Clients : mine[d] # id) /\ mine' = [mine EXCEPT ![c] = id]
  BY DEF Create, Stop, Recover, Begin
<1>3. Served(id, Shown(id)) /\ new[c] = {}
  BY <1>1, <1>2 DEF HandlesInv, LiveHandlesAreKnown, Served, Shown, Phase
<1>4. UNCHANGED <<handles, live, made, astray, new>> /\ HandlesOf(id)' = HandlesOf(id)
  BY DEF Create, Stop, Recover, upstream, HandlesOf
<1>5. mine'[c] = id /\ \A d \in Clients \ {c} : mine'[d] = mine[d]
  BY <1>1, <1>2 DEF TypeOK
<1>6. \A d \in Clients \ {c} : pc'[d] = pc[d] /\ old'[d] = old[d]
  BY <1>1 DEF TypeOK, Create, Stop, Recover, Goto
<1>7. \A x \in Ids \ {id} : status'[x] = status[x] /\ HandlesOf(x)' = HandlesOf(x)
  BY <1>1, <1>4 DEF TypeOK, Create, Stop, Recover, HandlesOf
<1>8. OthersUntouched(c, id)
  BY <1>4, <1>5, <1>6, <1>7 DEF OthersUntouched
<1>9. OwnHandles'
  <2>1. \A d \in Clients : new'[d] # {} => d # c
    BY <1>3, <1>4
  <2>2. QED
    BY <1>1, <1>4, <1>5, <2>1 DEF OwnHandles
<1>10. pc'[c] # "idle" /\ Phase(c)' /\ old'[c] \subseteq 1 .. made
  <2>1. CASE Create(c, id)
    <3>1. pc'[c] = "subscribe" /\ old' = old
      BY <1>1, <2>1 DEF TypeOK, Create, Goto
    <3>2. Shown(id) = {}
      BY <2>1 DEF Create, Shown
    <3>3. Served(mine[c], new[c])'
      BY <1>3, <1>4, <1>5, <3>2 DEF Served
    <3>4. QED
      BY <1>1, <3>1, <3>3 DEF Phase, GivenOut
  <2>2. CASE (Stop(c, id) /\ status[id] = "stopped") \/ (Recover(c, id) /\ status[id] # "active")
    <3>1. pc'[c] \in {"read", "subscribe"} /\ old' = old
      BY <1>1, <2>2 DEF TypeOK, Stop, Recover, Goto
    <3>2. Shown(id) = {}
      BY <2>2 DEF Shown
    <3>3. Served(mine[c], {})' /\ Served(mine[c], new[c])'
      BY <1>3, <1>4, <1>5, <3>2 DEF Served
    <3>4. new'[c] = {}
      BY <1>3, <1>4
    <3>5. QED
      BY <1>1, <3>1, <3>3, <3>4 DEF Phase, GivenOut
  <2>3. CASE (Stop(c, id) /\ status[id] # "stopped") \/ (Recover(c, id) /\ status[id] = "active")
    <3>1. pc'[c] = "find" /\ old'[c] = handles[id] /\ status' = status
      BY <1>1, <2>3 DEF TypeOK, Stop, Recover, Goto
    <3>2. Served(mine[c], Shown(mine[c]))'
      BY <1>3, <1>4, <1>5, <3>1 DEF Served, Shown
    <3>3. new'[c] = {} /\ old'[c] = handles'[mine'[c]]
      BY <1>3, <1>4, <1>5, <3>1
    <3>4. QED
      BY <1>1, <3>1, <3>2, <3>3 DEF Phase, GivenOut
  <2>4. QED
    BY <2>1, <2>2, <2>3
<1>11. GivenOut'
  BY <1>1, <1>4, <1>6, <1>10 DEF GivenOut
<1>12. QED
  BY <1>2, <1>5, <1>8, <1>9, <1>10, <1>11 DEF Advanced


\* The adapter cancels what the record showed, one handle at a time.
LEMMA CancelAdvances ==
  ASSUME HandlesInv, NEW c \in Clients, NEW id \in Ids, mine[c] = id,
         FindCancel(c) \/ CancelOne(c) \/ CancelRaises(c) \/ Cancelled(c)
  PROVE  Advanced(c, id)
<1>1. TypeOK /\ GivenOut /\ OwnHandles /\ Phase(c) /\ mine[c] = id
  BY DEF HandlesInv
<1>2. CASE FindCancel(c) \/ Cancelled(c)
  <2>1. /\ UNCHANGED <<status, handles, live, made, astray, mine, old, new>>
        /\ \A d \in Clients \ {c} : pc'[d] = pc[d]
    BY <1>1, <1>2 DEF TypeOK, FindCancel, Cancelled, Goto, upstream
  <2>2. OthersUntouched(c, id) /\ GivenOut' /\ OwnHandles' /\ HandlesOf(id)' = HandlesOf(id)
    BY <1>1, <2>1 DEF OthersUntouched, GivenOut, OwnHandles, HandlesOf
  <2>3. pc'[c] # "idle" /\ Phase(c)'
    <3>1. CASE FindCancel(c)
      <4>1. pc[c] = "find" /\ pc'[c] = "cancel"
        BY <1>1, <3>1 DEF TypeOK, FindCancel, Goto
      <4>2. old[c] = handles[id] /\ Served(id, Shown(id)) /\ new[c] = {}
        BY <1>1, <4>1 DEF Phase
      <4>3. Served(id, Shown(id) \intersect old[c])
        BY <4>2 DEF Served, Shown
      <4>4. Served(mine[c], Shown(mine[c]) \intersect old[c])'
        BY <2>1, <2>2, <4>3 DEF Served, Shown
      <4>5. QED
        BY <2>1, <4>1, <4>2, <4>4 DEF Phase
    <3>2. CASE Cancelled(c)
      <4>1. pc[c] = "cancel" /\ pc'[c] \in {"read", "subscribe"} /\ old[c] = {}
        BY <1>1, <3>2 DEF TypeOK, Cancelled, Goto
      <4>2. Served(id, {}) /\ new[c] = {}
        BY <1>1, <4>1 DEF Phase, Served
      <4>3. Served(mine[c], {})' /\ new'[c] = {}
        BY <2>1, <2>2, <4>2 DEF Served
      <4>4. QED
        BY <4>1, <4>3 DEF Phase
    <3>3. QED
      BY <1>2, <3>1, <3>2
  <2>4. QED
    BY <2>1, <2>2, <2>3 DEF Advanced
<1>3. CASE CancelOne(c)
  <2>1. PICK h \in old[c] : /\ live' = {l \in live : l[1] # h}
                            /\ old' = [old EXCEPT ![c] = @ \ {h}]
    BY <1>3 DEF CancelOne
  <2>2. UNCHANGED <<status, handles, made, astray, pc, mine, new>> /\ pc[c] = "cancel"
    BY <1>3 DEF CancelOne
  <2>3. /\ old[c] \subseteq handles[id] /\ new[c] = {}
        /\ Served(id, Shown(id) \intersect old[c])
    BY <1>1, <2>2 DEF Phase
  <2>4. old'[c] = old[c] \ {h} /\ \A d \in Clients \ {c} : old'[d] = old[d]
    BY <1>1, <2>1 DEF TypeOK
  <2>5. HandlesOf(id)' = HandlesOf(id) \ {h}
    BY <2>1, <2>2 DEF HandlesOf
  <2>6. \A x \in Ids \ {id} : HandlesOf(x)' = HandlesOf(x)
    <3>1. \A x \in Ids \ {id} : h \notin HandlesOf(x)
      BY <1>1, <2>3 DEF OwnHandles, HandlesOf
    <3>2. QED
      BY <2>1, <2>2, <3>1 DEF HandlesOf
  <2>7. OthersUntouched(c, id)
    BY <2>2, <2>4, <2>6 DEF OthersUntouched
  <2>8. GivenOut' /\ OwnHandles'
    BY <1>1, <2>1, <2>2, <2>4 DEF GivenOut, OwnHandles
  <2>9. Served(mine[c], Shown(mine[c]) \intersect old[c])'
    BY <2>2, <2>3, <2>4, <2>5 DEF Served, Shown
  <2>10. Phase(c)' /\ pc'[c] # "idle" /\ mine'[c] = id
    BY <2>2, <2>3, <2>4, <2>9 DEF Phase
  <2>11. QED
    BY <2>7, <2>8, <2>10 DEF Advanced
<1>4. CASE CancelRaises(c)
  <2>1. Return(c) /\ UNCHANGED <<status, handles, live, made>>
    BY <1>4 DEF CancelRaises
  <2>2. /\ pc'[c] = "idle" /\ mine'[c] = NoId /\ old'[c] = {} /\ new'[c] = {}
        /\ \A d \in Clients \ {c} : /\ pc'[d] = pc[d] /\ mine'[d] = mine[d]
                                    /\ old'[d] = old[d] /\ new'[d] = new[d]
    BY <1>1, <2>1, ReturnTypes
  <2>3. \A x : HandlesOf(x)' = HandlesOf(x)
    BY <2>1 DEF HandlesOf
  <2>4. astray \subseteq astray' /\ Served(id, Shown(id))'
    <3>1. CASE pc[c] = "find" /\ astray' = astray
      <4>1. Served(id, Shown(id))
        BY <1>1, <3>1 DEF Phase
      <4>2. HandlesOf(id) \ astray = Shown(id) \ astray
        BY <4>1 DEF Served
      <4>3. HandlesOf(id)' \ astray' = Shown(id)' \ astray'
        BY <2>1, <2>3, <3>1, <4>2 DEF Shown
      <4>4. QED
        BY <3>1, <4>3 DEF Served
    <3>2. CASE pc[c] = "cancel" /\ astray' = astray \union (handles[id] \ old[c])
      <4>1. Served(id, Shown(id) \intersect old[c]) /\ old[c] \subseteq handles[id]
        BY <1>1, <3>2 DEF Phase
      <4>2. HandlesOf(id) \ astray = (Shown(id) \intersect old[c]) \ astray
        BY <4>1 DEF Served
      <4>3. Shown(id) \subseteq handles[id]
        BY DEF Shown
      <4>4. HandlesOf(id) \ astray' = Shown(id) \ astray'
        BY <3>2, <4>1, <4>2, <4>3
      <4>5. HandlesOf(id)' \ astray' = Shown(id)' \ astray'
        BY <2>1, <2>3, <4>4 DEF Shown
      <4>6. QED
        BY <3>2, <4>5 DEF Served
    <3>3. QED
      BY <1>4, <3>1, <3>2 DEF CancelRaises
  <2>5. OthersUntouched(c, id)
    BY <2>1, <2>2, <2>3, <2>4 DEF OthersUntouched
  <2>6. GivenOut' /\ OwnHandles'
    BY <1>1, <2>1, <2>2 DEF GivenOut, OwnHandles
  <2>7. QED
    BY <2>2, <2>4, <2>5, <2>6 DEF Advanced
<1>5. QED
  BY <1>2, <1>3, <1>4

\* The handles xtdata gives out are new, and the request holds them.
LEMMA SubscribeAdvances ==
  ASSUME HandlesInv, NEW c \in Clients, NEW id \in Ids, mine[c] = id,
         SubscribeOne(c) \/ SubscribeRaises(c) \/ Subscribed(c)
  PROVE  Advanced(c, id)
<1>1. TypeOK /\ GivenOut /\ OwnHandles /\ Phase(c) /\ mine[c] = id
  BY DEF HandlesInv
<1>2. pc[c] = "subscribe" /\ HandlesOf(id) \ astray = new[c] \ astray
  BY <1>1 DEF SubscribeOne, SubscribeRaises, Subscribed, Phase, Served
<1>3. CASE SubscribeOne(c)
  <2>1. /\ made' = made + 1 /\ live' = live \union {<<made + 1, id>>}
        /\ new' = [new EXCEPT ![c] = @ \union {made + 1}]
        /\ UNCHANGED <<status, handles, astray, pc, mine, old>>
    BY <1>3 DEF SubscribeOne
  <2>2. new'[c] = new[c] \union {made + 1} /\ \A d \in Clients \ {c} : new'[d] = new[d]
    BY <1>1, <2>1 DEF TypeOK
  <2>3. made \in Nat /\ astray \subseteq 1 .. made
    BY <1>1 DEF TypeOK
  <2>4. HandlesOf(id)' = HandlesOf(id) \union {made + 1}
    <3>1. \A h \in 1 .. made : <<h, id>> \in live' <=> <<h, id>> \in live
      BY <2>1, <2>3
    <3>2. QED
      BY <2>1, <2>3, <3>1 DEF HandlesOf
  <2>5. \A x \in Ids \ {id} : HandlesOf(x)' = HandlesOf(x)
    <3>1. ASSUME NEW x \in Ids \ {id}, NEW h
          PROVE  h \in HandlesOf(x)' <=> h \in HandlesOf(x)
      <4>1. <<h, x>> \in live' <=> <<h, x>> \in live
        BY <2>1, <3>1
      <4>2. <<h, x>> \in live => h \in 1 .. made
        BY <1>1 DEF GivenOut
      <4>3. h \in 1 .. made => h \in 1 .. made + 1
        BY <2>3
      <4>4. QED
        BY <2>1, <4>1, <4>2, <4>3 DEF HandlesOf
    <3>2. QED
      BY <3>1
  <2>6. OthersUntouched(c, id)
    BY <2>1, <2>2, <2>5 DEF OthersUntouched
  <2>7. GivenOut'
    <3>1. 1 .. made \subseteq 1 .. made' /\ made + 1 \in 1 .. made'
      BY <2>1, <2>3
    <3>2. live' \subseteq (1 .. made') \X Ids
      BY <1>1, <2>1, <3>1 DEF GivenOut
    <3>3. QED
      BY <1>1, <2>1, <2>2, <3>1, <3>2 DEF GivenOut
  <2>8. OwnHandles'
    <3>1. SUFFICES ASSUME NEW h \in 1 .. made', NEW x \in Ids, <<h, x>> \in live'
                   PROVE  /\ \A i \in Ids : h \in handles[i] => x = i
                          /\ \A d \in Clients : h \in new'[d] => x = mine[d]
      BY <2>1 DEF OwnHandles
    <3>2. CASE h = made + 1
      <4>1. h \notin 1 .. made
        BY <2>3, <3>2
      <4>2. <<h, x>> \notin live
        BY <1>1, <4>1 DEF GivenOut
      <4>3. x = id
        BY <2>1, <3>1, <4>2
      <4>4. (\A i \in Ids : h \notin handles[i]) /\ \A d \in Clients : h \notin new[d]
        BY <1>1, <4>1 DEF GivenOut
      <4>5. QED
        BY <2>2, <4>3, <4>4
    <3>3. CASE h # made + 1
      <4>1. h \in 1 .. made /\ <<h, x>> \in live
        BY <2>1, <2>3, <3>1, <3>3
      <4>2. \A d \in Clients : h \in new'[d] => h \in new[d]
        BY <2>2, <3>3
      <4>3. QED
        BY <1>1, <4>1, <4>2 DEF OwnHandles
    <3>4. QED
      BY <3>2, <3>3
  <2>9. Served(mine[c], new[c])'
    BY <1>2, <2>1, <2>2, <2>4 DEF Served
  <2>10. Phase(c)' /\ pc'[c] # "idle" /\ mine'[c] = id
    BY <1>2, <2>1, <2>9 DEF Phase
  <2>11. QED
    BY <2>6, <2>7, <2>8, <2>10 DEF Advanced
<1>4. CASE SubscribeRaises(c)
  <2>1. /\ astray' = astray \union new[c] /\ new' = [new EXCEPT ![c] = {}]
        /\ UNCHANGED <<status, handles, live, made, mine, old>>
    BY <1>4 DEF SubscribeRaises
  <2>2. /\ new'[c] = {} /\ pc'[c] = "read"
        /\ \A d \in Clients \ {c} : new'[d] = new[d] /\ pc'[d] = pc[d]
    BY <1>1, <1>4, <2>1 DEF TypeOK, SubscribeRaises, Goto
  <2>3. \A x : HandlesOf(x)' = HandlesOf(x)
    BY <2>1 DEF HandlesOf
  <2>4. OthersUntouched(c, id)
    BY <2>1, <2>2, <2>3 DEF OthersUntouched
  <2>5. GivenOut' /\ OwnHandles'
    BY <1>1, <2>1, <2>2 DEF GivenOut, OwnHandles
  <2>6. Served(mine[c], {})'
    BY <1>2, <2>1, <2>3 DEF Served
  <2>7. QED
    BY <2>1, <2>2, <2>4, <2>5, <2>6 DEF Advanced, Phase
<1>5. CASE Subscribed(c)
  <2>1. UNCHANGED <<status, handles, live, made, astray, mine, old, new>>
    BY <1>5 DEF Subscribed, upstream
  <2>2. pc'[c] = "seed" /\ \A d \in Clients \ {c} : pc'[d] = pc[d]
    BY <1>1, <1>5 DEF TypeOK, Subscribed, Goto
  <2>3. \A x : HandlesOf(x)' = HandlesOf(x)
    BY <2>1 DEF HandlesOf
  <2>4. OthersUntouched(c, id) /\ GivenOut' /\ OwnHandles'
    BY <1>1, <2>1, <2>2, <2>3 DEF OthersUntouched, GivenOut, OwnHandles
  <2>5. Served(mine[c], new[c])'
    BY <1>2, <2>1, <2>3 DEF Served
  <2>6. QED
    BY <2>1, <2>2, <2>4, <2>5 DEF Advanced, Phase
<1>6. QED
  BY <1>3, <1>4, <1>5

LEMMA RecordAdvances ==
  ASSUME HandlesInv, NEW c \in Clients, NEW id \in Ids, mine[c] = id,
         Activate(c) \/ ReadRecord(c) \/ WriteRecord(c)
  PROVE  Advanced(c, id)
<1>1. TypeOK /\ GivenOut /\ OwnHandles /\ Phase(c) /\ mine[c] = id
  BY DEF HandlesInv
<1>2. UNCHANGED <<live, made, astray>> /\ \A x : HandlesOf(x)' = HandlesOf(x)
  BY DEF Activate, ReadRecord, WriteRecord, upstream, HandlesOf
<1>3. CASE ReadRecord(c)
  <2>1. /\ pc[c] = "read" /\ old' = [old EXCEPT ![c] = handles[id]]
        /\ UNCHANGED <<status, handles, mine, new>>
    BY <1>3 DEF ReadRecord
  <2>2. /\ pc'[c] = "write" /\ old'[c] = handles[id]
        /\ \A d \in Clients \ {c} : pc'[d] = pc[d] /\ old'[d] = old[d]
    BY <1>1, <1>3, <2>1 DEF TypeOK, ReadRecord, Goto
  <2>3. OthersUntouched(c, id) /\ GivenOut' /\ OwnHandles'
    BY <1>1, <1>2, <2>1, <2>2 DEF OthersUntouched, GivenOut, OwnHandles
  <2>4. Served(mine[c], {})' /\ new'[c] = {}
    BY <1>1, <1>2, <2>1 DEF Phase, Served
  <2>5. QED
    BY <2>1, <2>2, <2>3, <2>4 DEF Advanced, Phase
<1>4. CASE Activate(c) \/ WriteRecord(c)
  <2>1. PICK H, s : /\ handles' = [handles EXCEPT ![id] = H]
                    /\ status' = [status EXCEPT ![id] = s]
                    /\ \/ pc[c] = "seed" /\ H = new[c] /\ s = "active"
                       \/ pc[c] = "write" /\ H = old[c] /\ s \in {"stopped", "degraded"}
    BY <1>4 DEF Activate, WriteRecord
  <2>2. /\ pc'[c] = "idle" /\ mine'[c] = NoId /\ old'[c] = {} /\ new'[c] = {}
        /\ \A d \in Clients \ {c} : /\ pc'[d] = pc[d] /\ mine'[d] = mine[d]
                                    /\ old'[d] = old[d] /\ new'[d] = new[d]
    BY <1>1, <1>4, ReturnTypes DEF Activate, WriteRecord
  <2>3. /\ handles'[id] = H /\ status'[id] = s
        /\ \A x \in Ids \ {id} : handles'[x] = handles[x] /\ status'[x] = status[x]
    BY <1>1, <2>1 DEF TypeOK
  <2>4. H \subseteq 1 .. made
    BY <1>1, <2>1 DEF GivenOut
  <2>5. ASSUME NEW h \in 1 .. made, NEW x \in Ids, <<h, x>> \in live, h \in H
        PROVE  x = id
    <3>1. CASE H = new[c]
      BY <1>1, <2>5, <3>1 DEF OwnHandles
    <3>2. CASE pc[c] = "write" /\ H = old[c]
      <4>1. h \in handles[id]
        BY <1>1, <2>5, <3>2 DEF Phase
      <4>2. QED
        BY <1>1, <2>5, <4>1 DEF OwnHandles
    <3>3. QED
      BY <2>1, <3>1, <3>2
  <2>6. GivenOut'
    BY <1>1, <1>2, <2>2, <2>3, <2>4 DEF GivenOut
  <2>7. OwnHandles'
    <3>1. ASSUME NEW h \in 1 .. made, NEW x \in Ids, <<h, x>> \in live
          PROVE  /\ \A i \in Ids : h \in handles'[i] => x = i
                 /\ \A d \in Clients : h \in new'[d] => x = mine'[d]
      BY <1>1, <2>2, <2>3, <2>5, <3>1 DEF OwnHandles
    <3>2. QED
      BY <1>2, <3>1 DEF OwnHandles
  <2>8. HandlesOf(id) \ astray = (IF s = "active" THEN H ELSE {}) \ astray
    BY <1>1, <2>1 DEF Phase, Served
  <2>9. Served(id, Shown(id))'
    BY <1>2, <2>3, <2>8 DEF Served, Shown
  <2>10. OthersUntouched(c, id)
    BY <1>2, <2>2, <2>3 DEF OthersUntouched
  <2>11. QED
    BY <2>2, <2>6, <2>7, <2>9, <2>10 DEF Advanced
<1>5. QED
  BY <1>3, <1>4


----
(***************************************************************************)
(* The invariant.                                                          *)
(***************************************************************************)
LEMMA KnownIsServed ==
  LiveHandlesAreKnown <=>
    \A x \in Ids : (\A c \in Clients : mine[c] # x) => Served(x, Shown(x))
BY DEF LiveHandlesAreKnown, Served, Shown

LEMMA AdvanceKeepsInv ==
  ASSUME HandlesInv, TypeOK', NEW c \in Clients, NEW id \in Ids,
         mine[c] = id \/ pc[c] = "idle", \A d \in Clients \ {c} : mine[d] # id,
         Advanced(c, id)
  PROVE  HandlesInv'
<1>1. /\ OthersUntouched(c, id) /\ GivenOut' /\ OwnHandles'
      /\ pc'[c] = "idle" => mine'[c] = NoId /\ new'[c] = {} /\ Served(id, Shown(id))'
      /\ pc'[c] # "idle" => mine'[c] = id /\ Phase(c)'
  BY DEF Advanced
<1>2. /\ \A d \in Clients : mine[d] \in Ids <=> pc[d] # "idle"
      /\ Alone /\ LiveHandlesAreKnown /\ \A d \in Clients : Phase(d)
  BY DEF HandlesInv, IdleHasNoId
<1>3. /\ \A d \in Clients \ {c} :
           pc'[d] = pc[d] /\ mine'[d] = mine[d] /\ old'[d] = old[d] /\ new'[d] = new[d]
      /\ \A x \in Ids \ {id} :
           status'[x] = status[x] /\ handles'[x] = handles[x] /\ HandlesOf(x)' = HandlesOf(x)
      /\ astray \subseteq astray'
  BY <1>1 DEF OthersUntouched
<1>4. IdleHasNoId'
  BY <1>1, <1>2, <1>3, SubscriptionAssumption DEF IdleHasNoId
<1>5. Alone'
  BY <1>1, <1>2, <1>3, SubscriptionAssumption DEF Alone
<1>6. ASSUME NEW d \in Clients
      PROVE  Phase(d)'
  <2>1. CASE d = c
    <3>1. CASE pc'[c] = "idle"
      BY <1>1, <2>1, <3>1 DEF Phase
    <3>2. CASE pc'[c] # "idle"
      BY <1>1, <2>1, <3>2
    <3>3. QED
      BY <3>1, <3>2
  <2>2. CASE d # c /\ pc[d] = "idle"
    <3>1. pc'[d] = "idle" /\ new'[d] = {}
      BY <1>2, <1>3, <2>2 DEF Phase
    <3>2. QED
      BY <3>1 DEF Phase
  <2>3. CASE d # c /\ pc[d] # "idle"
    <3>1. mine[d] \in Ids \ {id}
      BY <1>2, <2>3
    <3>2. /\ pc'[d] = pc[d] /\ mine'[d] = mine[d] /\ old'[d] = old[d] /\ new'[d] = new[d]
          /\ handles'[mine'[d]] = handles[mine[d]] /\ Shown(mine[d])' = Shown(mine[d])
          /\ HandlesOf(mine[d])' = HandlesOf(mine[d])
      BY <1>3, <2>3, <3>1 DEF Shown, HandlesOf
    <3>3. /\ Served(mine[d], Shown(mine[d])) => Served(mine[d], Shown(mine[d]))'
          /\ Served(mine[d], Shown(mine[d]) \intersect old[d])
               => Served(mine[d], Shown(mine[d]) \intersect old[d])'
          /\ Served(mine[d], new[d]) => Served(mine[d], new[d])'
          /\ Served(mine[d], {}) => Served(mine[d], {})'
      BY <1>3, <3>2 DEF Served
    <3>4. Phase(d)
      BY <1>2
    <3>5. /\ pc'[d] \notin {"subscribe", "seed"} => new'[d] = {}
          /\ pc'[d] \in {"find", "cancel", "write"} => old'[d] \subseteq handles'[mine'[d]]
          /\ pc'[d] = "find" => old'[d] = handles'[mine'[d]]
      BY <3>2, <3>4 DEF Phase
    <3>6. /\ pc'[d] = "find" => Served(mine[d], Shown(mine[d]))'
          /\ pc'[d] = "cancel" => Served(mine[d], Shown(mine[d]) \intersect old[d])'
          /\ pc'[d] \in {"subscribe", "seed"} => Served(mine[d], new[d])'
          /\ pc'[d] \in {"read", "write"} => Served(mine[d], {})'
      BY <3>2, <3>3, <3>4 DEF Phase
    <3>7. QED
      BY <3>5, <3>6 DEF Phase
  <2>4. QED
    BY <2>1, <2>2, <2>3
<1>7. LiveHandlesAreKnown'
  <2>1. ASSUME NEW x \in Ids, \A d \in Clients : mine'[d] # x
        PROVE  Served(x, Shown(x))'
    <3>1. CASE x = id
      BY <1>1, <2>1, <3>1
    <3>2. CASE x # id
      <4>1. \A d \in Clients : mine[d] # x
        BY <1>2, <1>3, <2>1, <3>2
      <4>2. Served(x, Shown(x))
        BY <1>2, <4>1, KnownIsServed
      <4>3. Shown(x)' = Shown(x) /\ HandlesOf(x)' = HandlesOf(x)
        BY <1>3, <3>2 DEF Shown
      <4>4. QED
        BY <1>3, <4>2, <4>3 DEF Served
    <3>3. QED
      BY <3>1, <3>2
  <2>2. QED
    BY <2>1 DEF LiveHandlesAreKnown, Served, Shown
<1>8. QED
  BY <1>1, <1>4, <1>5, <1>6, <1>7 DEF HandlesInv

\* Quotes and stuttering leave records, requests and xtdata alone.
LEMMA RestKeepsInv ==
  ASSUME HandlesInv, TypeOK', UNCHANGED <<status, handles, upstream, local>>
  PROVE  HandlesInv'
<1>1. UNCHANGED <<status, handles, live, made, astray, pc, op, mine, old, new>>
  BY DEF upstream, local
<1>2. IdleHasNoId' /\ Alone' /\ GivenOut' /\ OwnHandles'
  BY <1>1 DEF HandlesInv, IdleHasNoId, Alone, GivenOut, OwnHandles
<1>3. (\A c \in Clients : Phase(c))' /\ LiveHandlesAreKnown'
  BY <1>1 DEF HandlesInv, Phase, Served, Shown, HandlesOf, LiveHandlesAreKnown
<1>4. QED
  BY <1>2, <1>3 DEF HandlesInv

LEMMA ServeStep ==
  ASSUME HandlesInv, OnePerId, NEW c \in Clients, Serve(c)
  PROVE  HandlesInv'
<1>1. /\ TypeOK /\ IdleHasNoId /\ GivenOut /\ Alone
      /\ mine[c] \in Ids <=> pc[c] # "idle"
  BY DEF HandlesInv, IdleHasNoId
<1>2. ASSUME NEW id \in Ids, Create(c, id) \/ Stop(c, id) \/ Recover(c, id)
      PROVE  HandlesInv'
  <2>1. TypeOK'
    BY <1>1, <1>2, RequestTypes
  <2>2. pc[c] = "idle" /\ (\A d \in Clients : mine[d] # id) /\ Advanced(c, id)
    BY <1>2, RequestAdvances
  <2>3. QED
    BY <2>1, <2>2, AdvanceKeepsInv
<1>3. ASSUME \/ FindCancel(c) \/ CancelOne(c) \/ CancelRaises(c) \/ Cancelled(c)
             \/ SubscribeOne(c) \/ SubscribeRaises(c) \/ Subscribed(c)
             \/ Activate(c) \/ ReadRecord(c) \/ WriteRecord(c)
      PROVE  HandlesInv'
  <2>1. TypeOK'
    BY <1>1, <1>3, AdapterTypes, RecordTypes
  <2>2. pc[c] # "idle"
    BY <1>3 DEF FindCancel, CancelOne, CancelRaises, Cancelled, SubscribeOne, SubscribeRaises,
                Subscribed, Activate, ReadRecord, WriteRecord
  <2>3. PICK id \in Ids : mine[c] = id
    BY <1>1, <2>2
  <2>4. Advanced(c, id)
    BY <1>3, <2>3, CancelAdvances, SubscribeAdvances, RecordAdvances
  <2>5. \A d \in Clients \ {c} : mine[d] # id
    BY <1>1, <2>3 DEF Alone
  <2>6. QED
    BY <2>1, <2>3, <2>4, <2>5, AdvanceKeepsInv
<1>4. ASSUME Seed(c)
      PROVE  HandlesInv'
  BY <1>1, <1>4, QuoteTypes, RestKeepsInv DEF Seed
<1>5. QED
  BY <1>2, <1>3, <1>4 DEF Serve

LEMMA HandlesInvariant ==
  ASSUME OnePerId
  PROVE  Spec => []HandlesInv
<1>1. ASSUME Init
      PROVE  HandlesInv
  <2>1. TypeOK /\ IdleHasNoId /\ Alone
    BY <1>1, TypeInit, SubscriptionAssumption DEF Init, IdleHasNoId, Alone
  <2>2. GivenOut /\ OwnHandles /\ (\A c \in Clients : Phase(c))
    BY <1>1 DEF Init, GivenOut, OwnHandles, Phase
  <2>3. LiveHandlesAreKnown
    BY <1>1 DEF Init, LiveHandlesAreKnown, HandlesOf
  <2>4. QED
    BY <2>1, <2>2, <2>3 DEF HandlesInv
<1>2. ASSUME HandlesInv, [Next]_vars
      PROVE  HandlesInv'
  <2>1. CASE UNCHANGED vars
    <3>1. TypeOK' /\ UNCHANGED <<status, handles, upstream, local>>
      BY <1>2, <2>1 DEF HandlesInv, TypeOK, vars, upstream, local, quotes
    <3>2. QED
      BY <1>2, <3>1, RestKeepsInv
  <2>2. ASSUME NEW c \in Clients, Serve(c)
        PROVE  HandlesInv'
    BY <1>2, <2>2, ServeStep
  <2>3. ASSUME NEW x \in Clients \union Callers,
               (\E id : Receive(x, id)) \/ RecordQuote(x) \/ PublishQuote(x)
        PROVE  HandlesInv'
    <3>1. TypeOK
      BY <1>2 DEF HandlesInv
    <3>2. TypeOK' /\ UNCHANGED <<status, handles, upstream, local>>
      BY <2>3, <3>1, QuoteTypes
    <3>3. QED
      BY <1>2, <3>2, RestKeepsInv
  <2>4. QED
    BY <1>2, <2>1, <2>2, <2>3 DEF Next, Callback
<1>3. QED
  BY <1>1, <1>2, PTL DEF Spec

(***************************************************************************)
(* With clients that wait for an answer before they name an id again, no   *)
(* request leaves a handle behind or cancels one of another subscription,  *)
(* for any number of subscriptions, symbols and requests, whatever call of *)
(* xtdata raises: only handles an exception left are not the record's.     *)
(***************************************************************************)
THEOREM LiveHandlesCorrect ==
  ASSUME OnePerId
  PROVE  Spec => []LiveHandlesAreKnown
<1>1. HandlesInv => LiveHandlesAreKnown
  BY DEF HandlesInv
<1>2. QED
  BY <1>1, HandlesInvariant, PTL
====
