---- MODULE Events ----
(***************************************************************************)
(* From a callback of MiniQMT to a client: MiniQmtCallback (miniqmt.py)    *)
(* records an order in the OrderStore (orders/store.py) and publishes it;  *)
(* EventBus (events/bus.py) hands what other threads publish to the event  *)
(* loop, where it is numbered and put into a bounded queue for each        *)
(* WebSocket client; the handler of the client (api/routes_ws.py) sends    *)
(* it.                                                                     *)
(*                                                                         *)
(* The threads overlap with each other and with the loop.  On the loop a   *)
(* callback or a task runs to its next await: publish has none that waits, *)
(* since nobody awaits while holding the lock of the bus.                  *)
(***************************************************************************)
EXTENDS Integers, Sequences

CONSTANTS Callers,    \* the threads that deliver callbacks and serve requests
          Loop,       \* the thread of the event loop, in which the server starts
          Clients,    \* WebSocket clients
          AllTypes,   \* the clients that named no types; the others want orders
          QueueSize,  \* QMT_WS_CLIENT_QUEUE_SIZE
          CacheSize,  \* the cache of recent events
          StoreSize,  \* max_records of the OrderStore
          MaxEvents   \* bound: events of a run

ASSUME EventsAssumption ==
  /\ Loop \notin Callers
  /\ AllTypes \subseteq Clients
  /\ QueueSize \in Nat \ {0} /\ CacheSize \in Nat \ {0} /\ StoreSize \in Nat \ {0}
  /\ MaxEvents \in Nat \ {0}

VARIABLES made,      \* how many events came to be
          hand,      \* the event a thread has recorded and not yet published, in a set
          store,     \* the orders of the OrderStore
          known,     \* the bus knows the loop
          ready,     \* what the loop has to run: calls that create a task, and tasks
          sequence,  \* _sequence of the bus
          recent,    \* _events
          log,       \* history: the events in the order of their publication
          conn,      \* a client is "off", "open", or "gone" and not yet noticed
          queue,     \* its queue
          sent       \* the sequence and the event that it was sent last

bus     == <<known, ready, sequence, recent, log>>
clients == <<conn, queue, sent>>
vars    == <<made, hand, store, bus, clients>>

Kinds == {"stock_order", "qmt_status"}

\* An event and the thread it is from; n tells the order in which events came to be.
Events == [n : 1 .. MaxEvents, kind : Kinds, by : Callers \union {Loop}]

Event(k, kind, p) == [n |-> k, kind |-> kind, by |-> p]

Wanted == [c \in Clients |-> {e \in Events : c \in AllTypes \/ e.kind = "stock_order"}]

\* What is full takes nothing more.
PushWhileRoom(d, x, maxlen) == IF Len(d) < maxlen THEN Append(d, x) ELSE d

\* A deque with a maxlen.
Push(d, x, maxlen) ==
  IF Len(d) < maxlen THEN Append(d, x) ELSE Append(Tail(d), x)

\* connect_on_startup publishes from the loop itself.
Init ==
  /\ \/ made = 0 /\ ready = <<>>
     \/ made = 1 /\ ready = <<[what |-> "call", event |-> Event(1, "qmt_status", Loop)]>>
  /\ hand = [p \in Callers |-> {}]
  /\ store = <<>>
  /\ known = FALSE
  /\ sequence = 0
  /\ recent = <<>>
  /\ log = <<>>
  /\ conn = [c \in Clients |-> "off"]
  /\ queue = [c \in Clients |-> <<>>]
  /\ sent = [c \in Clients |-> <<0, {}>>]
----
(***************************************************************************)
(* The threads.  publish_threadsafe loses the event while no loop is       *)
(* known.                                                                  *)
(***************************************************************************)
PublishThreadsafe(e) ==
  /\ ready' = IF known THEN Append(ready, [what |-> "call", event |-> e]) ELSE ready
  /\ UNCHANGED <<known, sequence, recent, log>>

\* on_stock_order, and in the same way on_stock_trade and the errors: the order is
\* recorded, then published.
RecordOrder(p) ==
  /\ hand[p] = {}
  /\ made < MaxEvents
  /\ made' = made + 1
  /\ LET e == Event(made + 1, "stock_order", p) IN
       /\ store' = Push(store, e, StoreSize)
       /\ hand' = [hand EXCEPT ![p] = {e}]
  /\ UNCHANGED <<bus, clients>>

PublishOrder(p) ==
  /\ \E e \in hand[p] : PublishThreadsafe(e)
  /\ hand' = [hand EXCEPT ![p] = {}]
  /\ UNCHANGED <<made, store, clients>>

\* on_connected, on_account_status, _publish_lifecycle_event: nothing is recorded.
PublishStatus(p) ==
  /\ hand[p] = {}
  /\ made < MaxEvents
  /\ made' = made + 1
  /\ PublishThreadsafe(Event(made + 1, "qmt_status", p))
  /\ UNCHANGED <<hand, store, clients>>
----
(***************************************************************************)
(* The loop.                                                               *)
(***************************************************************************)
\* The last to come is run first.
RunLastCall ==
  /\ ready # <<>>
  /\ LET last == ready[Len(ready)] IN
       /\ last.what = "call"
       /\ ready' = <<[last EXCEPT !.what = "task"]>> \o SubSeq(ready, 1, Len(ready) - 1)
  /\ UNCHANGED <<made, hand, store, known, sequence, recent, log, clients>>

\* An event for which nobody listens is thrown away.
RunCallIfHeard ==
  /\ ready # <<>>
  /\ Head(ready).what = "call"
  /\ ready' = IF \A c \in Clients : conn[c] = "off"
              THEN Tail(ready)
              ELSE Append(Tail(ready), [Head(ready) EXCEPT !.what = "task"])
  /\ UNCHANGED <<made, hand, store, known, sequence, recent, log, clients>>

RunCall ==
  /\ ready # <<>>
  /\ Head(ready).what = "call"
  /\ ready' = Append(Tail(ready), [Head(ready) EXCEPT !.what = "task"])
  /\ UNCHANGED <<made, hand, store, known, sequence, recent, log, clients>>

\* A full queue refuses the event.
PutDropNewest(q, x) == IF Len(q) < QueueSize THEN Append(q, x) ELSE q

PutDropOldest(q, x) == Push(q, x, QueueSize)

\* publish
RunTask ==
  /\ ready # <<>>
  /\ Head(ready).what = "task"
  /\ LET e == Head(ready).event
         x == [sequence |-> sequence + 1, event |-> e]
     IN
       /\ recent' = Push(recent, x, CacheSize)
       /\ log' = Append(log, e)
       /\ queue' = [c \in Clients |-> IF conn[c] = "off" THEN queue[c] ELSE PutDropOldest(queue[c], x)]
  /\ sequence' = sequence + 1
  /\ known' = TRUE
  /\ ready' = Tail(ready)
  /\ UNCHANGED <<made, hand, store, conn, sent>>

Subscribe(c) ==
  /\ conn[c] = "off"
  /\ conn' = [conn EXCEPT ![c] = "open"]
  /\ known' = TRUE
  /\ UNCHANGED <<made, hand, store, ready, sequence, recent, log, queue, sent>>

Unsubscribe(c) ==
  /\ conn' = [conn EXCEPT ![c] = "off"]
  /\ queue' = [queue EXCEPT ![c] = <<>>]
  /\ UNCHANGED sent

Leave(c) ==
  /\ conn[c] = "open"
  /\ conn' = [conn EXCEPT ![c] = "gone"]
  /\ UNCHANGED <<made, hand, store, bus, queue, sent>>

\* A client that is gone makes the send raise.
SendEvent(c) ==
  /\ conn[c] # "off"
  /\ queue[c] # <<>>
  /\ Head(queue[c]).event \in Wanted[c]
  /\ \/ /\ conn[c] = "open"
        /\ sent' = [sent EXCEPT ![c] = <<Head(queue[c]).sequence, {Head(queue[c]).event}>>]
        /\ queue' = [queue EXCEPT ![c] = Tail(queue[c])]
        /\ UNCHANGED conn
     \/ conn[c] = "gone" /\ Unsubscribe(c)
  /\ UNCHANGED <<made, hand, store, bus>>

SkipEvent(c) ==
  /\ conn[c] # "off"
  /\ queue[c] # <<>>
  /\ Head(queue[c]).event \notin Wanted[c]
  /\ queue' = [queue EXCEPT ![c] = Tail(queue[c])]
  /\ UNCHANGED <<made, hand, store, bus, conn, sent>>

\* Heartbeats begin with the first event that was sent.
SendHeartbeatOnceSent(c) ==
  /\ conn[c] = "gone"
  /\ queue[c] = <<>>
  /\ sent[c] # <<0, {}>>
  /\ Unsubscribe(c)
  /\ UNCHANGED <<made, hand, store, bus>>

\* No event for some time: a heartbeat, which finds out that the client is gone.  To
\* one that listens it changes nothing.
SendHeartbeat(c) ==
  /\ conn[c] = "gone"
  /\ queue[c] = <<>>
  /\ Unsubscribe(c)
  /\ UNCHANGED <<made, hand, store, bus>>

RunReady == RunCall \/ RunTask

Handle(c) == SendEvent(c) \/ SkipEvent(c) \/ SendHeartbeat(c)

Next ==
  \/ \E p \in Callers : RecordOrder(p) \/ PublishOrder(p) \/ PublishStatus(p)
  \/ RunReady
  \/ \E c \in Clients : Subscribe(c) \/ Leave(c) \/ Handle(c)

Spec == Init /\ [][Next]_vars

\* The loop runs what is ready, and the handler of a client that is gone: its wait ends
\* with the next event or a heartbeat, and its sends raise.  A client that is there may
\* read as slowly as it likes.
FairSpec ==
  /\ Spec
  /\ WF_vars(RunReady)
  /\ \A c \in Clients : WF_vars(conn[c] = "gone" /\ Handle(c))
----
TypeOK ==
  /\ made \in 0 .. MaxEvents
  /\ hand \in [Callers -> SUBSET Events]
  /\ store \in Seq(Events)
  /\ known \in BOOLEAN
  /\ ready \in Seq([what : {"call", "task"}, event : Events])
  /\ sequence \in Nat
  /\ recent \in Seq([sequence : Nat, event : Events])
  /\ log \in Seq(Events)
  /\ conn \in [Clients -> {"off", "open", "gone"}]
  /\ queue \in [Clients -> Seq([sequence : Nat, event : Events])]
  /\ sent \in [Clients -> Nat \X SUBSET Events]

(***************************************************************************)
(* The queues of the bus carry out the feed: a client's queue is the part  *)
(* of the log between its cursor and the end.                              *)
(***************************************************************************)
CursorOf(c) == IF conn[c] = "off" THEN -1 ELSE Len(log) - Len(queue[c])

Feed == INSTANCE EventFeed WITH
  Lag <- QueueSize,
  cursor <- [c \in Clients |-> CursorOf(c)]

ImplementsFeed == Feed!Spec

(***************************************************************************)
(* Who learns of an order from the stream finds it when it asks for the    *)
(* orders, unless newer orders have pushed it out.                         *)
(***************************************************************************)
PublishedOrdersAreStored ==
  \A i \in 1 .. Len(log) : log[i].kind = "stock_order" =>
    \/ \E k \in 1 .. Len(store) : store[k] = log[i]
    \/ Len(store) = StoreSize /\ store[1].n > log[i].n

(***************************************************************************)
(* The events of one thread are published in the order in which they came  *)
(* to be, and none of them twice.                                          *)
(***************************************************************************)
ThreadsKeepTheirOrder ==
  \A i, j \in 1 .. Len(log) : i < j /\ log[i].by = log[j].by => log[i].n < log[j].n

(***************************************************************************)
(* What was handed to the loop is published.                               *)
(***************************************************************************)
HandedOverIsPublished ==
  \A k \in 1 .. MaxEvents :
    (\E i \in 1 .. Len(ready) : ready[i].event.n = k) ~> (\E i \in 1 .. Len(log) : log[i].n = k)

(***************************************************************************)
(* The queue of a client that is gone is given up, unless the handler has  *)
(* unwanted events to skip for ever: after each it waits for a heartbeat   *)
(* anew, so a stream of nothing but unwanted events can keep the queue.    *)
(* The events of a run end; then the queue of every such client is given   *)
(* up, whatever is left in it.                                             *)
(***************************************************************************)
GoneClientsAreForgotten ==
  \A c \in Clients : <>[](conn[c] = "gone") => []<><<SkipEvent(c)>>_vars
====
