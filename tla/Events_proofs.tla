---- MODULE Events_proofs ----
(***************************************************************************)
(* Theorems about Events for any threads, clients, queue sizes and number  *)
(* of events.                                                              *)
(***************************************************************************)
EXTENDS Events, SequenceTheorems, TLAPS

Items == [what : {"call", "task"}, event : Events]

Numbered == [sequence : Nat, event : Events]

\* What a bounded deque holds after a push.
LEMMA PushProperties ==
  ASSUME NEW S, NEW d \in Seq(S), NEW x \in S, NEW n \in Nat \ {0}, Len(d) <= n
  PROVE  /\ Push(d, x, n) \in Seq(S)
         /\ Len(d) < n => /\ Len(Push(d, x, n)) = Len(d) + 1
                          /\ \A i \in 1 .. Len(d) : Push(d, x, n)[i] = d[i]
                          /\ Push(d, x, n)[Len(d) + 1] = x
         /\ Len(d) = n => /\ Len(Push(d, x, n)) = n
                          /\ \A i \in 1 .. n - 1 : Push(d, x, n)[i] = d[i + 1]
                          /\ Push(d, x, n)[n] = x
<1>1. CASE Len(d) < n
  <2>1. Push(d, x, n) = Append(d, x)
    BY <1>1 DEF Push
  <2> QED BY <1>1, <2>1, AppendProperties
<1>2. CASE Len(d) = n
  <2>1. Push(d, x, n) = Append(Tail(d), x) /\ d # <<>>
    BY <1>2 DEF Push
  <2>2. /\ Tail(d) \in Seq(S) /\ Len(Tail(d)) = n - 1
        /\ \A i \in 1 .. n - 1 : Tail(d)[i] = d[i + 1]
    BY <1>2, <2>1, HeadTailProperties
  <2>3. /\ Append(Tail(d), x) \in Seq(S)
        /\ Len(Append(Tail(d), x)) = n
        /\ \A i \in 1 .. n - 1 : Append(Tail(d), x)[i] = Tail(d)[i]
        /\ Append(Tail(d), x)[n] = x
    BY <2>2, AppendProperties
  <2> QED BY <1>2, <2>1, <2>2, <2>3
<1> QED BY <1>1, <1>2, LenProperties

LEMMA PushType ==
  ASSUME NEW S, NEW d \in Seq(S), NEW x \in S, NEW n \in Nat \ {0}
  PROVE  Push(d, x, n) \in Seq(S)
<1>1. CASE Len(d) < n
  BY <1>1, AppendProperties DEF Push
<1>2. CASE ~(Len(d) < n)
  <2>1. d # <<>>
    BY <1>2, EmptySeq
  <2> QED BY <1>2, <2>1, HeadTailProperties, AppendProperties DEF Push
<1> QED BY <1>1, <1>2
----
(***************************************************************************)
(* Type correctness.                                                       *)
(***************************************************************************)
LEMMA EventType ==
  ASSUME NEW k \in 1 .. MaxEvents, NEW kind \in Kinds, NEW p \in Callers \union {Loop}
  PROVE  Event(k, kind, p) \in Events
BY DEF Event, Events

LEMMA TypeInit == Init => TypeOK
<1> SUFFICES ASSUME Init PROVE TypeOK
  OBVIOUS
<1>1. ready \in Seq(Items) /\ made \in 0 .. MaxEvents
  <2>1. CASE made = 0 /\ ready = <<>>
    BY <2>1, EventsAssumption DEF Items
  <2>2. CASE made = 1 /\ ready = <<[what |-> "call", event |-> Event(1, "qmt_status", Loop)]>>
    <3>1. Event(1, "qmt_status", Loop) \in Events
      BY EventType, EventsAssumption DEF Kinds
    <3>2. [what |-> "call", event |-> Event(1, "qmt_status", Loop)] \in Items
      BY <3>1 DEF Items
    <3> QED BY <2>2, <3>2, EventsAssumption
  <2> QED BY <2>1, <2>2 DEF Init
<1>2. hand \in [Callers -> SUBSET Events] /\ sent \in [Clients -> Nat \X SUBSET Events]
  BY DEF Init
<1>3. /\ store \in Seq(Events) /\ log \in Seq(Events) /\ recent \in Seq(Numbered)
      /\ queue \in [Clients -> Seq(Numbered)]
  BY EmptySeq DEF Init
<1>4. conn \in [Clients -> {"off", "open", "gone"}] /\ known \in BOOLEAN /\ sequence \in Nat
  BY DEF Init
<1> QED BY <1>1, <1>2, <1>3, <1>4 DEF TypeOK, Items, Numbered

\* Handing an event to the loop.
LEMMA HandOverType ==
  ASSUME ready \in Seq(Items), NEW e \in Events, PublishThreadsafe(e)
  PROVE  ready' \in Seq(Items)
<1>1. [what |-> "call", event |-> e] \in Items
  BY DEF Items
<1> QED BY <1>1, AppendProperties DEF PublishThreadsafe

LEMMA TypeStep == TypeOK /\ [Next]_vars => TypeOK'
<1> SUFFICES ASSUME TypeOK, [Next]_vars PROVE TypeOK'
  OBVIOUS
<1> USE DEF bus, clients
<1>r. ready \in Seq(Items)
  BY DEF TypeOK, Items
<1>1. ASSUME NEW p \in Callers, RecordOrder(p) PROVE TypeOK'
  <2> DEFINE e == Event(made + 1, "stock_order", p)
  <2>1. e \in Events /\ made + 1 \in 0 .. MaxEvents
    BY <1>1, EventType, EventsAssumption DEF RecordOrder, TypeOK, Kinds
  <2>2. store' \in Seq(Events)
    BY <1>1, <2>1, PushType, EventsAssumption DEF RecordOrder, TypeOK
  <2>3. hand' \in [Callers -> SUBSET Events]
    BY <1>1, <2>1 DEF RecordOrder, TypeOK
  <2> QED BY <1>1, <2>1, <2>2, <2>3 DEF RecordOrder, TypeOK
<1>2. ASSUME NEW p \in Callers, PublishOrder(p) PROVE TypeOK'
  <2>1. PICK e \in hand[p] : PublishThreadsafe(e)
    BY <1>2 DEF PublishOrder
  <2>2. ready' \in Seq(Items)
    BY <1>r, <2>1, HandOverType DEF TypeOK
  <2> QED BY <1>2, <2>1, <2>2 DEF PublishOrder, PublishThreadsafe, TypeOK, Items
<1>3. ASSUME NEW p \in Callers, PublishStatus(p) PROVE TypeOK'
  <2>3. made + 1 \in 1 .. MaxEvents
    BY <1>3, EventsAssumption DEF PublishStatus, TypeOK
  <2>1. Event(made + 1, "qmt_status", p) \in Events /\ made + 1 \in 0 .. MaxEvents
    BY <2>3, EventType, EventsAssumption DEF Kinds
  <2>2. ready' \in Seq(Items)
    BY <1>r, <1>3, <2>1, HandOverType DEF PublishStatus
  <2> QED BY <1>3, <2>1, <2>2 DEF PublishStatus, PublishThreadsafe, TypeOK, Items
<1>4. CASE RunCall
  <2>1. Head(ready) \in Items /\ Tail(ready) \in Seq(Items)
    BY <1>r, <1>4, HeadTailProperties DEF RunCall
  <2>2. [Head(ready) EXCEPT !.what = "task"] \in Items
    BY <2>1 DEF Items
  <2>3. ready' \in Seq(Items)
    BY <1>4, <2>1, <2>2, AppendProperties DEF RunCall
  <2> QED BY <1>4, <2>3 DEF RunCall, TypeOK, Items
<1>5. CASE RunTask
  <2> DEFINE e == Head(ready).event
             x == [sequence |-> sequence + 1, event |-> e]
  <2>1. Head(ready) \in Items /\ Tail(ready) \in Seq(Items)
    BY <1>r, <1>5, HeadTailProperties DEF RunTask
  <2>2. e \in Events /\ x \in Numbered /\ sequence + 1 \in Nat
    BY <2>1 DEF Items, Numbered, TypeOK
  <2>3. recent' \in Seq(Numbered)
    BY <1>5, <2>2, PushType, EventsAssumption DEF RunTask, TypeOK, Numbered
  <2>4. log' \in Seq(Events)
    BY <1>5, <2>2, AppendProperties DEF RunTask, TypeOK
  <2>5. ASSUME NEW c \in Clients
        PROVE  PutDropOldest(queue[c], x) \in Seq(Numbered)
    BY <2>2, PushType, EventsAssumption DEF PutDropOldest, TypeOK, Numbered
  <2>6. queue' \in [Clients -> Seq(Numbered)]
    BY <1>5, <2>5 DEF RunTask, TypeOK, Numbered
  <2>7. ready' \in Seq(Items)
    BY <1>5, <2>1 DEF RunTask
  <2> QED BY <1>5, <2>2, <2>3, <2>4, <2>6, <2>7 DEF RunTask, TypeOK, Numbered, Items
<1>6. ASSUME NEW c \in Clients, Subscribe(c) PROVE TypeOK'
  BY <1>6 DEF Subscribe, TypeOK
<1>7. ASSUME NEW c \in Clients, Leave(c) PROVE TypeOK'
  BY <1>7 DEF Leave, TypeOK
<1>8. ASSUME NEW c \in Clients, Handle(c) PROVE TypeOK'
  <2>1. CASE queue[c] = <<>>
    BY <1>8, <2>1 DEF Handle, SendEvent, SkipEvent, SendHeartbeat, Unsubscribe, TypeOK
  <2>2. CASE queue[c] # <<>>
    <3>1. Head(queue[c]) \in Numbered /\ Tail(queue[c]) \in Seq(Numbered)
      BY <2>2, HeadTailProperties DEF TypeOK, Numbered
    <3>2. CASE SendEvent(c)
      <4>1. queue' \in [Clients -> Seq(Numbered)]
        <5>1. queue' \in {[queue EXCEPT ![c] = Tail(queue[c])], [queue EXCEPT ![c] = <<>>]}
          BY <3>2 DEF SendEvent, Unsubscribe
        <5>2. <<>> \in Seq(Numbered)
          BY EmptySeq
        <5> QED BY <3>1, <5>1, <5>2 DEF TypeOK, Numbered
      <4>2. conn' \in [Clients -> {"off", "open", "gone"}]
        BY <3>2 DEF SendEvent, Unsubscribe, TypeOK
      <4>3. <<Head(queue[c]).sequence, {Head(queue[c]).event}>> \in Nat \X SUBSET Events
        BY <3>1 DEF Numbered
      <4>4. sent' \in [Clients -> Nat \X SUBSET Events]
        BY <3>2, <4>3 DEF SendEvent, Unsubscribe, TypeOK
      <4> QED BY <3>2, <4>1, <4>2, <4>4 DEF SendEvent, TypeOK, Numbered
    <3>3. CASE SkipEvent(c)
      BY <3>1, <3>3 DEF SkipEvent, TypeOK, Numbered
    <3> QED BY <1>8, <2>2, <3>2, <3>3 DEF Handle, SendHeartbeat
  <2> QED BY <2>1, <2>2
<1>9. CASE UNCHANGED vars
  BY <1>9 DEF TypeOK, vars
<1> QED BY <1>1, <1>2, <1>3, <1>4, <1>5, <1>6, <1>7, <1>8, <1>9 DEF Next, RunReady

THEOREM TypeCorrect == Spec => []TypeOK
<1>1. Init => TypeOK
  BY TypeInit
<1>2. TypeOK /\ [Next]_vars => TypeOK'
  BY TypeStep
<1> QED BY <1>1, <1>2, PTL DEF Spec
----
(***************************************************************************)
(* The feed.  The sequence of the bus counts the log, and the queue of a   *)
(* client is the end of the log, each event with its place in it.  From    *)
(* this the cursor of a client moves as EventFeed wants it.                *)
(***************************************************************************)
EndOfLog(q, l) ==
  /\ Len(q) <= QueueSize
  /\ Len(q) <= Len(l)
  /\ \A i \in 1 .. Len(q) :
       q[i] = [sequence |-> Len(l) - Len(q) + i, event |-> l[Len(l) - Len(q) + i]]

FeedInv ==
  /\ TypeOK
  /\ sequence = Len(log)
  /\ \A c \in Clients : EndOfLog(queue[c], log) /\ (conn[c] = "off" => queue[c] = <<>>)

\* What a full queue holds after one more event: all but its oldest, and the event.
LEMMA PushOnFull ==
  ASSUME NEW q \in Seq(Numbered), NEW x \in Numbered, Len(q) = QueueSize
  PROVE  /\ Len(Push(q, x, QueueSize)) = QueueSize
         /\ \A i \in 1 .. QueueSize - 1 : Push(q, x, QueueSize)[i] = q[i + 1]
         /\ Push(q, x, QueueSize)[QueueSize] = x
<1>1. QueueSize \in Nat \ {0} /\ Len(q) <= QueueSize
  BY LenProperties, EventsAssumption
<1> DEFINE S == Numbered
<1>2. q \in Seq(S) /\ x \in S
  OBVIOUS
<1> HIDE DEF S
<1> QED BY <1>1, <1>2, PushProperties, SMTT(30)

\* An event is published: the log grows, and the queue of a client with it.
LEMMA GrowsWithLog ==
  ASSUME NEW l \in Seq(Events), NEW q \in Seq(Numbered), EndOfLog(q, l), NEW e \in Events
  PROVE  LET x == [sequence |-> Len(l) + 1, event |-> e]
         IN  /\ EndOfLog(PutDropOldest(q, x), Append(l, e))
             /\ Len(PutDropOldest(q, x)) = IF Len(q) < QueueSize THEN Len(q) + 1 ELSE QueueSize
<1> DEFINE x == [sequence |-> Len(l) + 1, event |-> e]
           r == PutDropOldest(q, x)
           k == Append(l, e)
<1>1. /\ Len(k) = Len(l) + 1 /\ k[Len(l) + 1] = e
      /\ \A i \in 1 .. Len(l) : k[i] = l[i]
  BY AppendProperties
<1>2. x \in Numbered /\ Len(q) \in Nat /\ Len(l) \in Nat /\ QueueSize \in Nat \ {0}
  BY LenProperties, EventsAssumption DEF Numbered
<1>3. Len(q) <= QueueSize /\ Len(q) <= Len(l)
  BY DEF EndOfLog
<1>4. \A i \in 1 .. Len(q) :
        q[i] = [sequence |-> Len(l) - Len(q) + i, event |-> l[Len(l) - Len(q) + i]]
  BY DEF EndOfLog
<1> HIDE DEF x, k
<1>5. CASE Len(q) < QueueSize
  <2>1. /\ Len(r) = Len(q) + 1 /\ r[Len(q) + 1] = x
        /\ \A i \in 1 .. Len(q) : r[i] = q[i]
    BY <1>2, <1>3, <1>5, PushProperties DEF PutDropOldest
  <2> HIDE DEF r
  <2>2. ASSUME NEW i \in 1 .. Len(q) + 1
        PROVE  r[i] = [sequence |-> Len(k) - Len(r) + i, event |-> k[Len(k) - Len(r) + i]]
    <3>1. CASE i \in 1 .. Len(q)
      <4>1. Len(k) - Len(r) + i = Len(l) - Len(q) + i /\ Len(l) - Len(q) + i \in 1 .. Len(l)
        BY <1>1, <1>2, <1>3, <2>1, <3>1
      <4> QED BY <1>1, <1>4, <2>1, <3>1, <4>1
    <3>2. CASE i = Len(q) + 1
      <4>1. Len(k) - Len(r) + i = Len(l) + 1
        BY <1>1, <1>2, <2>1, <3>2
      <4> QED BY <1>1, <2>1, <3>2, <4>1 DEF x
    <3> QED BY <1>2, <3>1, <3>2
  <2>3. EndOfLog(r, k)
    BY <1>1, <1>2, <1>3, <1>5, <2>1, <2>2 DEF EndOfLog
  <2> QED BY <1>5, <2>1, <2>3 DEF r, k, x
<1>6. CASE Len(q) = QueueSize
  <2>1. /\ Len(r) = QueueSize /\ r[QueueSize] = x
        /\ \A i \in 1 .. QueueSize - 1 : r[i] = q[i + 1]
    <3>1. /\ Len(Push(q, x, QueueSize)) = QueueSize
          /\ \A i \in 1 .. QueueSize - 1 : Push(q, x, QueueSize)[i] = q[i + 1]
          /\ Push(q, x, QueueSize)[QueueSize] = x
      <4> HIDE DEF r
      <4> QED BY <1>2, <1>6, PushOnFull
    <3> QED BY <3>1 DEF PutDropOldest
  <2> HIDE DEF r
  <2>2. ASSUME NEW i \in 1 .. QueueSize
        PROVE  r[i] = [sequence |-> Len(k) - Len(r) + i, event |-> k[Len(k) - Len(r) + i]]
    <3>1. CASE i \in 1 .. QueueSize - 1
      <4>1. /\ Len(k) - Len(r) + i = Len(l) - Len(q) + (i + 1)
            /\ Len(l) - Len(q) + (i + 1) \in 1 .. Len(l)
            /\ i + 1 \in 1 .. Len(q)
        BY <1>1, <1>2, <1>3, <1>6, <2>1, <3>1
      <4>2. q[i + 1] = [sequence |-> Len(l) - Len(q) + (i + 1),
                        event |-> l[Len(l) - Len(q) + (i + 1)]]
        BY <1>4, <4>1
      <4>3. k[Len(l) - Len(q) + (i + 1)] = l[Len(l) - Len(q) + (i + 1)]
        BY <1>1, <4>1
      <4> QED BY <2>1, <3>1, <4>1, <4>2, <4>3
    <3>2. CASE i = QueueSize
      <4>1. Len(k) - Len(r) + i = Len(l) + 1
        BY <1>1, <1>2, <2>1, <3>2
      <4> QED BY <1>1, <2>1, <3>2, <4>1 DEF x
    <3> QED BY <1>2, <3>1, <3>2
  <2>3. EndOfLog(r, k)
    BY <1>1, <1>2, <1>3, <1>6, <2>1, <2>2 DEF EndOfLog
  <2> QED BY <1>6, <2>1, <2>3 DEF r, k, x
<1> QED BY <1>2, <1>3, <1>5, <1>6

\* An event is taken from a queue: it is the one after the cursor.
LEMMA TakesFromLog ==
  ASSUME NEW l \in Seq(Events), NEW q \in Seq(Numbered), EndOfLog(q, l), q # <<>>
  PROVE  /\ EndOfLog(Tail(q), l)
         /\ Len(q) \in 1 .. Len(l)
         /\ Len(Tail(q)) = Len(q) - 1
         /\ Head(q) = [sequence |-> Len(l) - Len(q) + 1, event |-> l[Len(l) - Len(q) + 1]]
<1>1. Len(q) \in Nat \ {0} /\ Len(l) \in Nat /\ QueueSize \in Nat
  BY EmptySeq, LenProperties, EventsAssumption
<1>2. /\ Len(Tail(q)) = Len(q) - 1
      /\ \A i \in 1 .. Len(q) - 1 : Tail(q)[i] = q[i + 1]
  BY HeadTailProperties
<1>3. \A i \in 1 .. Len(q) :
        q[i] = [sequence |-> Len(l) - Len(q) + i, event |-> l[Len(l) - Len(q) + i]]
  BY DEF EndOfLog
<1>4. Len(q) <= QueueSize /\ Len(q) <= Len(l)
  BY DEF EndOfLog
<1>5. ASSUME NEW i \in 1 .. Len(q) - 1
      PROVE  Tail(q)[i] = [sequence |-> Len(l) - (Len(q) - 1) + i,
                           event |-> l[Len(l) - (Len(q) - 1) + i]]
  <2>1. i + 1 \in 1 .. Len(q) /\ Len(l) - (Len(q) - 1) + i = Len(l) - Len(q) + (i + 1)
    BY <1>1, <1>4
  <2>2. q[i + 1] = [sequence |-> Len(l) - Len(q) + (i + 1),
                    event |-> l[Len(l) - Len(q) + (i + 1)]]
    BY <1>3, <2>1
  <2> QED BY <1>2, <2>1, <2>2
<1>6. EndOfLog(Tail(q), l)
  BY <1>1, <1>2, <1>4, <1>5 DEF EndOfLog
<1>7. Head(q) = q[1]
  OBVIOUS
<1> QED BY <1>1, <1>2, <1>3, <1>4, <1>6, <1>7

LEMMA EmptyEndsLog ==
  ASSUME NEW l \in Seq(Events)
  PROVE  EndOfLog(<<>>, l)
BY EmptySeq, LenProperties, EventsAssumption DEF EndOfLog

LEMMA FeedInit == Init => FeedInv
<1> SUFFICES ASSUME Init PROVE FeedInv
  OBVIOUS
<1>1. TypeOK
  BY TypeInit
<1>2. log = <<>> /\ sequence = 0 /\ \A c \in Clients : queue[c] = <<>>
  BY DEF Init
<1> QED BY <1>1, <1>2, EmptyEndsLog, EmptySeq DEF FeedInv

\* Steps that touch neither log nor queues.
LEMMA FeedUntouched ==
  ASSUME FeedInv, TypeOK', UNCHANGED <<log, sequence, queue>>,
         \A c \in Clients : conn'[c] = "off" => conn[c] = "off"
  PROVE  FeedInv'
BY DEF FeedInv, EndOfLog

LEMMA FeedStep == FeedInv /\ [Next]_vars => FeedInv'
<1> SUFFICES ASSUME FeedInv, [Next]_vars PROVE FeedInv'
  OBVIOUS
<1> USE DEF bus, clients
<1>t. TypeOK'
  BY TypeStep DEF FeedInv
<1>l. log \in Seq(Events) /\ \A c \in Clients : queue[c] \in Seq(Numbered)
  BY DEF FeedInv, TypeOK, Numbered
<1>1. ASSUME NEW p \in Callers, RecordOrder(p) \/ PublishOrder(p) \/ PublishStatus(p)
      PROVE  FeedInv'
  <2>1. UNCHANGED <<log, sequence, queue, conn>>
    BY <1>1 DEF RecordOrder, PublishOrder, PublishStatus, PublishThreadsafe
  <2> QED BY <1>t, <2>1, FeedUntouched
<1>2. CASE RunCall
  <2>1. UNCHANGED <<log, sequence, queue, conn>>
    BY <1>2 DEF RunCall
  <2> QED BY <1>t, <2>1, FeedUntouched
<1>3. CASE RunTask
  <2> DEFINE e == Head(ready).event
             x == [sequence |-> sequence + 1, event |-> e]
  <2>1. e \in Events
    <3>1. Head(ready) \in Items
      BY <1>3, HeadTailProperties DEF RunTask, FeedInv, TypeOK, Items
    <3> QED BY <3>1 DEF Items
  <2>2. sequence' = sequence + 1 /\ log' = Append(log, e) /\ conn' = conn
    BY <1>3 DEF RunTask
  <2>3. sequence' = Len(log')
    BY <1>l, <2>1, <2>2, AppendProperties DEF FeedInv
  <2>4. ASSUME NEW c \in Clients
        PROVE  EndOfLog(queue'[c], log') /\ (conn'[c] = "off" => queue'[c] = <<>>)
    <3>1. CASE conn[c] = "off"
      <4>1. queue'[c] = <<>>
        BY <1>3, <3>1 DEF RunTask, FeedInv
      <4>2. log' \in Seq(Events)
        BY <1>t DEF TypeOK
      <4> QED BY <4>1, <4>2, EmptyEndsLog
    <3>2. CASE conn[c] # "off"
      <4>1. queue'[c] = PutDropOldest(queue[c], x)
        BY <1>3, <3>2 DEF RunTask
      <4>2. EndOfLog(queue[c], log) /\ sequence = Len(log)
        BY DEF FeedInv
      <4>3. EndOfLog(PutDropOldest(queue[c], x), Append(log, e))
        BY <1>l, <2>1, <4>2, GrowsWithLog
      <4> QED BY <2>2, <3>2, <4>1, <4>3
    <3> QED BY <3>1, <3>2
  <2> QED BY <1>t, <2>3, <2>4 DEF FeedInv
<1>4. ASSUME NEW c \in Clients, Subscribe(c) PROVE FeedInv'
  <2>1. UNCHANGED <<log, sequence, queue>>
    BY <1>4 DEF Subscribe
  <2>2. \A d \in Clients : conn'[d] = "off" => conn[d] = "off"
    BY <1>4 DEF Subscribe, FeedInv, TypeOK
  <2> QED BY <1>t, <2>1, <2>2, FeedUntouched
<1>5. ASSUME NEW c \in Clients, Leave(c) PROVE FeedInv'
  <2>1. UNCHANGED <<log, sequence, queue>>
    BY <1>5 DEF Leave
  <2>2. \A d \in Clients : conn'[d] = "off" => conn[d] = "off"
    BY <1>5 DEF Leave, FeedInv, TypeOK
  <2> QED BY <1>t, <2>1, <2>2, FeedUntouched
<1>6. ASSUME NEW c \in Clients, Handle(c) PROVE FeedInv'
  <2>1. log' = log /\ sequence' = sequence /\ conn[c] # "off"
    BY <1>6 DEF Handle, SendEvent, SkipEvent, SendHeartbeat
  <2>2. \A d \in Clients \ {c} : queue'[d] = queue[d] /\ conn'[d] = conn[d]
    BY <1>6 DEF Handle, SendEvent, SkipEvent, SendHeartbeat, Unsubscribe, FeedInv, TypeOK
  <2>3. \/ queue[c] # <<>> /\ queue'[c] = Tail(queue[c]) /\ conn'[c] = conn[c]
        \/ queue'[c] = <<>>
    BY <1>6 DEF Handle, SendEvent, SkipEvent, SendHeartbeat, Unsubscribe, FeedInv, TypeOK
  <2>4. EndOfLog(queue'[c], log') /\ (conn'[c] = "off" => queue'[c] = <<>>)
    BY <1>l, <2>1, <2>3, TakesFromLog, EmptyEndsLog DEF FeedInv
  <2> QED BY <1>t, <2>1, <2>2, <2>4 DEF FeedInv
<1>7. CASE UNCHANGED vars
  BY <1>7, <1>t, FeedUntouched DEF vars
<1> QED BY <1>1, <1>2, <1>3, <1>4, <1>5, <1>6, <1>7 DEF Next, RunReady

\* Each step is one of the feed, or leaves it alone.
\* A client with q of l events in its queue gets one more, and then has r.
LEMMA CursorMoves ==
  ASSUME NEW l \in Nat, NEW q \in Nat, q <= l, q <= QueueSize,
         NEW r, r = IF q < QueueSize THEN q + 1 ELSE QueueSize
  PROVE  (l + 1) - r = IF l - q # -1 /\ l - q + QueueSize < l + 1 THEN l - q + 1 ELSE l - q
BY EventsAssumption

\* The same when one of them, of q, is taken and m are left.
LEMMA OneLess ==
  ASSUME NEW l \in Nat, NEW q \in 1 .. l, NEW m, m = q - 1
  PROVE  l - q \in Nat /\ l - q < l /\ l - m = l - q + 1
OBVIOUS

LEMMA FeedSimulation == FeedInv /\ FeedInv' /\ [Next]_vars => [Feed!Next]_(Feed!vars)
<1> SUFFICES ASSUME FeedInv, FeedInv', [Next]_vars PROVE Feed!Next \/ UNCHANGED Feed!vars
  OBVIOUS
<1> USE DEF bus, clients
<1>l. log \in Seq(Events) /\ \A c \in Clients : queue[c] \in Seq(Numbered)
  BY DEF FeedInv, TypeOK, Numbered
<1>s. ASSUME UNCHANGED <<log, queue, sent>>,
             \A c \in Clients : conn'[c] = "off" <=> conn[c] = "off"
      PROVE  UNCHANGED Feed!vars
  BY <1>s DEF Feed!vars, CursorOf
<1>1. ASSUME NEW p \in Callers, RecordOrder(p) \/ PublishOrder(p) \/ PublishStatus(p)
      PROVE  UNCHANGED Feed!vars
  BY <1>1, <1>s DEF RecordOrder, PublishOrder, PublishStatus, PublishThreadsafe
<1>2. CASE RunCall
  BY <1>2, <1>s DEF RunCall
<1>3. CASE RunTask
  <2> DEFINE e == Head(ready).event
             x == [sequence |-> sequence + 1, event |-> e]
  <2>1. e \in Events
    <3>1. Head(ready) \in Items
      BY <1>3, HeadTailProperties DEF RunTask, FeedInv, TypeOK, Items
    <3> QED BY <3>1 DEF Items
  <2>2. /\ log' = Append(log, e) /\ sent' = sent /\ conn' = conn
        /\ queue' = [c \in Clients |->
             IF conn[c] = "off" THEN queue[c] ELSE PutDropOldest(queue[c], x)]
    BY <1>3 DEF RunTask
  <2>3. Len(log') = Len(log) + 1 /\ Len(log) \in Nat
    BY <1>l, <2>1, <2>2, AppendProperties, LenProperties
  <2>4. ASSUME NEW c \in Clients
        PROVE  CursorOf(c)' = IF CursorOf(c) # -1 /\ CursorOf(c) + QueueSize < Len(log')
                            THEN CursorOf(c) + 1 ELSE CursorOf(c)
    <3>1. CASE conn[c] = "off"
      BY <2>2, <3>1 DEF CursorOf
    <3>2. CASE conn[c] # "off"
      <4>1. EndOfLog(queue[c], log) /\ sequence = Len(log)
        BY DEF FeedInv
      <4>2. queue'[c] = PutDropOldest(queue[c], x)
        BY <2>2, <3>2
      <4>3. Len(queue'[c]) = IF Len(queue[c]) < QueueSize THEN Len(queue[c]) + 1 ELSE QueueSize
        BY <1>l, <2>1, <4>1, <4>2, GrowsWithLog
      <4>5. Len(queue[c]) \in Nat /\ Len(queue[c]) <= QueueSize /\ Len(queue[c]) <= Len(log)
        BY <1>l, <4>1, LenProperties DEF EndOfLog
      <4>6. CursorOf(c) = Len(log) - Len(queue[c]) /\ CursorOf(c)' = Len(log') - Len(queue'[c])
        BY <2>2, <3>2 DEF CursorOf
      <4>7. (Len(log) + 1) - Len(queue'[c]) =
              IF Len(log) - Len(queue[c]) # -1 /\ Len(log) - Len(queue[c]) + QueueSize < Len(log) + 1
              THEN Len(log) - Len(queue[c]) + 1 ELSE Len(log) - Len(queue[c])
        <5> HIDE DEF x, e
        <5> QED BY <2>3, <4>3, <4>5, CursorMoves
      <4> HIDE DEF x, e
      <4>8. CursorOf(c)' = (Len(log) + 1) - Len(queue'[c])
        BY <2>3, <4>6, Zenon
      <4>9. (CursorOf(c) # -1 /\ CursorOf(c) + QueueSize < Len(log'))
              <=> (Len(log) - Len(queue[c]) # -1 /\ Len(log) - Len(queue[c]) + QueueSize < Len(log) + 1)
        BY <2>3, <4>6, Zenon
      <4>10. CursorOf(c) + 1 = Len(log) - Len(queue[c]) + 1
        BY <4>6, Zenon
      <4> QED BY <4>6, <4>7, <4>8, <4>9, <4>10, Zenon
    <3> QED BY <3>1, <3>2
  <2>5. Feed!Publish(e)
    BY <2>2, <2>4 DEF Feed!Publish, Feed!Off
  <2> QED BY <2>1, <2>5 DEF Feed!Next
<1>4. ASSUME NEW c \in Clients, Subscribe(c) PROVE Feed!Next
  <2>1. conn[c] = "off" /\ conn' = [conn EXCEPT ![c] = "open"] /\ UNCHANGED <<log, queue, sent>>
    BY <1>4 DEF Subscribe
  <2>2. Len(queue[c]) = 0 /\ Len(log) \in Nat
    BY <1>l, <2>1, EmptySeq, LenProperties DEF FeedInv
  <2>3. CursorOf(c) = -1 /\ \A d \in Clients : CursorOf(d)' = IF d = c THEN Len(log) ELSE CursorOf(d)
    BY <2>1, <2>2 DEF CursorOf, FeedInv, TypeOK
  <2>4. Feed!Connect(c)
    BY <2>1, <2>3 DEF Feed!Connect, Feed!Off
  <2> QED BY <2>4 DEF Feed!Next
<1>5. ASSUME NEW c \in Clients, Leave(c) PROVE UNCHANGED Feed!vars
  BY <1>5, <1>s DEF Leave, FeedInv, TypeOK
\* The next event of a queue is the one behind the cursor.
<1>6. ASSUME NEW c \in Clients, conn[c] # "off", queue[c] # <<>>
      PROVE  /\ CursorOf(c) \in Nat /\ CursorOf(c) < Len(log)
             /\ Head(queue[c]) = [sequence |-> CursorOf(c) + 1, event |-> log[CursorOf(c) + 1]]
             /\ Len(log) - Len(Tail(queue[c])) = CursorOf(c) + 1
  <2>1. EndOfLog(queue[c], log)
    BY DEF FeedInv
  <2>2. /\ Len(queue[c]) \in 1 .. Len(log) /\ Len(Tail(queue[c])) = Len(queue[c]) - 1
        /\ Head(queue[c]) = [sequence |-> Len(log) - Len(queue[c]) + 1,
                             event |-> log[Len(log) - Len(queue[c]) + 1]]
    BY <1>6, <1>l, <2>1, TakesFromLog
  <2>3. CursorOf(c) = Len(log) - Len(queue[c])
    BY <1>6 DEF CursorOf
  <2>4. Len(log) \in Nat /\ Len(queue[c]) \in Nat
    BY <1>l, LenProperties
  <2>5. /\ CursorOf(c) \in Nat /\ CursorOf(c) < Len(log)
        /\ Len(log) - Len(Tail(queue[c])) = CursorOf(c) + 1
    <3>1. /\ Len(log) - Len(queue[c]) \in Nat
          /\ Len(log) - Len(queue[c]) < Len(log)
          /\ Len(log) - Len(Tail(queue[c])) = Len(log) - Len(queue[c]) + 1
      BY <2>2, <2>4, OneLess
    <3> QED BY <2>3, <3>1
  <2> QED BY <2>2, <2>3, <2>5
\* Taking it moves the cursor.
<1>a. ASSUME NEW c \in Clients, conn[c] # "off", queue[c] # <<>>,
             UNCHANGED <<log, conn>>, queue' = [queue EXCEPT ![c] = Tail(queue[c])]
      PROVE  Feed!Advance(c)
  <2>1. /\ CursorOf(c) \in Nat /\ CursorOf(c) < Len(log)
        /\ Len(log) - Len(Tail(queue[c])) = CursorOf(c) + 1
    BY <1>6, <1>a
  <2>2. \A d \in Clients : CursorOf(d)' = IF d = c THEN CursorOf(c) + 1 ELSE CursorOf(d)
    BY <1>a, <2>1 DEF CursorOf, FeedInv, TypeOK
  <2>3. CursorOf(c) # -1
    BY <2>1
  <2> QED BY <2>1, <2>2, <2>3 DEF Feed!Advance, Feed!Off
<1>7. ASSUME NEW c \in Clients, Unsubscribe(c), conn[c] # "off", log' = log PROVE Feed!Next
  <2>1. CursorOf(c) # -1
    <3>1. EndOfLog(queue[c], log) /\ Len(queue[c]) \in Nat /\ Len(log) \in Nat
      BY <1>l, LenProperties DEF FeedInv
    <3> QED BY <1>7, <3>1 DEF CursorOf, EndOfLog
  <2>2. Feed!Disconnect(c)
    BY <1>7, <2>1 DEF Unsubscribe, Feed!Disconnect, Feed!Off, CursorOf, FeedInv, TypeOK
  <2> QED BY <2>2 DEF Feed!Next
<1>8. ASSUME NEW c \in Clients, SendEvent(c) PROVE Feed!Next
  <2>1. conn[c] # "off" /\ queue[c] # <<>> /\ log' = log
    BY <1>8 DEF SendEvent
  <2>2. CASE Unsubscribe(c)
    BY <1>7, <2>1, <2>2
  <2>3. CASE /\ conn' = conn /\ queue' = [queue EXCEPT ![c] = Tail(queue[c])]
             /\ sent' = [sent EXCEPT ![c] = <<Head(queue[c]).sequence, {Head(queue[c]).event}>>]
    <3>1. Head(queue[c]).event \in Wanted[c]
      BY <1>8 DEF SendEvent
    <3>2. /\ CursorOf(c) \in Nat /\ CursorOf(c) < Len(log)
          /\ Head(queue[c]) = [sequence |-> CursorOf(c) + 1, event |-> log[CursorOf(c) + 1]]
          /\ Len(log) - Len(Tail(queue[c])) = CursorOf(c) + 1
      BY <1>6, <2>1
    <3>3. Feed!Advance(c)
      BY <1>a, <2>1, <2>3
    <3>4. /\ Head(queue[c]).sequence = CursorOf(c) + 1
          /\ Head(queue[c]).event = log[CursorOf(c) + 1]
      BY <3>2
    <3>5. /\ log[CursorOf(c) + 1] \in Wanted[c]
          /\ sent' = [sent EXCEPT ![c] = <<CursorOf(c) + 1, {log[CursorOf(c) + 1]}>>]
      BY <2>3, <3>1, <3>4
    <3>6. Feed!Send(c)
      BY <2>1, <3>3, <3>5 DEF Feed!Send
    <3> QED BY <3>6 DEF Feed!Next
  <2> QED BY <1>8, <2>2, <2>3 DEF SendEvent
<1>9. ASSUME NEW c \in Clients, SkipEvent(c) PROVE Feed!Next
  <2>1. /\ conn[c] # "off" /\ queue[c] # <<>> /\ Head(queue[c]).event \notin Wanted[c]
        /\ queue' = [queue EXCEPT ![c] = Tail(queue[c])] /\ UNCHANGED <<log, conn, sent>>
    BY <1>9 DEF SkipEvent
  <2>2. /\ CursorOf(c) \in Nat /\ CursorOf(c) < Len(log)
        /\ Head(queue[c]) = [sequence |-> CursorOf(c) + 1, event |-> log[CursorOf(c) + 1]]
        /\ Len(log) - Len(Tail(queue[c])) = CursorOf(c) + 1
    BY <1>6, <2>1
  <2>3. Feed!Advance(c)
    BY <1>a, <2>1
  <2>4. Feed!Skip(c)
    BY <2>1, <2>2, <2>3 DEF Feed!Skip
  <2> QED BY <2>4 DEF Feed!Next
<1>10. ASSUME NEW c \in Clients, SendHeartbeat(c) PROVE Feed!Next
  BY <1>7, <1>10 DEF SendHeartbeat
<1>11. CASE UNCHANGED vars
  BY <1>11, <1>s DEF vars
<1> QED BY <1>1, <1>2, <1>3, <1>4, <1>5, <1>8, <1>9, <1>10, <1>11 DEF Next, RunReady, Handle

(***************************************************************************)
(* The stream is the feed that clients are promised: in order, without     *)
(* repetition, each client from where it connected, and a client that lags *)
(* behind loses the oldest events only.                                    *)
(***************************************************************************)
THEOREM FeedImplemented == Spec => ImplementsFeed
<1>1. Init => FeedInv
  BY FeedInit
<1>2. FeedInv /\ [Next]_vars => FeedInv'
  BY FeedStep
<1>3. Init => Feed!Init
  BY DEF Init, Feed!Init, Feed!Off, CursorOf
<1>4. FeedInv /\ FeedInv' /\ [Next]_vars => [Feed!Next]_(Feed!vars)
  BY FeedSimulation
<1> QED BY <1>1, <1>2, <1>3, <1>4, PTL DEF Spec, ImplementsFeed, Feed!Spec
----
(***************************************************************************)
(* The order of the events of one thread, and the orders that are stored.  *)
(*                                                                         *)
(* What the loop has to run goes round: a call at the head becomes a task  *)
(* at the end.  So of two events of a thread the later one may stand       *)
(* before the earlier one, but only as long as it is still a call and the  *)
(* other already a task.  An event is stored before it is handed over; it  *)
(* leaves the store only for newer ones, because the orders in the store   *)
(* are as old as they stand.                                               *)
(***************************************************************************)
InOrder(r) ==
  \A i, j \in 1 .. Len(r) : r[i].event.by = r[j].event.by =>
    /\ i < j /\ r[i].what = r[j].what => r[i].event.n < r[j].event.n
    /\ r[i].what = "call" /\ r[j].what = "task" => r[j].event.n < r[i].event.n

PublishedFirst(l, r) ==
  \A i \in 1 .. Len(l), j \in 1 .. Len(r) :
    l[i].by = r[j].event.by => l[i].n < r[j].event.n

\* Event e of a thread is later than what it has handed over.
Latest(e, l, r) ==
  /\ \A i \in 1 .. Len(r) : r[i].event.by = e.by => r[i].event.n < e.n
  /\ \A i \in 1 .. Len(l) : l[i].by = e.by => l[i].n < e.n

NoneIsNewer(m, l, r) ==
  /\ \A i \in 1 .. Len(r) : r[i].event.n <= m
  /\ \A i \in 1 .. Len(l) : l[i].n <= m

InHandOrder ==
  \A p \in Callers : \A e \in hand[p] : e.by = p /\ e.n <= made /\ Latest(e, log, ready)

OrderInv ==
  /\ NoneIsNewer(made, log, ready)
  /\ InHandOrder
  /\ InOrder(ready)
  /\ PublishedFirst(log, ready)
  /\ ThreadsKeepTheirOrder

Kept(e) ==
  \/ \E k \in 1 .. Len(store) : store[k] = e
  \/ Len(store) = StoreSize /\ store[1].n > e.n

StoreInOrder ==
  /\ Len(store) <= StoreSize
  /\ \A k \in 1 .. Len(store) : store[k].n <= made
  /\ \A i, j \in 1 .. Len(store) : i < j => store[i].n < store[j].n

StoreInv ==
  /\ StoreInOrder
  /\ \A p \in Callers : \A e \in hand[p] : e.kind = "stock_order" => Kept(e)
  /\ \A i \in 1 .. Len(ready) : ready[i].event.kind = "stock_order" => Kept(ready[i].event)
  /\ \A i \in 1 .. Len(log) : log[i].kind = "stock_order" => Kept(log[i])

LogInv == TypeOK /\ OrderInv /\ StoreInv

LEMMA SeqElements ==
  ASSUME TypeOK
  PROVE  /\ Len(ready) \in Nat /\ \A i \in 1 .. Len(ready) : ready[i] \in Items /\ ready[i].event \in Events
         /\ Len(log) \in Nat /\ \A i \in 1 .. Len(log) : log[i] \in Events
         /\ Len(store) \in Nat /\ \A i \in 1 .. Len(store) : store[i] \in Events
         /\ made \in Nat
<1>1. ready \in Seq(Items) /\ log \in Seq(Events) /\ store \in Seq(Events) /\ made \in 0 .. MaxEvents
  BY DEF TypeOK, Items
<1>2. \A x \in Items : x.event \in Events
  BY DEF Items
<1>3. Len(ready) \in Nat /\ \A i \in 1 .. Len(ready) : ready[i] \in Items
  BY <1>1, LenProperties
<1>4. Len(log) \in Nat /\ \A i \in 1 .. Len(log) : log[i] \in Events
  BY <1>1, LenProperties
<1>5. Len(store) \in Nat /\ \A i \in 1 .. Len(store) : store[i] \in Events
  BY <1>1, LenProperties
<1>6. made \in Nat
  BY <1>1, EventsAssumption
<1> QED BY <1>2, <1>3, <1>4, <1>5, <1>6

LEMMA EventFields == \A e \in Events : e.n \in Nat /\ e.by \in Callers \union {Loop} /\ e.kind \in Kinds
BY EventsAssumption DEF Events

LEMMA LogInit == Init => LogInv
<1> SUFFICES ASSUME Init PROVE LogInv
  OBVIOUS
<1>1. TypeOK
  BY TypeInit
<1>2. log = <<>> /\ store = <<>> /\ Len(log) = 0 /\ Len(store) = 0 /\ \A p \in Callers : hand[p] = {}
  BY DEF Init
<1>3. \/ made = 0 /\ Len(ready) = 0
      \/ /\ made = 1 /\ Len(ready) = 1 /\ ready[1] = [what |-> "call", event |-> Event(1, "qmt_status", Loop)]
  BY DEF Init
<1>4. \A i \in 1 .. Len(ready) :
        i = 1 /\ ready[i].event.n <= made /\ ready[i].event.kind = "qmt_status" /\ ready[i].what = "call"
  <2>1. CASE Len(ready) = 0
    BY <2>1
  <2>2. CASE made = 1 /\ Len(ready) = 1 /\ ready[1] = [what |-> "call", event |-> Event(1, "qmt_status", Loop)]
    <3>1. ready[1].event = [n |-> 1, kind |-> "qmt_status", by |-> Loop] /\ ready[1].what = "call"
      BY <2>2 DEF Event
    <3>2. \A i \in 1 .. Len(ready) : i = 1
      BY <2>2
    <3> QED BY <2>2, <3>1, <3>2
  <2> QED BY <1>3, <2>1, <2>2
<1>5. OrderInv
  BY <1>2, <1>4 DEF OrderInv, NoneIsNewer, InHandOrder, InOrder, PublishedFirst, ThreadsKeepTheirOrder
<1>6. StoreInv
  <2>1. StoreInOrder
    BY <1>2, EventsAssumption DEF StoreInOrder
  <2> QED BY <1>2, <1>4, <2>1 DEF StoreInv
<1> QED BY <1>1, <1>5, <1>6 DEF LogInv

\* What is ready after an event has been handed over.
LEMMA HandedOver ==
  ASSUME TypeOK, NEW e \in Events, PublishThreadsafe(e)
  PROVE  \/ ready' = ready
         \/ /\ Len(ready') = Len(ready) + 1
            /\ \A i \in 1 .. Len(ready) : ready'[i] = ready[i]
            /\ ready'[Len(ready) + 1] = [what |-> "call", event |-> e]
<1>1. [what |-> "call", event |-> e] \in Items /\ ready \in Seq(Items)
  BY DEF Items, TypeOK
<1> QED BY <1>1, AppendProperties DEF PublishThreadsafe

\* What is ready after a call or a task has been run.
LEMMA CallRun ==
  ASSUME TypeOK, RunCall
  PROVE  /\ Len(ready) \in Nat \ {0} /\ Len(ready') = Len(ready) /\ ready[1].what = "call"
         /\ \A i \in 1 .. Len(ready) - 1 : ready'[i] = ready[i + 1]
         /\ ready'[Len(ready)] = [what |-> "task", event |-> ready[1].event]
<1>1. ready \in Seq(Items) /\ ready # <<>>
  BY DEF TypeOK, Items, RunCall
<1>2. Len(ready) \in Nat \ {0}
  BY <1>1, EmptySeq
<1>3. Head(ready) = ready[1] /\ ready[1] \in Items
  BY <1>1, <1>2, LenProperties
<1>4. [Head(ready) EXCEPT !.what = "task"] = [what |-> "task", event |-> ready[1].event]
      /\ [Head(ready) EXCEPT !.what = "task"] \in Items
  BY <1>3 DEF Items
<1>5. Tail(ready) \in Seq(Items) /\ Len(Tail(ready)) = Len(ready) - 1
      /\ \A i \in 1 .. Len(ready) - 1 : Tail(ready)[i] = ready[i + 1]
  BY <1>1, HeadTailProperties
<1>6. ready' = Append(Tail(ready), [Head(ready) EXCEPT !.what = "task"]) /\ Head(ready).what = "call"
  BY DEF RunCall
<1>7. /\ Len(ready') = (Len(ready) - 1) + 1
      /\ \A i \in 1 .. Len(ready) - 1 : ready'[i] = Tail(ready)[i]
      /\ ready'[(Len(ready) - 1) + 1] = [Head(ready) EXCEPT !.what = "task"]
  BY <1>4, <1>5, <1>6, AppendProperties
<1> QED BY <1>2, <1>3, <1>4, <1>5, <1>6, <1>7

LEMMA TaskRun ==
  ASSUME TypeOK, RunTask
  PROVE  /\ Len(ready) \in Nat \ {0} /\ Len(ready') = Len(ready) - 1 /\ ready[1].what = "task"
         /\ \A i \in 1 .. Len(ready) - 1 : ready'[i] = ready[i + 1]
         /\ Len(log') = Len(log) + 1 /\ log'[Len(log) + 1] = ready[1].event
         /\ \A i \in 1 .. Len(log) : log'[i] = log[i]
<1>1. ready \in Seq(Items) /\ ready # <<>> /\ log \in Seq(Events)
  BY DEF TypeOK, Items, RunTask
<1>2. Len(ready) \in Nat \ {0}
  BY <1>1, EmptySeq
<1>3. Head(ready) = ready[1] /\ ready[1] \in Items
  BY <1>1, <1>2, LenProperties
<1>4. ready' = Tail(ready) /\ Head(ready).what = "task" /\ log' = Append(log, Head(ready).event)
  BY DEF RunTask
<1>5. Len(Tail(ready)) = Len(ready) - 1 /\ \A i \in 1 .. Len(ready) - 1 : Tail(ready)[i] = ready[i + 1]
  BY <1>1, HeadTailProperties
<1>6. ready[1].event \in Events
  BY <1>3 DEF Items
<1>7. /\ Len(log') = Len(log) + 1 /\ log'[Len(log) + 1] = ready[1].event
      /\ \A i \in 1 .. Len(log) : log'[i] = log[i]
  BY <1>1, <1>3, <1>4, <1>6, AppendProperties
<1> QED BY <1>2, <1>3, <1>4, <1>5, <1>7

(***************************************************************************)
(* The order of the events.                                                *)
(***************************************************************************)
LEMMA OrderHandOver ==
  ASSUME TypeOK, OrderInv, NEW e \in Events, PublishThreadsafe(e), Latest(e, log, ready),
         made' \in Nat, made <= made', e.n <= made',
         \A p \in Callers : \A f \in hand'[p] :
           f \in Events /\ f.by = p /\ f.n <= made' /\ Latest(f, log, ready) /\ f.by # e.by
  PROVE  OrderInv'
<1>l. log' = log
  BY DEF PublishThreadsafe
<1>s. /\ Len(ready) \in Nat /\ Len(log) \in Nat /\ made \in Nat
      /\ \A i \in 1 .. Len(ready) : ready[i].event.n \in Nat
      /\ \A i \in 1 .. Len(log) : log[i].n \in Nat
  BY SeqElements, EventFields
<1>o. ThreadsKeepTheirOrder'
  BY <1>l DEF OrderInv, ThreadsKeepTheirOrder
<1>1. CASE ready' = ready
  <2>1. NoneIsNewer(made', log', ready')
    BY <1>1, <1>l, <1>s DEF OrderInv, NoneIsNewer
  <2>2. InHandOrder'
    BY <1>1, <1>l DEF InHandOrder
  <2>3. InOrder(ready') /\ PublishedFirst(log', ready')
    BY <1>1, <1>l DEF OrderInv
  <2> QED BY <1>o, <2>1, <2>2, <2>3 DEF OrderInv
<1>2. CASE /\ Len(ready') = Len(ready) + 1
           /\ \A i \in 1 .. Len(ready) : ready'[i] = ready[i]
           /\ ready'[Len(ready) + 1] = [what |-> "call", event |-> e]
  <2>0. \A i \in 1 .. Len(ready') :
          \/ i \in 1 .. Len(ready) /\ ready'[i] = ready[i]
          \/ i = Len(ready) + 1 /\ ready'[i].event = e /\ ready'[i].what = "call"
    BY <1>2, <1>s
  <2>1. NoneIsNewer(made', log', ready')
    <3>1. \A i \in 1 .. Len(ready) : ready[i].event.n <= made
      BY DEF OrderInv, NoneIsNewer
    <3>2. \A i \in 1 .. Len(log') : log'[i].n <= made'
      BY <1>l, <1>s DEF OrderInv, NoneIsNewer
    <3>3. \A i \in 1 .. Len(ready') : ready'[i].event.n <= made'
      BY <1>s, <2>0, <3>1
    <3> QED BY <3>2, <3>3 DEF NoneIsNewer
  <2>2. InHandOrder'
    <3> SUFFICES ASSUME NEW p \in Callers, NEW f \in hand'[p]
                 PROVE  f.by = p /\ f.n <= made' /\ Latest(f, log', ready')
      BY DEF InHandOrder
    <3>1. f.by = p /\ f.n <= made' /\ Latest(f, log, ready) /\ f.by # e.by
      OBVIOUS
    <3>2. \A i \in 1 .. Len(ready') : ready'[i].event.by = f.by => ready'[i].event.n < f.n
      BY <2>0, <3>1 DEF Latest
    <3> QED BY <1>l, <3>1, <3>2 DEF Latest
  <2>3. InOrder(ready')
    <3> SUFFICES ASSUME NEW i \in 1 .. Len(ready'), NEW j \in 1 .. Len(ready'),
                        ready'[i].event.by = ready'[j].event.by
                 PROVE  /\ i < j /\ ready'[i].what = ready'[j].what => ready'[i].event.n < ready'[j].event.n
                        /\ ready'[i].what = "call" /\ ready'[j].what = "task"
                             => ready'[j].event.n < ready'[i].event.n
      BY DEF InOrder
    <3>1. CASE i \in 1 .. Len(ready) /\ j \in 1 .. Len(ready)
      BY <1>2, <3>1 DEF OrderInv, InOrder
    <3>2. CASE i = Len(ready) + 1 /\ j \in 1 .. Len(ready)
      <4>1. ready'[i].event = e /\ ready'[j] = ready[j] /\ ~(i < j)
        BY <1>2, <1>s, <3>2
      <4> QED BY <3>2, <4>1 DEF Latest
    <3>3. CASE i \in 1 .. Len(ready) /\ j = Len(ready) + 1
      <4>1. ready'[j].event = e /\ ready'[i] = ready[i] /\ ready'[j].what = "call"
        BY <1>2, <3>3
      <4> QED BY <3>3, <4>1 DEF Latest
    <3>4. CASE i = Len(ready) + 1 /\ j = Len(ready) + 1
      BY <1>2, <1>s, <3>4
    <3> QED BY <2>0, <3>1, <3>2, <3>3, <3>4
  <2>4. PublishedFirst(log', ready')
    BY <1>l, <2>0 DEF OrderInv, PublishedFirst, Latest
  <2> QED BY <1>o, <2>1, <2>2, <2>3, <2>4 DEF OrderInv
<1> QED BY <1>1, <1>2, HandedOver

LEMMA OrderCall == ASSUME TypeOK, OrderInv, RunCall PROVE OrderInv'
<1>l. log' = log /\ made' = made /\ hand' = hand
  BY DEF RunCall
<1>s. Len(ready) \in Nat \ {0} /\ Len(ready') = Len(ready)
  BY CallRun
\* The event at i was at the place from[i].
<1> DEFINE from(i) == IF i = Len(ready) THEN 1 ELSE i + 1
<1>0. \A i \in 1 .. Len(ready') :
        /\ from(i) \in 1 .. Len(ready) /\ ready'[i].event = ready[from(i)].event
        /\ i # Len(ready) => ready'[i].what = ready[from(i)].what /\ from(i) = i + 1
        /\ i = Len(ready) => ready'[i].what = "task" /\ ready[from(i)].what = "call" /\ from(i) = 1
  <2> SUFFICES ASSUME NEW i \in 1 .. Len(ready)
               PROVE  /\ from(i) \in 1 .. Len(ready) /\ ready'[i].event = ready[from(i)].event
                      /\ i # Len(ready) => ready'[i].what = ready[from(i)].what /\ from(i) = i + 1
                      /\ i = Len(ready) => ready'[i].what = "task" /\ ready[from(i)].what = "call" /\ from(i) = 1
    BY <1>s
  <2>1. CASE i = Len(ready)
    BY <1>s, <2>1, CallRun
  <2>2. CASE i # Len(ready)
    <3>1. i \in 1 .. Len(ready) - 1 /\ from(i) = i + 1 /\ from(i) \in 1 .. Len(ready)
      BY <1>s, <2>2
    <3>2. ready'[i] = ready[i + 1]
      BY <3>1, CallRun
    <3> QED BY <2>2, <3>1, <3>2
  <2> QED BY <2>1, <2>2
<1> HIDE DEF from
<1>1. NoneIsNewer(made', log', ready')
  BY <1>l, <1>0 DEF OrderInv, NoneIsNewer
<1>2. InHandOrder'
  <2> SUFFICES ASSUME NEW p \in Callers, NEW f \in hand[p]
               PROVE  f.by = p /\ f.n <= made /\ Latest(f, log, ready')
    BY <1>l DEF InHandOrder
  <2>1. f.by = p /\ f.n <= made /\ Latest(f, log, ready)
    BY DEF OrderInv, InHandOrder
  <2>2. \A i \in 1 .. Len(ready') : ready'[i].event.by = f.by => ready'[i].event.n < f.n
    BY <1>0, <2>1 DEF Latest
  <2> QED BY <2>1, <2>2 DEF Latest
<1>3. InOrder(ready')
  <2> SUFFICES ASSUME NEW i \in 1 .. Len(ready'), NEW j \in 1 .. Len(ready'),
                      ready'[i].event.by = ready'[j].event.by
               PROVE  /\ i < j /\ ready'[i].what = ready'[j].what => ready'[i].event.n < ready'[j].event.n
                      /\ ready'[i].what = "call" /\ ready'[j].what = "task"
                           => ready'[j].event.n < ready'[i].event.n
    BY DEF InOrder
  <2>1. /\ from(i) < from(j) /\ ready[from(i)].what = ready[from(j)].what
             => ready[from(i)].event.n < ready[from(j)].event.n
        /\ from(j) < from(i) /\ ready[from(i)].what = ready[from(j)].what
             => ready[from(j)].event.n < ready[from(i)].event.n
        /\ ready[from(i)].what = "call" /\ ready[from(j)].what = "task"
             => ready[from(j)].event.n < ready[from(i)].event.n
        /\ ready[from(j)].what = "call" /\ ready[from(i)].what = "task"
             => ready[from(i)].event.n < ready[from(j)].event.n
    BY <1>0 DEF OrderInv, InOrder
  <2>2. CASE i # Len(ready) /\ j # Len(ready)
    <3>1. from(i) = i + 1 /\ from(j) = j + 1 /\ (i < j => from(i) < from(j))
      BY <1>0, <2>2
    <3> QED BY <1>0, <2>1, <2>2, <3>1
  <2>3. CASE i # Len(ready) /\ j = Len(ready)
    <3>1. from(j) < from(i) /\ ready'[j].what = "task" /\ ready[from(j)].what = "call"
          /\ ready'[i].what = ready[from(i)].what
      BY <1>0, <2>3
    <3> QED BY <1>0, <2>1, <3>1
  <2>4. CASE i = Len(ready)
    <3>1. ~(i < j) /\ ready'[i].what = "task"
      BY <1>0, <1>s, <2>4
    <3> QED BY <3>1
  <2> QED BY <2>2, <2>3, <2>4
<1>4. PublishedFirst(log', ready')
  BY <1>l, <1>0 DEF OrderInv, PublishedFirst
<1>5. ThreadsKeepTheirOrder'
  BY <1>l DEF OrderInv, ThreadsKeepTheirOrder
<1> QED BY <1>1, <1>2, <1>3, <1>4, <1>5 DEF OrderInv

LEMMA OrderTask == ASSUME TypeOK, OrderInv, RunTask PROVE OrderInv'
<1>l. made' = made /\ hand' = hand
  BY DEF RunTask
<1>s. Len(ready) \in Nat \ {0} /\ Len(ready') = Len(ready) - 1 /\ Len(log) \in Nat /\ Len(log') = Len(log) + 1
  BY TaskRun, SeqElements
<1>r. \A i \in 1 .. Len(ready') : i + 1 \in 1 .. Len(ready) /\ ready'[i] = ready[i + 1]
  BY <1>s, TaskRun
<1>g. \A i \in 1 .. Len(log') : \/ i \in 1 .. Len(log) /\ log'[i] = log[i]
                                \/ i = Len(log) + 1 /\ log'[i] = ready[1].event
  BY <1>s, TaskRun
<1>h. 1 \in 1 .. Len(ready) /\ ready[1].what = "task"
  BY <1>s, TaskRun
<1>1. NoneIsNewer(made', log', ready')
  BY <1>l, <1>r, <1>g, <1>h DEF OrderInv, NoneIsNewer
<1>2. InHandOrder'
  <2> SUFFICES ASSUME NEW p \in Callers, NEW f \in hand[p]
               PROVE  f.by = p /\ f.n <= made /\ Latest(f, log', ready')
    BY <1>l DEF InHandOrder
  <2>1. f.by = p /\ f.n <= made /\ Latest(f, log, ready)
    BY DEF OrderInv, InHandOrder
  <2>2. \A i \in 1 .. Len(ready') : ready'[i].event.by = f.by => ready'[i].event.n < f.n
    BY <1>r, <2>1 DEF Latest
  <2>3. \A i \in 1 .. Len(log') : log'[i].by = f.by => log'[i].n < f.n
    BY <1>g, <1>h, <2>1 DEF Latest
  <2> QED BY <2>1, <2>2, <2>3 DEF Latest
<1>3. InOrder(ready')
  <2> SUFFICES ASSUME NEW i \in 1 .. Len(ready'), NEW j \in 1 .. Len(ready'),
                      ready'[i].event.by = ready'[j].event.by
               PROVE  /\ i < j /\ ready'[i].what = ready'[j].what => ready'[i].event.n < ready'[j].event.n
                      /\ ready'[i].what = "call" /\ ready'[j].what = "task"
                           => ready'[j].event.n < ready'[i].event.n
    BY DEF InOrder
  <2>1. /\ i + 1 \in 1 .. Len(ready) /\ ready'[i] = ready[i + 1]
        /\ j + 1 \in 1 .. Len(ready) /\ ready'[j] = ready[j + 1]
        /\ i < j => i + 1 < j + 1
    BY <1>r
  <2>2. InOrder(ready)
    BY DEF OrderInv
  <2> QED BY <2>1, <2>2 DEF InOrder
\* Nothing of the thread stands in front of its first task.
<1>4. \A j \in 1 .. Len(ready') :
        ready[1].event.by = ready'[j].event.by => ready[1].event.n < ready'[j].event.n
  <2> SUFFICES ASSUME NEW j \in 1 .. Len(ready'), ready[1].event.by = ready'[j].event.by
               PROVE  ready[1].event.n < ready'[j].event.n
    OBVIOUS
  <2>1. j + 1 \in 1 .. Len(ready) /\ ready'[j] = ready[j + 1] /\ 1 < j + 1
    BY <1>r
  <2>2. ready[j + 1].what \in {"call", "task"}
    BY <2>1, SeqElements DEF Items
  <2> QED BY <1>h, <2>1, <2>2 DEF OrderInv, InOrder
<1>5. PublishedFirst(log', ready')
  <2> SUFFICES ASSUME NEW i \in 1 .. Len(log'), NEW j \in 1 .. Len(ready'), log'[i].by = ready'[j].event.by
               PROVE  log'[i].n < ready'[j].event.n
    BY DEF PublishedFirst
  <2>1. CASE i \in 1 .. Len(log) /\ log'[i] = log[i]
    BY <1>r, <2>1 DEF OrderInv, PublishedFirst
  <2>2. CASE log'[i] = ready[1].event
    BY <1>4, <2>2
  <2> QED BY <1>g, <2>1, <2>2
<1>6. ThreadsKeepTheirOrder'
  <2> SUFFICES ASSUME NEW i \in 1 .. Len(log'), NEW j \in 1 .. Len(log'), i < j, log'[i].by = log'[j].by
               PROVE  log'[i].n < log'[j].n
    BY DEF ThreadsKeepTheirOrder
  <2>1. i \in 1 .. Len(log) /\ log'[i] = log[i]
    BY <1>g, <1>s
  <2>2. CASE j \in 1 .. Len(log) /\ log'[j] = log[j]
    BY <2>1, <2>2 DEF OrderInv, ThreadsKeepTheirOrder
  <2>3. CASE log'[j] = ready[1].event
    BY <1>h, <2>1, <2>3 DEF OrderInv, PublishedFirst
  <2> QED BY <1>g, <2>2, <2>3
<1> QED BY <1>1, <1>2, <1>3, <1>5, <1>6 DEF OrderInv

LEMMA OrderStep == TypeOK /\ OrderInv /\ [Next]_vars => OrderInv'
<1> SUFFICES ASSUME TypeOK, OrderInv, [Next]_vars PROVE OrderInv'
  OBVIOUS
<1> USE DEF bus, clients
<1>t. TypeOK'
  BY TypeStep
<1>m. made \in Nat /\ made' \in Nat /\ hand \in [Callers -> SUBSET Events] /\ hand' \in [Callers -> SUBSET Events]
  BY <1>t, EventsAssumption DEF TypeOK
<1>n. /\ \A i \in 1 .. Len(ready) : ready[i].event.n <= made /\ ready[i].event.n \in Nat
      /\ \A i \in 1 .. Len(log) : log[i].n <= made /\ log[i].n \in Nat
  BY SeqElements, EventFields DEF OrderInv, NoneIsNewer
\* A new event is later than any other.
<1>e. ASSUME made' = made + 1, NEW kind, NEW p
      PROVE  Latest(Event(made + 1, kind, p), log, ready)
  <2>1. Event(made + 1, kind, p).n = made + 1
    BY DEF Event
  <2> QED BY <1>m, <1>n, <2>1 DEF Latest
<1>h. \A p \in Callers : \A f \in hand[p] : f.by = p /\ f.n <= made /\ f.n \in Nat /\ Latest(f, log, ready)
  BY <1>m, EventFields DEF OrderInv, InHandOrder
\* Steps that leave ready and log alone.
<1>u. ASSUME UNCHANGED <<ready, log>>, made <= made', InHandOrder' PROVE OrderInv'
  <2>1. NoneIsNewer(made', log', ready')
    BY <1>m, <1>n, <1>u DEF NoneIsNewer
  <2>2. InOrder(ready') /\ PublishedFirst(log', ready')
    BY <1>u DEF OrderInv
  <2>3. ThreadsKeepTheirOrder'
    BY <1>u DEF OrderInv, ThreadsKeepTheirOrder
  <2> QED BY <1>u, <2>1, <2>2, <2>3 DEF OrderInv
<1>1. ASSUME NEW p \in Callers, RecordOrder(p) PROVE OrderInv'
  <2> DEFINE e == Event(made + 1, "stock_order", p)
  <2>1. /\ made' = made + 1 /\ hand' = [hand EXCEPT ![p] = {e}] /\ UNCHANGED <<ready, log>>
    BY <1>1 DEF RecordOrder
  <2>2. e.by = p /\ e.n = made' /\ Latest(e, log, ready)
    BY <1>e, <2>1 DEF Event
  <2> HIDE DEF e
  <2>3. InHandOrder'
    <3> SUFFICES ASSUME NEW q \in Callers, NEW f \in hand'[q]
                 PROVE  f.by = q /\ f.n <= made' /\ Latest(f, log', ready')
      BY DEF InHandOrder
    <3>1. CASE q = p
      <4>1. f = e
        BY <1>m, <2>1, <3>1
      <4> QED BY <1>m, <2>1, <2>2, <3>1, <4>1
    <3>2. CASE q # p
      <4>1. f \in hand[q]
        BY <1>m, <2>1, <3>2
      <4> QED BY <1>h, <1>m, <2>1, <4>1
    <3> QED BY <3>1, <3>2
  <2> QED BY <1>m, <1>u, <2>1, <2>3
<1>2. ASSUME NEW p \in Callers, PublishOrder(p) PROVE OrderInv'
  <2>1. PICK e \in hand[p] : PublishThreadsafe(e)
    BY <1>2 DEF PublishOrder
  <2>2. made' = made /\ hand' = [hand EXCEPT ![p] = {}]
    BY <1>2 DEF PublishOrder
  <2>3. e \in Events /\ e.by = p /\ e.n <= made' /\ Latest(e, log, ready)
    BY <1>h, <1>m, <2>1, <2>2
  <2>4. ASSUME NEW q \in Callers, NEW f \in hand'[q]
        PROVE  f \in Events /\ f.by = q /\ f.n <= made' /\ Latest(f, log, ready) /\ f.by # e.by
    <3>1. q # p /\ f \in hand[q]
      BY <1>m, <2>2
    <3> QED BY <1>h, <1>m, <2>2, <2>3, <3>1
  <2>5. made <= made'
    BY <1>m, <2>2
  <2> QED BY <1>m, <2>1, <2>3, <2>4, <2>5, OrderHandOver
<1>3. ASSUME NEW p \in Callers, PublishStatus(p) PROVE OrderInv'
  <2> DEFINE e == Event(made + 1, "qmt_status", p)
  <2>1. made' = made + 1 /\ hand' = hand /\ hand[p] = {} /\ PublishThreadsafe(e)
    BY <1>3 DEF PublishStatus
  <2>2. e.by = p /\ e.n = made' /\ Latest(e, log, ready)
    BY <1>e, <2>1 DEF Event
  <2>3. e \in Events
    <3>1. made + 1 \in 1 .. MaxEvents
      BY <1>3, EventsAssumption DEF PublishStatus, TypeOK
    <3> QED BY <3>1, EventType DEF Kinds
  <2> HIDE DEF e
  <2>4. ASSUME NEW q \in Callers, NEW f \in hand'[q]
        PROVE  f \in Events /\ f.by = q /\ f.n <= made' /\ Latest(f, log, ready) /\ f.by # e.by
    <3>1. f.by = q /\ f.n <= made /\ f.n \in Nat /\ Latest(f, log, ready) /\ f \in Events
      BY <1>h, <1>m, <2>1
    <3>2. q # p
      BY <2>1
    <3> QED BY <1>m, <2>1, <2>2, <3>1, <3>2
  <2>5. e.n <= made' /\ made <= made'
    BY <1>m, <2>1, <2>2
  <2> QED BY <1>m, <2>1, <2>2, <2>3, <2>4, <2>5, OrderHandOver
<1>4. CASE RunCall
  BY <1>4, OrderCall
<1>5. CASE RunTask
  BY <1>5, OrderTask
<1>6. ASSUME UNCHANGED <<made, hand, ready, log>> PROVE OrderInv'
  <2>1. InHandOrder'
    BY <1>6 DEF OrderInv, InHandOrder
  <2> QED BY <1>m, <1>6, <1>u, <2>1
<1>7. ASSUME NEW c \in Clients, Subscribe(c) \/ Leave(c) \/ Handle(c) PROVE OrderInv'
  BY <1>6, <1>7 DEF Subscribe, Leave, Handle, SendEvent, SkipEvent, SendHeartbeat
<1>8. CASE UNCHANGED vars
  BY <1>6, <1>8 DEF vars
<1> QED BY <1>1, <1>2, <1>3, <1>4, <1>5, <1>7, <1>8 DEF Next, RunReady

(***************************************************************************)
(* The store.                                                              *)
(***************************************************************************)
LEMMA StorePush ==
  ASSUME TypeOK, StoreInOrder, NEW e \in Events, e.n = made + 1, made' = made + 1,
         store' = Push(store, e, StoreSize)
  PROVE  StoreInOrder' /\ Kept(e)' /\ \A f \in Events : Kept(f) => Kept(f)'
<1>s. /\ store \in Seq(Events) /\ Len(store) \in Nat /\ StoreSize \in Nat \ {0} /\ made \in Nat
      /\ \A k \in 1 .. Len(store) : store[k].n \in Nat
  BY SeqElements, EventFields, EventsAssumption DEF TypeOK
<1>i. /\ Len(store) <= StoreSize
      /\ \A k \in 1 .. Len(store) : store[k].n <= made
      /\ \A i, j \in 1 .. Len(store) : i < j => store[i].n < store[j].n
  BY DEF StoreInOrder
<1>1. CASE Len(store) < StoreSize
  <2>1. /\ Len(store') = Len(store) + 1 /\ store'[Len(store) + 1] = e
        /\ \A i \in 1 .. Len(store) : store'[i] = store[i]
    BY <1>s, <1>i, <1>1, PushProperties
  <2>2. \A i \in 1 .. Len(store') : \/ i \in 1 .. Len(store) /\ store'[i] = store[i]
                                    \/ i = Len(store) + 1 /\ store'[i] = e
    BY <1>s, <2>1
  <2>3. Len(store') <= StoreSize
    BY <1>s, <1>1, <2>1
  <2>4. \A k \in 1 .. Len(store') : store'[k].n <= made'
    BY <1>s, <1>i, <2>2
  <2>5. ASSUME NEW i \in 1 .. Len(store'), NEW j \in 1 .. Len(store'), i < j
        PROVE  store'[i].n < store'[j].n
    <3>1. i \in 1 .. Len(store) /\ store'[i] = store[i]
      BY <1>s, <2>1, <2>5
    <3>2. CASE j \in 1 .. Len(store) /\ store'[j] = store[j]
      BY <1>i, <2>5, <3>1, <3>2
    <3>3. CASE store'[j] = e
      BY <1>s, <1>i, <3>1, <3>3
    <3> QED BY <2>2, <3>2, <3>3
  <2>6. Kept(e)'
    <3>1. Len(store) + 1 \in 1 .. Len(store')
      BY <1>s, <2>1
    <3> QED BY <2>1, <3>1 DEF Kept
  <2>7. ASSUME NEW f \in Events, Kept(f) PROVE Kept(f)'
    <3>1. PICK k \in 1 .. Len(store) : store[k] = f
      BY <1>1, <1>s, <2>7 DEF Kept
    <3>2. k \in 1 .. Len(store') /\ store'[k] = f
      BY <1>s, <2>1, <3>1
    <3> QED BY <3>2 DEF Kept
  <2> QED BY <2>3, <2>4, <2>5, <2>6, <2>7 DEF StoreInOrder
<1>2. CASE Len(store) = StoreSize
  <2>1. /\ Len(store') = StoreSize /\ store'[StoreSize] = e
        /\ \A i \in 1 .. StoreSize - 1 : store'[i] = store[i + 1]
    <3>1. /\ store \in Seq(Events) /\ e \in Events /\ StoreSize \in Nat \ {0} /\ Len(store) <= StoreSize
          /\ Len(store) = StoreSize
      BY <1>s, <1>i, <1>2
    <3>2. /\ Len(Push(store, e, StoreSize)) = StoreSize /\ Push(store, e, StoreSize)[StoreSize] = e
          /\ \A i \in 1 .. StoreSize - 1 : Push(store, e, StoreSize)[i] = store[i + 1]
      BY ONLY <3>1, PushProperties
    <3> QED BY <3>2
  <2>2. \A i \in 1 .. Len(store') : \/ i + 1 \in 1 .. Len(store) /\ store'[i] = store[i + 1]
                                    \/ i = Len(store) /\ store'[i] = e
    BY <1>s, <1>2, <2>1
  <2>3. Len(store') <= StoreSize
    BY <1>s, <1>2, <2>1
  <2>4. \A k \in 1 .. Len(store') : store'[k].n <= made'
    BY <1>s, <1>i, <2>2
  <2>5. ASSUME NEW i \in 1 .. Len(store'), NEW j \in 1 .. Len(store'), i < j
        PROVE  store'[i].n < store'[j].n
    <3>1. i + 1 \in 1 .. Len(store) /\ store'[i] = store[i + 1]
      BY <1>s, <1>2, <2>1, <2>2, <2>5
    <3>2. CASE j + 1 \in 1 .. Len(store) /\ store'[j] = store[j + 1]
      BY <1>i, <2>5, <3>1, <3>2
    <3>3. CASE store'[j] = e
      BY <1>s, <1>i, <3>1, <3>3
    <3> QED BY <2>2, <3>2, <3>3
  <2>6. Kept(e)'
    <3>1. StoreSize \in 1 .. Len(store')
      BY <1>s, <2>1
    <3> QED BY <2>1, <3>1 DEF Kept
  \* What was the oldest is newer now.
  <2>7. store'[1].n > store[1].n
    <3>1. 1 \in 1 .. Len(store) /\ 1 \in 1 .. Len(store')
      BY <1>s, <1>2, <2>1
    <3>2. CASE store'[1] = e
      BY <1>s, <1>i, <3>1, <3>2
    <3>3. CASE 2 \in 1 .. Len(store) /\ store'[1] = store[2]
      BY <1>s, <1>i, <3>1, <3>3
    <3> QED BY <2>2, <3>1, <3>2, <3>3
  <2>8. ASSUME NEW f \in Events, Kept(f) PROVE Kept(f)'
    <3>0. f.n \in Nat /\ store[1].n \in Nat /\ store'[1].n \in Nat
      <4>1. 1 \in 1 .. Len(store) /\ 1 \in 1 .. Len(store')
        BY <1>s, <1>2, <2>1
      <4> QED BY <1>s, <2>2, <4>1, EventFields
    <3>1. CASE store[1].n > f.n
      <4>1. store'[1].n > f.n
        BY <2>7, <3>0, <3>1
      <4> QED BY <2>1, <4>1 DEF Kept
    <3>2. ASSUME NEW k \in 1 .. Len(store), store[k] = f PROVE Kept(f)'
      <4>1. CASE k = 1
        BY <2>1, <2>7, <3>2, <4>1 DEF Kept
      <4>2. CASE k # 1
        <5>1. k - 1 \in 1 .. StoreSize - 1 /\ k - 1 \in 1 .. Len(store') /\ (k - 1) + 1 = k
          BY <1>s, <1>2, <2>1, <4>2
        <5>2. store'[k - 1] = f
          BY <2>1, <3>2, <5>1
        <5> QED BY <5>1, <5>2 DEF Kept
      <4> QED BY <4>1, <4>2
    <3> QED BY <2>8, <3>1, <3>2 DEF Kept
  <2> QED BY <2>3, <2>4, <2>5, <2>6, <2>8 DEF StoreInOrder
<1> QED BY <1>s, <1>i, <1>1, <1>2

\* What is under way after a step, f, is kept.
LEMMA StoreFrom ==
  ASSUME StoreInOrder',
         \A p \in Callers : \A f \in hand'[p] : f.kind = "stock_order" => Kept(f)',
         \A i \in 1 .. Len(ready') : \A f : f = ready'[i].event /\ f.kind = "stock_order" => Kept(f)',
         \A i \in 1 .. Len(log') : \A f : f = log'[i] /\ f.kind = "stock_order" => Kept(f)'
  PROVE  StoreInv'
BY DEF StoreInv, Kept

\* It is enough that nothing comes up that is not kept, and that the store keeps what it has.
LEMMA StoreStays ==
  ASSUME StoreInv, StoreInOrder', \A f \in Events : Kept(f) => Kept(f)',
         hand' \in [Callers -> SUBSET Events],
         \A i \in 1 .. Len(ready') : ready'[i].event \in Events,
         \A i \in 1 .. Len(log') : log'[i] \in Events,
         \A p \in Callers : \A f \in hand'[p] : f.kind = "stock_order" => Kept(f) \/ Kept(f)',
         \A i \in 1 .. Len(ready') : ready'[i].event.kind = "stock_order" => Kept(ready'[i].event),
         \A i \in 1 .. Len(log') : log'[i].kind = "stock_order" => Kept(log'[i])
  PROVE  StoreInv'
<1>1. \A p \in Callers : \A f \in hand'[p] : f.kind = "stock_order" => Kept(f)'
  OBVIOUS
<1>2. \A i \in 1 .. Len(ready') : \A f : f = ready'[i].event /\ f.kind = "stock_order" => Kept(f)'
  OBVIOUS
<1>3. \A i \in 1 .. Len(log') : \A f : f = log'[i] /\ f.kind = "stock_order" => Kept(f)'
  OBVIOUS
<1> QED BY <1>1, <1>2, <1>3, StoreFrom

LEMMA StoreStep == TypeOK /\ StoreInv /\ [Next]_vars => StoreInv'
<1> SUFFICES ASSUME TypeOK, StoreInv, [Next]_vars PROVE StoreInv'
  OBVIOUS
<1> USE DEF bus, clients
<1>m. made \in Nat /\ hand \in [Callers -> SUBSET Events]
  BY EventsAssumption DEF TypeOK
<1>t. /\ hand' \in [Callers -> SUBSET Events] /\ \A i \in 1 .. Len(ready') : ready'[i].event \in Events
      /\ \A i \in 1 .. Len(log') : log'[i] \in Events
  <2>1. TypeOK'
    BY TypeStep
  <2>2. hand' \in [Callers -> SUBSET Events] /\ ready' \in Seq(Items) /\ log' \in Seq(Events)
    BY <2>1 DEF TypeOK, Items
  <2>3. \A x \in Items : x.event \in Events
    BY DEF Items
  <2> QED BY <2>2, <2>3, LenProperties
<1>k. /\ \A i \in 1 .. Len(ready) : ready[i].event.kind = "stock_order" => Kept(ready[i].event)
      /\ \A i \in 1 .. Len(log) : log[i].kind = "stock_order" => Kept(log[i])
      /\ \A p \in Callers : \A e \in hand[p] : e.kind = "stock_order" => Kept(e)
  BY DEF StoreInv
<1>o. StoreInOrder /\ \A k \in 1 .. Len(store) : store[k].n \in Nat
  BY SeqElements, EventFields DEF StoreInv
<1>s. ASSUME store' = store, made' = made \/ made' = made + 1
      PROVE  StoreInOrder' /\ \A f \in Events : Kept(f) => Kept(f)'
  <2>1. \A f \in Events : Kept(f) => Kept(f)'
    BY <1>s DEF Kept
  <2>2. \A k \in 1 .. Len(store) : store[k].n <= made'
    BY <1>m, <1>o, <1>s DEF StoreInOrder
  <2>3. StoreInOrder'
    BY <1>o, <1>s, <2>2 DEF StoreInOrder
  <2> QED BY <2>1, <2>3
<1>1. ASSUME NEW p \in Callers, RecordOrder(p) PROVE StoreInv'
  <2>0. made + 1 \in 1 .. MaxEvents
    BY <1>1, EventsAssumption DEF RecordOrder, TypeOK
  <2>1. PICK e \in Events : e = Event(made + 1, "stock_order", p)
    BY <2>0, EventType DEF Kinds
  <2>2. /\ made' = made + 1 /\ store' = Push(store, e, StoreSize) /\ hand' = [hand EXCEPT ![p] = {e}]
        /\ UNCHANGED <<ready, log>> /\ e.n = made + 1
    BY <1>1, <2>1 DEF RecordOrder, Event
  <2>3. StoreInOrder' /\ Kept(e)' /\ \A f \in Events : Kept(f) => Kept(f)'
    BY <1>o, <2>2, StorePush
  <2>4. ASSUME NEW q \in Callers, NEW f \in hand'[q], f.kind = "stock_order" PROVE Kept(f) \/ Kept(f)'
    <3>1. f = e \/ f \in hand[q]
      BY <1>m, <2>2
    <3> QED BY <1>k, <2>3, <2>4, <3>1
  <2> QED BY <1>k, <1>t, <2>2, <2>3, <2>4, StoreStays
\* An event is handed over that is kept, if it is an order.
<1>h. ASSUME NEW e \in Events, PublishThreadsafe(e), e.kind = "stock_order" => Kept(e)
      PROVE  \A i \in 1 .. Len(ready') : ready'[i].event.kind = "stock_order" => Kept(ready'[i].event)
  <2>1. CASE ready' = ready
    BY <1>k, <2>1
  <2>2. CASE /\ Len(ready') = Len(ready) + 1
             /\ \A i \in 1 .. Len(ready) : ready'[i] = ready[i]
             /\ ready'[Len(ready) + 1] = [what |-> "call", event |-> e]
    <3>1. \A i \in 1 .. Len(ready') : \/ i \in 1 .. Len(ready) /\ ready'[i] = ready[i]
                                      \/ ready'[i].event = e
      BY <2>2, SeqElements
    <3> QED BY <1>h, <1>k, <3>1
  <2> QED BY <1>h, <2>1, <2>2, HandedOver
<1>2. ASSUME NEW p \in Callers, PublishOrder(p) PROVE StoreInv'
  <2>1. PICK e \in hand[p] : PublishThreadsafe(e)
    BY <1>2 DEF PublishOrder
  <2>2. UNCHANGED <<store, made, log>> /\ \A q \in Callers : hand'[q] \subseteq hand[q]
    BY <1>2, <1>m, <2>1 DEF PublishOrder, PublishThreadsafe
  <2>3. e \in Events /\ (e.kind = "stock_order" => Kept(e))
    BY <1>k, <1>m, <2>1
  <2>4. \A i \in 1 .. Len(ready') : ready'[i].event.kind = "stock_order" => Kept(ready'[i].event)
    BY <1>h, <2>1, <2>3
  <2>5. \A q \in Callers : \A f \in hand'[q] : f.kind = "stock_order" => Kept(f) \/ Kept(f)'
    BY <1>k, <2>2
  <2> QED BY <1>k, <1>s, <1>t, <2>2, <2>4, <2>5, StoreStays
<1>3. ASSUME NEW p \in Callers, PublishStatus(p) PROVE StoreInv'
  <2>0. made + 1 \in 1 .. MaxEvents
    BY <1>3, EventsAssumption DEF PublishStatus, TypeOK
  <2>1. PICK e \in Events : e = Event(made + 1, "qmt_status", p)
    BY <2>0, EventType DEF Kinds
  <2>2. PublishThreadsafe(e) /\ UNCHANGED <<hand, store, log>> /\ made' = made + 1 /\ e.kind # "stock_order"
    BY <1>3, <2>1 DEF PublishStatus, PublishThreadsafe, Event
  <2>3. \A i \in 1 .. Len(ready') : ready'[i].event.kind = "stock_order" => Kept(ready'[i].event)
    BY <1>h, <2>2
  <2> QED BY <1>k, <1>s, <1>t, <2>2, <2>3, StoreStays
<1>4. CASE RunCall
  <2>1. UNCHANGED <<store, made, hand, log>>
    BY <1>4 DEF RunCall
  <2>2. \A i \in 1 .. Len(ready') : \E j \in 1 .. Len(ready) : ready'[i].event = ready[j].event
    <3> SUFFICES ASSUME NEW i \in 1 .. Len(ready') PROVE \E j \in 1 .. Len(ready) : ready'[i].event = ready[j].event
      OBVIOUS
    <3>1. Len(ready) \in Nat \ {0} /\ i \in 1 .. Len(ready)
      BY <1>4, CallRun
    <3>2. CASE i = Len(ready)
      <4>1. 1 \in 1 .. Len(ready) /\ ready'[i].event = ready[1].event
        BY <1>4, <3>1, <3>2, CallRun
      <4> QED BY <4>1
    <3>3. CASE i # Len(ready)
      <4>1. i \in 1 .. Len(ready) - 1 /\ i + 1 \in 1 .. Len(ready)
        BY <3>1, <3>3
      <4>2. ready'[i] = ready[i + 1]
        BY <1>4, <4>1, CallRun
      <4> QED BY <4>1, <4>2
    <3> QED BY <3>2, <3>3
  <2> QED BY <1>k, <1>s, <1>t, <2>1, <2>2, StoreStays
<1>5. CASE RunTask
  <2>1. UNCHANGED <<store, made, hand>>
    BY <1>5 DEF RunTask
  <2>2. Len(ready) \in Nat \ {0} /\ Len(ready') = Len(ready) - 1 /\ Len(log) \in Nat /\ Len(log') = Len(log) + 1
    BY <1>5, TaskRun, SeqElements
  <2>3. \A i \in 1 .. Len(ready') : i + 1 \in 1 .. Len(ready) /\ ready'[i] = ready[i + 1]
    BY <1>5, <2>2, TaskRun
  <2>4. 1 \in 1 .. Len(ready) /\ \A i \in 1 .. Len(log') : \/ i \in 1 .. Len(log) /\ log'[i] = log[i]
                                                           \/ log'[i] = ready[1].event
    BY <1>5, <2>2, TaskRun
  <2>5. \A i \in 1 .. Len(log') : log'[i].kind = "stock_order" => Kept(log'[i])
    BY <1>k, <2>4
  <2>6. \A i \in 1 .. Len(ready') : ready'[i].event.kind = "stock_order" => Kept(ready'[i].event)
    BY <1>k, <2>3
  <2> QED BY <1>k, <1>s, <1>t, <2>1, <2>5, <2>6, StoreStays
<1>6. ASSUME UNCHANGED <<store, made, hand, ready, log>> PROVE StoreInv'
  BY <1>6, <1>k, <1>s, <1>t, StoreStays
<1>7. ASSUME NEW c \in Clients, Subscribe(c) \/ Leave(c) \/ Handle(c) PROVE StoreInv'
  BY <1>6, <1>7 DEF Subscribe, Leave, Handle, SendEvent, SkipEvent, SendHeartbeat
<1>8. CASE UNCHANGED vars
  BY <1>6, <1>8 DEF vars
<1> QED BY <1>1, <1>2, <1>3, <1>4, <1>5, <1>7, <1>8 DEF Next, RunReady

LEMMA LogInvHolds == Spec => []LogInv
<1>1. LogInv /\ [Next]_vars => LogInv'
  BY TypeStep, OrderStep, StoreStep DEF LogInv
<1> QED BY LogInit, <1>1, PTL DEF Spec

(***************************************************************************)
(* The events of one thread are published in the order in which they came  *)
(* to be, and none of them twice.                                          *)
(***************************************************************************)
THEOREM OrderKept == Spec => []ThreadsKeepTheirOrder
<1>1. LogInv => ThreadsKeepTheirOrder
  BY DEF LogInv, OrderInv
<1> QED BY <1>1, LogInvHolds, PTL

(***************************************************************************)
(* Who learns of an order from the stream finds it when it asks for the    *)
(* orders, unless newer orders have pushed it out.                         *)
(***************************************************************************)
THEOREM PublishedIsStored == Spec => []PublishedOrdersAreStored
<1>1. LogInv => PublishedOrdersAreStored
  BY DEF LogInv, StoreInv, Kept, PublishedOrdersAreStored
<1> QED BY <1>1, LogInvHolds, PTL
====
