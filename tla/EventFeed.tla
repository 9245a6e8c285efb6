---- MODULE EventFeed ----
(***************************************************************************)
(* What the event stream promises its clients: one log of events for all   *)
(* of them.  A client that connects follows the log from its end on, in    *)
(* order and without repetition, and is sent the events of the types it    *)
(* asked for.  A client that lags more than Lag events behind loses the    *)
(* oldest of those it has not been sent.                                   *)
(***************************************************************************)
EXTENDS Integers, Sequences

CONSTANTS Events,   \* what can be published
          Clients,
          Lag,      \* how far a client may lag behind without loss
          Wanted    \* Wanted[c]: the events of the types that c asked for

Off == -1

VARIABLES log,     \* the events published, in order
          cursor,  \* how much of the log a client has been sent or has lost, Off if not connected
          sent     \* the place in the log, and the event, that a client was sent last

vars == <<log, cursor, sent>>

Init ==
  /\ log = <<>>
  /\ cursor = [c \in Clients |-> Off]
  /\ sent = [c \in Clients |-> <<0, {}>>]

Publish(e) ==
  /\ log' = Append(log, e)
  /\ cursor' = [c \in Clients |->
       IF cursor[c] # Off /\ cursor[c] + Lag < Len(log') THEN cursor[c] + 1 ELSE cursor[c]]
  /\ UNCHANGED sent

Connect(c) ==
  /\ cursor[c] = Off
  /\ cursor' = [cursor EXCEPT ![c] = Len(log)]
  /\ UNCHANGED <<log, sent>>

Disconnect(c) ==
  /\ cursor[c] # Off
  /\ cursor' = [cursor EXCEPT ![c] = Off]
  /\ UNCHANGED <<log, sent>>

Advance(c) ==
  /\ cursor[c] # Off
  /\ cursor[c] < Len(log)
  /\ cursor' = [cursor EXCEPT ![c] = cursor[c] + 1]

Send(c) ==
  /\ Advance(c)
  /\ log[cursor[c] + 1] \in Wanted[c]
  /\ sent' = [sent EXCEPT ![c] = <<cursor[c] + 1, {log[cursor[c] + 1]}>>]
  /\ UNCHANGED log

Skip(c) ==
  /\ Advance(c)
  /\ log[cursor[c] + 1] \notin Wanted[c]
  /\ UNCHANGED <<log, sent>>

Next ==
  \/ \E e \in Events : Publish(e)
  \/ \E c \in Clients : Connect(c) \/ Disconnect(c) \/ Send(c) \/ Skip(c)

Spec == Init /\ [][Next]_vars
====
