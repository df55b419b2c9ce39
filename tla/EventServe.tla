----------------------------- MODULE EventServe -----------------------------
(***************************************************************************)
(* The live connections of an event listener: the read loop of             *)
(* eventSession.serve, the bounded dispatch channel and the dispatcher     *)
(* goroutine that hands events to their handlers (events_signalr.go).      *)
(*                                                                         *)
(* Module EventListener opens the connections and cancels their contexts.  *)
(* Events are numbered in the order they are read; the handlers of one     *)
(* event are one.                                                          *)
(***************************************************************************)
EXTENDS Naturals, Sequences

CONSTANTS
  Conns,      \* connections, numbered in the order they are opened
  Capacity,   \* eventDispatchBuffer
  MaxEvents   \* bound: events the appliance pushes in one behaviour

ASSUME ConnsAssumption == Conns \subseteq Nat \ {0}
ASSUME CapacityAssumption == Capacity \in Nat \ {0}
ASSUME MaxEventsAssumption == MaxEvents \in Nat

VARIABLES
  conn,      \* the state of each connection
  canceled,  \* connections whose context is done
  arrived    \* events read so far, on all connections

NoEvent == 0
Nil     == "nil"

(* serve: where the read loop is; batch and closing: what is left of the   *)
(* message it handles; res: the error serve will return; queue and open:   *)
(* the dispatch channel; disp and event: the dispatcher.                   *)
Unopened == [serve |-> "off", batch |-> <<>>, closing |-> FALSE, res |-> Nil,
             queue |-> <<>>, open |-> FALSE, disp |-> "off",
             event |-> NoEvent]

Opened == [Unopened EXCEPT !.serve = "read", !.open = TRUE, !.disp = "take"]

Running(k)  == conn[k].serve \in {"read", "hand", "defer", "decide", "drain"}
Handling(k) == conn[k].disp = "handle"

(***************************************************************************)
(* The read loop.  A message is a batch of events, up to two, and perhaps  *)
(* a close record; what follows the close record is dropped, and so are    *)
(* pings and malformed records.                                            *)
(***************************************************************************)
ReadMessage(k) ==
  /\ conn[k].serve = "read"
  /\ \E n \in 0..2, closing \in BOOLEAN :
       /\ n > 0 \/ closing
       /\ arrived + n <= MaxEvents
       /\ arrived' = arrived + n
       /\ conn' = [conn EXCEPT ![k].serve = "hand",
                               ![k].batch = [i \in 1..n |-> arrived + i],
                               ![k].closing = closing]
  /\ UNCHANGED canceled

(* The connection breaks or closes; under a done context the error counts  *)
(* as none.                                                                *)
ReadFails(k) ==
  /\ conn[k].serve = "read"
  /\ \E err \in {Nil, "event-read"} :
       conn' = [conn EXCEPT ![k].serve = "defer",
                            ![k].res = IF k \in canceled THEN Nil ELSE err]
  /\ UNCHANGED <<canceled, arrived>>

(* A send blocks while the channel is full; the select of handleMessage    *)
(* takes either way when both are ready.                                   *)
HandEvent(k) ==
  /\ conn[k].serve = "hand"
  /\ conn[k].batch # <<>>
  /\ Len(conn[k].queue) < Capacity
  /\ conn' = [conn EXCEPT ![k].queue = Append(@, Head(conn[k].batch)),
                          ![k].batch = Tail(@)]
  /\ UNCHANGED <<canceled, arrived>>

AbandonBatch(k) ==
  /\ conn[k].serve = "hand"
  /\ conn[k].batch # <<>>
  /\ k \in canceled
  /\ conn' = [conn EXCEPT ![k].serve = "defer"]
  /\ UNCHANGED <<canceled, arrived>>

EndMessage(k) ==
  /\ conn[k].serve = "hand"
  /\ conn[k].batch = <<>>
  /\ conn' = [conn EXCEPT ![k].serve = IF conn[k].closing THEN "defer"
                                                          ELSE "read"]
  /\ UNCHANGED <<canceled, arrived>>

(***************************************************************************)
(* The deferred end of serve: close the channel, then wait for the         *)
(* dispatcher to drain it unless the context is done.                      *)
(***************************************************************************)
\* Mutant: the channel is never closed.
LeaveOpen(k) ==
  /\ conn[k].serve = "defer"
  /\ conn' = [conn EXCEPT ![k].serve = "decide"]
  /\ UNCHANGED <<canceled, arrived>>

CloseDispatch(k) ==
  /\ conn[k].serve = "defer"
  /\ conn' = [conn EXCEPT ![k].serve = "decide", ![k].open = FALSE]
  /\ UNCHANGED <<canceled, arrived>>

\* Mutant: serve returns without waiting for the handlers.
DecideAtOnce(k) ==
  /\ conn[k].serve = "decide"
  /\ conn' = [conn EXCEPT ![k].serve = "returned"]
  /\ UNCHANGED <<canceled, arrived>>

DecideDrain(k) ==
  /\ conn[k].serve = "decide"
  /\ conn' = [conn EXCEPT ![k].serve = IF k \in canceled THEN "returned"
                                                         ELSE "drain"]
  /\ UNCHANGED <<canceled, arrived>>

Drained(k) ==
  /\ conn[k].serve = "drain"
  /\ conn[k].disp = "gone"
  /\ conn' = [conn EXCEPT ![k].serve = "returned"]
  /\ UNCHANGED <<canceled, arrived>>

(***************************************************************************)
(* The dispatcher: range over the channel until it is closed and empty.  A *)
(* handler that panics returns all the same.                               *)
(***************************************************************************)
TakeEvent(k) ==
  /\ conn[k].disp = "take"
  /\ conn[k].queue # <<>>
  /\ conn' = [conn EXCEPT ![k].disp = "handle",
                          ![k].event = Head(conn[k].queue),
                          ![k].queue = Tail(@)]
  /\ UNCHANGED <<canceled, arrived>>

HandlerReturns(k) ==
  /\ Handling(k)
  /\ conn' = [conn EXCEPT ![k].disp = "take", ![k].event = NoEvent]
  /\ UNCHANGED <<canceled, arrived>>

DispatcherExits(k) ==
  /\ conn[k].disp = "take"
  /\ conn[k].queue = <<>>
  /\ ~conn[k].open
  /\ conn' = [conn EXCEPT ![k].disp = "gone"]
  /\ UNCHANGED <<canceled, arrived>>

(***************************************************************************)
(* Types, and the shape of a connection.                                   *)
(***************************************************************************)
Events == 1..MaxEvents

ConnTypeOK ==
  /\ conn \in [Conns ->
       [serve : {"off", "read", "hand", "defer", "decide", "drain",
                 "returned"},
        batch : Seq(Events), closing : BOOLEAN, res : {Nil, "event-read"},
        queue : Seq(Events), open : BOOLEAN,
        disp : {"off", "take", "handle", "gone"},
        event : Events \cup {NoEvent}]]
  /\ \A k \in Conns : Len(conn[k].queue) <= Capacity
  /\ canceled \subseteq Conns
  /\ arrived \in 0..MaxEvents
=============================================================================
