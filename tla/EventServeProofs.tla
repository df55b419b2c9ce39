------------------------- MODULE EventServeProofs --------------------------
(***************************************************************************)
(* What a step of a connection (module EventServe) keeps, whichever        *)
(* listener owns it: its types, the other connections, and the way the     *)
(* read loop goes from reading to returned.                                *)
(***************************************************************************)
EXTENDS EventServe, SequenceTheorems, TLAPS

Record ==
  [serve : {"off", "read", "hand", "defer", "decide", "drain", "returned"},
   batch : Seq(Events), closing : BOOLEAN, res : {Nil, "event-read"},
   queue : Seq(Events), open : BOOLEAN,
   disp : {"off", "take", "handle", "gone"},
   event : Events \cup {NoEvent}]

ReadLoop(k) ==
  \/ ReadMessage(k) \/ ReadFails(k)
  \/ HandEvent(k) \/ AbandonBatch(k) \/ EndMessage(k)
  \/ CloseDispatch(k) \/ DecideDrain(k) \/ Drained(k)
Dispatcher(k) == TakeEvent(k) \/ HandlerReturns(k) \/ DispatcherExits(k)

(* A step of connection k replaces its record and no other. *)
Moves(k, r) ==
  /\ r \in Record /\ Len(r.queue) <= Capacity
  /\ conn' = [conn EXCEPT ![k] = r]
  /\ canceled' = canceled
  /\ arrived' \in 0 .. MaxEvents

(* An untouched or a returned read loop does not start again, and what it  *)
(* returned stays.                                                         *)
Onward(k, r) ==
  /\ conn[k].serve = "off" <=> r.serve = "off"
  /\ conn[k].serve = "returned" => r.serve = "returned" /\ r.res = conn[k].res

LEMMA UnopenedType ==
  /\ Unopened \in Record /\ Opened \in Record
  /\ Unopened.serve = "off" /\ Opened.serve = "read"
  /\ Len(Unopened.queue) <= Capacity /\ Len(Opened.queue) <= Capacity
<1>1. <<>> \in Seq(Events) /\ Len(<<>>) = 0
  BY EmptySeq
<1>2. Unopened \in Record
  BY <1>1 DEF Unopened, Record, Nil, NoEvent
<1>3. Opened \in Record /\ Unopened.queue = <<>> /\ Opened.queue = <<>>
      /\ Unopened.serve = "off" /\ Opened.serve = "read"
  BY <1>2 DEF Opened, Unopened, Record
<1>4. QED
  BY <1>1, <1>2, <1>3, CapacityAssumption

LEMMA ConnType ==
  ASSUME ConnTypeOK, NEW k \in Conns
  PROVE  conn[k] \in Record /\ Len(conn[k].queue) <= Capacity /\ arrived \in 0 .. MaxEvents
BY DEF ConnTypeOK, Record

(* The dispatch channel takes one event, or gives one away. *)
LEMMA QueueType ==
  ASSUME NEW q \in Seq(Events), NEW b \in Seq(Events)
  PROVE  /\ b # <<>> => /\ Head(b) \in Events /\ Tail(b) \in Seq(Events)
                        /\ Len(Tail(b)) = Len(b) - 1
                        /\ Append(q, Head(b)) \in Seq(Events)
                        /\ Len(Append(q, Head(b))) = Len(q) + 1
         /\ Len(q) \in Nat /\ Len(b) \in Nat
OBVIOUS

LEMMA ReadLoopStep ==
  ASSUME ConnTypeOK, NEW k \in Conns, ReadLoop(k)
  PROVE  \E r \in Record : Moves(k, r) /\ Onward(k, r)
<1>0. conn[k] \in Record /\ Len(conn[k].queue) <= Capacity /\ arrived \in 0 .. MaxEvents
  BY ConnType
<1>1. CASE ReadMessage(k)
  <2>1. PICK n \in 0 .. 2, closing \in BOOLEAN :
          /\ arrived + n <= MaxEvents
          /\ arrived' = arrived + n
          /\ conn' = [conn EXCEPT ![k].serve = "hand",
                                  ![k].batch = [i \in 1 .. n |-> arrived + i],
                                  ![k].closing = closing]
    BY <1>1 DEF ReadMessage
  <2>0. /\ arrived \in 0 .. MaxEvents /\ n \in Nat
        /\ arrived + n <= MaxEvents /\ arrived' = arrived + n
    <3>1. n \in Nat
      OBVIOUS
    <3>2. arrived + n <= MaxEvents /\ arrived' = arrived + n
      BY <2>1, Zenon
    <3>3. QED
      BY <1>0, <3>1, <3>2
  <2>2. [i \in 1 .. n |-> arrived + i] \in Seq(Events)
    <3>1. \A i \in 1 .. n : arrived + i \in Events
      BY <2>0, MaxEventsAssumption DEF Events
    <3>2. [i \in 1 .. n |-> arrived + i] \in [1 .. n -> Events]
      BY <3>1
    <3>3. QED
      BY <2>0, <3>2, SeqDef
  <2>3. arrived' \in 0 .. MaxEvents
    BY <2>0, MaxEventsAssumption
  <2> DEFINE r == [conn[k] EXCEPT !.serve = "hand", !.batch = [i \in 1 .. n |-> arrived + i],
                                  !.closing = closing]
  <2>4. r \in Record /\ Len(r.queue) <= Capacity
    BY <1>0, <2>2 DEF Record
  <2>5. conn' = [conn EXCEPT ![k] = r] /\ canceled' = canceled
    BY <1>1, <2>1 DEF ReadMessage
  <2>6. Onward(k, r)
    <3>1. conn[k].serve = "read" /\ r.serve = "hand"
      BY <1>0, <1>1 DEF ReadMessage, Record
    <3>2. QED
      BY <3>1 DEF Onward
  <2>7. QED
    BY <2>3, <2>4, <2>5, <2>6 DEF Moves
<1>2. CASE ReadFails(k)
  <2>1. PICK err \in {Nil, "event-read"} :
          conn' = [conn EXCEPT ![k].serve = "defer", ![k].res = IF k \in canceled THEN Nil ELSE err]
    BY <1>2 DEF ReadFails
  <2> DEFINE r == [conn[k] EXCEPT !.serve = "defer", !.res = IF k \in canceled THEN Nil ELSE err]
  <2>2. r \in Record /\ Len(r.queue) <= Capacity
    BY <1>0 DEF Record
  <2>3. conn' = [conn EXCEPT ![k] = r] /\ UNCHANGED <<canceled, arrived>>
    BY <1>2, <2>1 DEF ReadFails
  <2>4. conn[k].serve = "read" /\ r.serve = "defer"
    BY <1>0, <1>2 DEF ReadFails, Record
  <2>5. QED
    BY <1>0, <2>2, <2>3, <2>4 DEF Moves, Onward
<1>3. CASE HandEvent(k)
  <2> DEFINE r == [conn[k] EXCEPT !.queue = Append(@, Head(conn[k].batch)), !.batch = Tail(@)]
  <2>1. r \in Record /\ Len(r.queue) <= Capacity
    <3>1. conn[k].queue \in Seq(Events) /\ conn[k].batch \in Seq(Events) /\ conn[k].batch # <<>>
      BY <1>0, <1>3 DEF Record, HandEvent
    <3>2. Len(conn[k].queue) + 1 <= Capacity
      BY <1>3, <3>1, CapacityAssumption DEF HandEvent
    <3>3. Append(conn[k].queue, Head(conn[k].batch)) \in Seq(Events) /\ Tail(conn[k].batch) \in Seq(Events)
          /\ Len(Append(conn[k].queue, Head(conn[k].batch))) <= Capacity
      BY <3>1, <3>2, QueueType
    <3>4. QED
      BY <1>0, <3>3 DEF Record
  <2>2. conn' = [conn EXCEPT ![k] = r] /\ UNCHANGED <<canceled, arrived>>
    BY <1>3 DEF HandEvent
  <2>3. conn[k].serve = "hand" /\ r.serve = "hand"
    BY <1>0, <1>3 DEF HandEvent, Record
  <2>4. QED
    BY <1>0, <2>1, <2>2, <2>3 DEF Moves, Onward
<1>4. CASE AbandonBatch(k) \/ EndMessage(k) \/ CloseDispatch(k) \/ DecideDrain(k) \/ Drained(k)
  <2>1. PICK s \in {"read", "defer", "decide", "drain", "returned"}, o \in BOOLEAN :
          conn' = [conn EXCEPT ![k] = [@ EXCEPT !.serve = s, !.open = o]]
    <3>1. conn[k].open \in BOOLEAN /\ [conn[k] EXCEPT !.open = conn[k].open] = conn[k]
      BY <1>0 DEF Record
    <3>2. ASSUME NEW s \in {"read", "defer", "decide", "drain", "returned"},
                 conn' = [conn EXCEPT ![k].serve = s]
          PROVE  conn' = [conn EXCEPT ![k] = [@ EXCEPT !.serve = s, !.open = conn[k].open]]
      BY <1>0, <3>2 DEF Record
    <3>3. CASE AbandonBatch(k) \/ EndMessage(k)
      BY <3>1, <3>2, <3>3 DEF AbandonBatch, EndMessage
    <3>4. CASE CloseDispatch(k)
      BY <3>4 DEF CloseDispatch
    <3>5. CASE DecideDrain(k) \/ Drained(k)
      BY <3>1, <3>2, <3>5 DEF DecideDrain, Drained
    <3>6. QED
      BY <1>4, <3>3, <3>4, <3>5
  <2> DEFINE r == [conn[k] EXCEPT !.serve = s, !.open = o]
  <2>2. r \in Record /\ Len(r.queue) <= Capacity /\ conn' = [conn EXCEPT ![k] = r]
    BY <1>0, <2>1 DEF Record
  <2>3. conn[k].serve \notin {"off", "returned"} /\ UNCHANGED <<canceled, arrived>>
    BY <1>4 DEF AbandonBatch, EndMessage, CloseDispatch, DecideDrain, Drained
  <2>4. r.serve # "off"
    BY <1>0 DEF Record
  <2>5. QED
    BY <1>0, <2>2, <2>3, <2>4 DEF Moves, Onward
<1>5. QED
  BY <1>1, <1>2, <1>3, <1>4 DEF ReadLoop

LEMMA DispatcherStep ==
  ASSUME ConnTypeOK, NEW k \in Conns, Dispatcher(k)
  PROVE  \E r \in Record : /\ Moves(k, r)
                           /\ r.serve = conn[k].serve /\ r.res = conn[k].res
<1>0. conn[k] \in Record /\ Len(conn[k].queue) <= Capacity /\ arrived \in 0 .. MaxEvents
  BY ConnType
<1>1. CASE TakeEvent(k)
  <2> DEFINE r == [conn[k] EXCEPT !.disp = "handle", !.event = Head(conn[k].queue), !.queue = Tail(@)]
  <2>1. r \in Record /\ Len(r.queue) <= Capacity
    <3>1. conn[k].queue \in Seq(Events) /\ conn[k].queue # <<>>
      BY <1>0, <1>1 DEF Record, TakeEvent
    <3>2. Head(conn[k].queue) \in Events /\ Tail(conn[k].queue) \in Seq(Events)
          /\ Len(Tail(conn[k].queue)) <= Capacity
      BY <1>0, <3>1, QueueType, CapacityAssumption
    <3>3. QED
      BY <1>0, <3>2 DEF Record
  <2>2. conn' = [conn EXCEPT ![k] = r] /\ UNCHANGED <<canceled, arrived>>
    BY <1>1 DEF TakeEvent
  <2>3. QED
    BY <1>0, <2>1, <2>2 DEF Moves, Record
<1>2. CASE HandlerReturns(k)
  <2> DEFINE r == [conn[k] EXCEPT !.disp = "take", !.event = NoEvent]
  <2>1. r \in Record /\ Len(r.queue) <= Capacity
    BY <1>0 DEF Record
  <2>2. conn' = [conn EXCEPT ![k] = r] /\ UNCHANGED <<canceled, arrived>>
    BY <1>2 DEF HandlerReturns
  <2>3. QED
    BY <1>0, <2>1, <2>2 DEF Moves, Record
<1>3. CASE DispatcherExits(k)
  <2> DEFINE r == [conn[k] EXCEPT !.disp = "gone"]
  <2>1. r \in Record /\ Len(r.queue) <= Capacity
    BY <1>0 DEF Record
  <2>2. conn' = [conn EXCEPT ![k] = r] /\ UNCHANGED <<canceled, arrived>>
    BY <1>3 DEF DispatcherExits
  <2>3. QED
    BY <1>0, <2>1, <2>2 DEF Moves, Record
<1>4. QED
  BY <1>1, <1>2, <1>3 DEF Dispatcher

(* Either way the types stay. *)
LEMMA MovesType ==
  ASSUME ConnTypeOK, NEW k \in Conns, NEW r, Moves(k, r)
  PROVE  /\ ConnTypeOK'
         /\ conn'[k] = r /\ \A j \in Conns : j # k => conn'[j] = conn[j]
<1>1. conn' = [conn EXCEPT ![k] = r] /\ r \in Record /\ Len(r.queue) <= Capacity
      /\ canceled' = canceled /\ arrived' \in 0 .. MaxEvents
  BY DEF Moves
<1>2. conn \in [Conns -> Record] /\ canceled \subseteq Conns
      /\ \A j \in Conns : Len(conn[j].queue) <= Capacity
  BY DEF ConnTypeOK, Record
<1>3. conn' \in [Conns -> Record] /\ conn'[k] = r /\ \A j \in Conns : j # k => conn'[j] = conn[j]
  BY <1>1, <1>2
<1>4. \A j \in Conns : Len(conn'[j].queue) <= Capacity
  BY <1>1, <1>2, <1>3
<1>5. QED
  BY <1>1, <1>2, <1>3, <1>4 DEF ConnTypeOK, Record

-----------------------------------------------------------------------------
(***************************************************************************)
(* What a connection shows of itself to its handlers: the queue, the event *)
(* in its handler, and the number of the last event queued.                *)
(***************************************************************************)
InHandler(k)  == IF Handling(k) THEN {conn[k].event} ELSE {}
LastQueued(k) == arrived - Len(conn[k].batch)

(* The events of a batch are the last that arrived; the channel is open    *)
(* until serve ends, and its dispatcher leaves it closed and empty.        *)
ShapeInv(k) ==
  /\ conn[k].serve = "off" => conn[k] = Unopened
  /\ conn[k].serve = "read" => conn[k].batch = <<>>
  /\ conn[k].serve = "hand" =>
       /\ Len(conn[k].batch) <= arrived
       /\ \A i \in 1 .. Len(conn[k].batch) : conn[k].batch[i] = arrived - Len(conn[k].batch) + i
  /\ conn[k].open <=> conn[k].serve \in {"read", "hand", "defer"}
  /\ conn[k].disp = "gone" => conn[k].queue = <<>> /\ ~conn[k].open

(* Only a cancellation leaves events of a batch or a handler behind.       *)
DrainInv(k) ==
  /\ conn[k].serve \in {"defer", "decide", "drain", "returned"} /\ k \notin canceled =>
       conn[k].batch = <<>>
  /\ conn[k].serve = "returned" /\ k \notin canceled => conn[k].disp = "gone"

(* What a step of a connection is to its handlers.                         *)
Shows(k, running) ==
  /\ Running(k)' = running
  /\ UNCHANGED <<conn[k].queue, InHandler(k), LastQueued(k)>>

Arrives(k) ==
  /\ Running(k) /\ Running(k)'
  /\ LastQueued(k)' > LastQueued(k)
  /\ conn'[k].queue = Append(conn[k].queue, LastQueued(k)')
  /\ InHandler(k)' = InHandler(k)

Begins(k) ==
  /\ conn[k].queue # <<>> /\ InHandler(k) = {}
  /\ InHandler(k)' = {Head(conn[k].queue)}
  /\ conn'[k].queue = Tail(conn[k].queue)
  /\ Running(k)' = Running(k) /\ LastQueued(k)' = LastQueued(k)

Finishes(k) ==
  /\ InHandler(k) # {} /\ InHandler(k)' = {}
  /\ Running(k)' = Running(k)
  /\ UNCHANGED <<conn[k].queue, LastQueued(k)>>

Returns(k) ==
  /\ Running(k) /\ Shows(k, FALSE)
  /\ conn'[k].serve = "returned"
  /\ k \notin canceled => conn[k].queue = <<>> /\ InHandler(k) = {}

Appears(k) ==
  Shows(k, Running(k)) \/ Arrives(k) \/ Begins(k) \/ Finishes(k) \/ Returns(k)

LEMMA IntervalLength == \A m, n \in Nat : 1 .. m = 1 .. n => m = n
<1> SUFFICES ASSUME NEW m \in Nat, NEW n \in Nat, 1 .. m = 1 .. n, m < n
             PROVE  FALSE
  OBVIOUS
<1>1. n \in 1 .. n /\ n \notin 1 .. m
  OBVIOUS
<1> QED BY <1>1

(* An unopened connection has nothing to show, and a new one starts empty. *)
LEMMA UnopenedShape ==
  /\ Unopened.queue = <<>> /\ Unopened.batch = <<>> /\ Unopened.disp = "off"
  /\ Unopened.open = FALSE /\ Unopened.serve = "off"
  /\ Opened.queue = <<>> /\ Opened.batch = <<>> /\ Opened.disp = "take"
  /\ Opened.open = TRUE /\ Opened.serve = "read"
  /\ Len(<<>>) = 0
BY DEF Unopened, Opened

(* The step of connection k, field by field.                               *)
Becomes(k, s, b, q, o, d, e) ==
  /\ conn'[k].serve = s /\ conn'[k].batch = b /\ conn'[k].queue = q
  /\ conn'[k].open = o /\ conn'[k].disp = d /\ conn'[k].event = e

LEMMA ReadShape ==
  ASSUME ConnTypeOK, NEW k \in Conns, ShapeInv(k), DrainInv(k), ReadMessage(k)
  PROVE  ShapeInv(k)' /\ DrainInv(k)' /\ Shows(k, Running(k))
<1>0. conn \in [Conns -> Record] /\ conn[k] \in Record /\ arrived \in Nat
  BY MaxEventsAssumption DEF ConnTypeOK, Record
<1>1. PICK n \in 0 .. 2, closing \in BOOLEAN :
        /\ arrived + n <= MaxEvents
        /\ arrived' = arrived + n
        /\ conn' = [conn EXCEPT ![k].serve = "hand",
                                ![k].batch = [i \in 1 .. n |-> arrived + i],
                                ![k].closing = closing]
  BY DEF ReadMessage
<1> DEFINE b == [i \in 1 .. n |-> arrived + i]
<1>2. conn[k].serve = "read" /\ canceled' = canceled
  BY DEF ReadMessage
<1>3. Becomes(k, "hand", b, conn[k].queue, conn[k].open, conn[k].disp, conn[k].event)
  BY <1>0, <1>1 DEF Becomes, Record
<1>4. n \in Nat /\ arrived' = arrived + n
  <2>1. n \in Nat
    OBVIOUS
  <2>2. arrived' = arrived + n
    BY <1>1, Zenon
  <2> QED BY <2>1, <2>2
<1>5. b \in Seq(Nat) /\ Len(b) = n
  <2>1. \A i \in 1 .. n : arrived + i \in Nat
    BY <1>0, <1>4
  <2>2. b \in [1 .. n -> Nat]
    BY <2>1
  <2>3. b \in Seq(Nat)
    BY <1>4, <2>2, SeqDef
  <2>4. DOMAIN b = 1 .. Len(b) /\ Len(b) \in Nat /\ DOMAIN b = 1 .. n
    BY <2>3, LenProperties
  <2> QED BY <1>4, <2>3, <2>4, IntervalLength
<1>6. \A i \in 1 .. n : b[i] = arrived + i
  OBVIOUS
<1> HIDE DEF b
<1>7. conn[k].batch = <<>> /\ Len(conn[k].batch) = 0 /\ conn[k].open /\ conn[k].disp # "gone"
  BY <1>2, UnopenedShape DEF ShapeInv
<1>8. ShapeInv(k)'
  <2>1. \A i \in 1 .. n : b[i] = arrived' - n + i
    BY <1>0, <1>4, <1>6
  <2>2. n <= arrived'
    BY <1>0, <1>4
  <2> QED BY <1>3, <1>5, <1>7, <2>1, <2>2 DEF ShapeInv, Becomes
<1>9. DrainInv(k)'
  BY <1>3 DEF DrainInv, Becomes
<1>10. Shows(k, Running(k))
  <2>1. LastQueued(k)' = LastQueued(k)
    BY <1>0, <1>3, <1>4, <1>5, <1>7 DEF LastQueued, Becomes
  <2> QED BY <1>2, <1>3, <2>1 DEF Shows, Running, InHandler, Handling, Becomes
<1> QED BY <1>8, <1>9, <1>10

LEMMA HandShape ==
  ASSUME ConnTypeOK, NEW k \in Conns, ShapeInv(k), DrainInv(k), HandEvent(k)
  PROVE  ShapeInv(k)' /\ DrainInv(k)' /\ Arrives(k)
<1>0. conn \in [Conns -> Record] /\ conn[k] \in Record /\ arrived \in Nat
  BY MaxEventsAssumption DEF ConnTypeOK, Record
<1> DEFINE b == conn[k].batch
           q == conn[k].queue
<1>1. conn[k].serve = "hand" /\ b # <<>> /\ UNCHANGED <<canceled, arrived>>
  BY DEF HandEvent
<1>2. Becomes(k, "hand", Tail(b), Append(q, Head(b)), conn[k].open, conn[k].disp, conn[k].event)
  BY <1>0, <1>1 DEF HandEvent, Becomes, Record
<1>3. b \in Seq(Events)
  BY <1>0 DEF Record
<1>4. Len(b) <= arrived /\ \A i \in 1 .. Len(b) : b[i] = arrived - Len(b) + i
  BY <1>1 DEF ShapeInv
<1>5. conn[k].open /\ conn[k].disp # "gone"
  BY <1>1 DEF ShapeInv
<1>6. UNCHANGED InHandler(k) /\ Running(k) /\ Running(k)'
  BY <1>1, <1>2 DEF InHandler, Handling, Running, Becomes
<1>7. conn'[k].serve = "hand" /\ conn'[k].batch = Tail(b) /\ conn'[k].queue = Append(q, Head(b))
      /\ conn'[k].open /\ conn'[k].disp # "gone" /\ arrived' = arrived
  BY <1>1, <1>2, <1>5 DEF Becomes
<1>8. LastQueued(k) = arrived - Len(b) /\ LastQueued(k)' = arrived - Len(Tail(b))
  BY <1>7 DEF LastQueued
<1> HIDE DEF b, q
<1>9. Len(b) \in Nat \ {0} /\ Len(Tail(b)) = Len(b) - 1 /\ Head(b) = b[1]
      /\ \A i \in 1 .. Len(b) - 1 : Tail(b)[i] = b[i + 1]
  BY <1>1, <1>3
<1>10. Head(b) = arrived - Len(b) + 1
  BY <1>4, <1>9
<1>11. LastQueued(k)' = Head(b) /\ LastQueued(k)' > LastQueued(k)
  BY <1>0, <1>8, <1>9, <1>10
<1>12. Len(Tail(b)) <= arrived
  BY <1>0, <1>4, <1>9
<1>13. \A i \in 1 .. Len(Tail(b)) : Tail(b)[i] = arrived - Len(Tail(b)) + i
  BY <1>0, <1>4, <1>9
<1>14. ShapeInv(k)'
  BY <1>7, <1>12, <1>13 DEF ShapeInv
<1>15. DrainInv(k)'
  BY <1>7 DEF DrainInv
<1>16. Arrives(k)
  BY <1>6, <1>7, <1>11 DEF Arrives, q
<1> QED BY <1>14, <1>15, <1>16

(* The rest of the read loop.                                              *)
LEMMA EndShape ==
  ASSUME ConnTypeOK, NEW k \in Conns, ShapeInv(k), DrainInv(k),
         ReadFails(k) \/ AbandonBatch(k) \/ EndMessage(k) \/ CloseDispatch(k)
  PROVE  ShapeInv(k)' /\ DrainInv(k)' /\ Shows(k, Running(k))
<1>0. conn \in [Conns -> Record] /\ conn[k] \in Record /\ arrived \in Nat
  BY MaxEventsAssumption DEF ConnTypeOK, Record
<1>1. UNCHANGED <<canceled, arrived>>
  BY DEF ReadFails, AbandonBatch, EndMessage, CloseDispatch
<1>2. PICK s \in {"read", "defer", "decide"}, o \in BOOLEAN :
        Becomes(k, s, conn[k].batch, conn[k].queue, o, conn[k].disp, conn[k].event)
        /\ (s \in {"read", "defer"} <=> o)
        /\ conn[k].serve \in {"read", "hand", "defer"}
        /\ (s = "read" \/ (k \notin canceled /\ conn[k].serve # "defer") => conn[k].batch = <<>>)
        /\ (s = "decide" => conn[k].serve = "defer")
  <2>1. CASE ReadFails(k)
    <3>1. conn[k].serve = "read" /\ conn[k].open = TRUE /\ conn[k].batch = <<>>
      BY <1>0, <2>1 DEF ReadFails, ShapeInv, Record
    <3>2. Becomes(k, "defer", conn[k].batch, conn[k].queue, TRUE, conn[k].disp, conn[k].event)
      BY <1>0, <2>1, <3>1 DEF ReadFails, Becomes, Record
    <3> QED BY <3>1, <3>2
  <2>2. CASE AbandonBatch(k)
    <3>1. conn[k].serve = "hand" /\ conn[k].open = TRUE /\ k \in canceled
      BY <1>0, <2>2 DEF AbandonBatch, ShapeInv, Record
    <3>2. Becomes(k, "defer", conn[k].batch, conn[k].queue, TRUE, conn[k].disp, conn[k].event)
      BY <1>0, <2>2, <3>1 DEF AbandonBatch, Becomes, Record
    <3> QED BY <3>1, <3>2
  <2>3. CASE EndMessage(k)
    <3>1. conn[k].serve = "hand" /\ conn[k].open = TRUE /\ conn[k].batch = <<>>
      BY <1>0, <2>3 DEF EndMessage, ShapeInv, Record
    <3>2. PICK s \in {"read", "defer"} :
            Becomes(k, s, conn[k].batch, conn[k].queue, TRUE, conn[k].disp, conn[k].event)
      BY <1>0, <2>3, <3>1 DEF EndMessage, Becomes, Record
    <3> QED BY <3>1, <3>2
  <2>4. CASE CloseDispatch(k)
    <3>1. conn[k].serve = "defer"
      BY <2>4 DEF CloseDispatch
    <3>2. Becomes(k, "decide", conn[k].batch, conn[k].queue, FALSE, conn[k].disp, conn[k].event)
      BY <1>0, <2>4 DEF CloseDispatch, Becomes, Record
    <3> QED BY <3>1, <3>2
  <2> QED BY <2>1, <2>2, <2>3, <2>4
<1>3. ShapeInv(k)'
  BY <1>1, <1>2 DEF ShapeInv, Becomes
<1>4. DrainInv(k)'
  BY <1>1, <1>2 DEF DrainInv, Becomes
<1>5. Shows(k, Running(k))
  BY <1>1, <1>2 DEF Shows, Running, InHandler, Handling, LastQueued, Becomes
<1> QED BY <1>3, <1>4, <1>5

LEMMA ReturnShape ==
  ASSUME ConnTypeOK, NEW k \in Conns, ShapeInv(k), DrainInv(k),
         DecideDrain(k) \/ Drained(k)
  PROVE  /\ ShapeInv(k)' /\ DrainInv(k)'
         /\ Shows(k, Running(k)) \/ Returns(k)
<1>0. conn \in [Conns -> Record] /\ conn[k] \in Record /\ arrived \in Nat
  BY MaxEventsAssumption DEF ConnTypeOK, Record
<1>1. UNCHANGED <<canceled, arrived>>
  BY DEF DecideDrain, Drained
<1>2. PICK s \in {"drain", "returned"} :
        Becomes(k, s, conn[k].batch, conn[k].queue, conn[k].open, conn[k].disp, conn[k].event)
        /\ conn[k].serve \in {"decide", "drain"}
        /\ (s = "returned" /\ k \notin canceled => conn[k].disp = "gone")
  <2>1. CASE DecideDrain(k)
    BY <1>0, <2>1 DEF DecideDrain, Becomes, Record
  <2>2. CASE Drained(k)
    BY <1>0, <2>2 DEF Drained, Becomes, Record
  <2> QED BY <2>1, <2>2
<1>3. ShapeInv(k)'
  BY <1>1, <1>2 DEF ShapeInv, Becomes
<1>4. DrainInv(k)'
  BY <1>1, <1>2 DEF DrainInv, Becomes
<1>5. UNCHANGED <<conn[k].queue, InHandler(k), LastQueued(k)>> /\ Running(k)
  BY <1>1, <1>2 DEF Running, InHandler, Handling, LastQueued, Becomes
<1>6. CASE s = "drain"
  BY <1>2, <1>5, <1>6, <1>3, <1>4 DEF Shows, Running, Becomes
<1>7. CASE s = "returned"
  <2>1. k \notin canceled => conn[k].queue = <<>> /\ InHandler(k) = {}
    BY <1>2, <1>7 DEF ShapeInv, InHandler, Handling
  <2>2. Returns(k)
    BY <1>2, <1>5, <1>7, <2>1 DEF Returns, Shows, Running, Becomes
  <2> QED BY <1>3, <1>4, <2>2
<1> QED BY <1>6, <1>7

LEMMA DispatchShape ==
  ASSUME ConnTypeOK, NEW k \in Conns, ShapeInv(k), DrainInv(k), Dispatcher(k)
  PROVE  /\ ShapeInv(k)' /\ DrainInv(k)'
         /\ Shows(k, Running(k)) \/ Begins(k) \/ Finishes(k)
<1>0. conn \in [Conns -> Record] /\ conn[k] \in Record /\ arrived \in Nat
  BY MaxEventsAssumption DEF ConnTypeOK, Record
<1>1. UNCHANGED <<canceled, arrived>>
  BY DEF Dispatcher, TakeEvent, HandlerReturns, DispatcherExits
<1>2. PICK q, d, e :
        /\ Becomes(k, conn[k].serve, conn[k].batch, q, conn[k].open, d, e)
        /\ conn[k].disp \in {"take", "handle"}
        /\ \/ /\ conn[k].disp = "take" /\ conn[k].queue # <<>>
              /\ d = "handle" /\ e = Head(conn[k].queue) /\ q = Tail(conn[k].queue)
           \/ conn[k].disp = "handle" /\ d = "take" /\ q = conn[k].queue
           \/ /\ conn[k].disp = "take" /\ d = "gone" /\ q = conn[k].queue
              /\ q = <<>> /\ ~conn[k].open
  <2>1. CASE TakeEvent(k)
    <3>1. Becomes(k, conn[k].serve, conn[k].batch, Tail(conn[k].queue), conn[k].open,
                  "handle", Head(conn[k].queue))
      BY <1>0, <2>1 DEF TakeEvent, Becomes, Record
    <3> QED BY <2>1, <3>1 DEF TakeEvent
  <2>2. CASE HandlerReturns(k)
    <3>1. Becomes(k, conn[k].serve, conn[k].batch, conn[k].queue, conn[k].open, "take", NoEvent)
      BY <1>0, <2>2 DEF HandlerReturns, Becomes, Record
    <3> QED BY <2>2, <3>1 DEF HandlerReturns, Handling
  <2>3. CASE DispatcherExits(k)
    <3>1. Becomes(k, conn[k].serve, conn[k].batch, conn[k].queue, conn[k].open, "gone",
                  conn[k].event)
      BY <1>0, <2>3 DEF DispatcherExits, Becomes, Record
    <3> QED BY <2>3, <3>1 DEF DispatcherExits
  <2> QED BY <2>1, <2>2, <2>3 DEF Dispatcher
<1>3. conn[k].serve # "off"
  BY <1>2, UnopenedShape DEF ShapeInv
<1>4. ShapeInv(k)'
  BY <1>1, <1>2, <1>3 DEF ShapeInv, Becomes
<1>5. DrainInv(k)'
  BY <1>1, <1>2 DEF DrainInv, Becomes
<1>6. Running(k)' = Running(k) /\ LastQueued(k)' = LastQueued(k)
  BY <1>1, <1>2 DEF Running, LastQueued, Becomes
<1>7. Shows(k, Running(k)) \/ Begins(k) \/ Finishes(k)
  <2>1. CASE d = "handle" /\ conn[k].disp = "take" /\ conn[k].queue # <<>>
             /\ e = Head(conn[k].queue) /\ q = Tail(conn[k].queue)
    BY <1>2, <1>6, <2>1 DEF Begins, InHandler, Handling, Becomes
  <2>2. CASE conn[k].disp = "handle" /\ d = "take" /\ q = conn[k].queue
    BY <1>2, <1>6, <2>2 DEF Finishes, InHandler, Handling, Becomes
  <2>3. CASE conn[k].disp = "take" /\ d = "gone" /\ q = conn[k].queue
    BY <1>2, <1>6, <2>3 DEF Shows, InHandler, Handling, Becomes
  <2> QED BY <1>2, <2>1, <2>2, <2>3
<1> QED BY <1>4, <1>5, <1>7

(* A step of a connection shows its handlers one of five things.           *)
LEMMA ConnAppears ==
  ASSUME ConnTypeOK, NEW k \in Conns, ShapeInv(k), DrainInv(k), ReadLoop(k) \/ Dispatcher(k)
  PROVE  ShapeInv(k)' /\ DrainInv(k)' /\ Appears(k)
BY ReadShape, HandShape, EndShape, ReturnShape, DispatchShape DEF ReadLoop, Appears

(* A connection whose read loop has nothing in hand is not disturbed by    *)
(* the steps of the others, nor by a cancellation.                         *)
LEMMA ShapeStays ==
  ASSUME NEW k \in Conns, ShapeInv(k), DrainInv(k), conn'[k] = conn[k],
         canceled \subseteq canceled',
         arrived' = arrived \/ conn[k].serve # "hand"
  PROVE  ShapeInv(k)' /\ DrainInv(k)'
BY DEF ShapeInv, DrainInv

LEMMA NewShape ==
  ASSUME NEW k \in Conns, conn'[k] = Opened \/ conn'[k] = Unopened
  PROVE  ShapeInv(k)' /\ DrainInv(k)'
BY UnopenedShape DEF ShapeInv, DrainInv
=============================================================================
