-------------------------- MODULE PersistentProofs --------------------------
(***************************************************************************)
(* The safety theorems of module PersistentListener, for every number of   *)
(* connections, events, callers and backoff levels.                        *)
(***************************************************************************)
EXTENDS PersistentListener, EventServeProofs

(* The only connection that runs is the last one, while the loop serves. *)
RunInv == \A k \in Conns : Running(k) => loop = "serve" /\ k = opens

(* An error is terminal, and the loop has no other reason to end but a     *)
(* cancellation.                                                           *)
EndInv ==
  /\ err # Nil => loop \in {"exit", "gone"} /\ session # "live"
  /\ loop \in {"exit", "gone"} /\ err = Nil => Stopping

(* A session that is gone never authorizes a dial again. *)
LateInv == late = 0 \/ (late = 1 /\ session # "live" /\ loop # "dial")

IInv == TypeOK /\ RunInv /\ EndInv /\ LateInv

USE DEF connVars, loopVars, pace, LoopRuns

(* The delays of reconnectBackoff: each is the one that follows the other. *)
LEMMA BackoffTable ==
  \A n \in Nat :
    /\ reconnectBackoff(n) \in 1 .. 60
    /\ reconnectBackoff(0) = 1
    /\ n > 0 => reconnectBackoff(n) = Longer(reconnectBackoff(n - 1))
    /\ n >= 6 => reconnectBackoff(n) = 60
<1> SUFFICES ASSUME NEW n \in Nat
             PROVE  /\ reconnectBackoff(n) \in 1 .. 60
                    /\ reconnectBackoff(0) = 1
                    /\ n > 0 => reconnectBackoff(n) = Longer(reconnectBackoff(n - 1))
                    /\ n >= 6 => reconnectBackoff(n) = 60
  OBVIOUS
<1>1. /\ reconnectBackoff(0) = 1 /\ reconnectBackoff(1) = 2 /\ reconnectBackoff(2) = 4
      /\ reconnectBackoff(3) = 8 /\ reconnectBackoff(4) = 16 /\ reconnectBackoff(5) = 32
  BY DEF reconnectBackoff
<1>2. \A m \in Nat : m >= 6 => reconnectBackoff(m) = 60
  BY DEF reconnectBackoff
<1>3. CASE n \in 0 .. 5
  <2>1. n = 0 \/ n = 1 \/ n = 2 \/ n = 3 \/ n = 4 \/ n = 5
    BY <1>3
  <2> QED BY <1>1, <2>1 DEF Longer
<1>4. CASE n = 6
  BY <1>1, <1>2, <1>4 DEF Longer
<1>5. CASE n > 6
  <2>1. n - 1 \in Nat /\ n - 1 >= 6
    BY <1>5
  <2>2. reconnectBackoff(n) = 60 /\ reconnectBackoff(n - 1) = 60
    BY <1>2, <1>5, <2>1
  <2> QED BY <1>1, <1>5, <2>2 DEF Longer
<1> QED BY <1>3, <1>4, <1>5

LEMMA InitIInv == Init => IInv
<1> SUFFICES ASSUME Init PROVE IInv
  OBVIOUS
<1> USE DEF Init, Owner!Init
<1>1. ConnTypeOK
  <2>1. conn \in [Conns -> Record] /\ \A k \in Conns : Len(conn[k].queue) <= Capacity
    BY UnopenedType
  <2>2. QED
    BY <2>1, MaxEventsAssumption DEF ConnTypeOK, Record
<1>2. TypeOK
  <2>1. attempt \in 0 .. MaxLevel /\ late \in 0 .. opens /\ opens \in Conns \cup {0}
    BY MaxLevelAssumption
  <2>2. done \in BOOLEAN /\ pc \in [Actors -> {"idle", "await", "stopped"}]
    OBVIOUS
  <2>3. rested \in BOOLEAN
    BY Zenon
  <2>4. last \in 0 .. 60
    OBVIOUS
  <2>5. QED
    BY <1>1, <2>1, <2>2, <2>3, <2>4 DEF TypeOK
<1>3. RunInv
  BY UnopenedType DEF RunInv, Running
<1>4. EndInv /\ LateInv
  BY DEF EndInv, LateInv
<1>5. QED
  BY <1>2, <1>3, <1>4 DEF IInv

(* A step of a connection starts no read loop. *)
LEMMA ConnStepIInv == ASSUME IInv, NEW k \in Conns, ConnStep(k) PROVE IInv'
<1> USE DEF IInv, TypeOK
<1>1. UNCHANGED <<session, loopVars, pc>>
  BY DEF ConnStep, Elsewhere
<1>2. ReadLoop(k) \/ Dispatcher(k)
  BY DEF ConnStep, ServeStep, DispatchStep, FinishHandler, ReadLoop, Dispatcher
<1>3. PICK r \in Record : Moves(k, r) /\ (conn[k].serve \in {"off", "returned"} => r.serve = conn[k].serve)
  <2>1. CASE ReadLoop(k)
    BY <2>1, ReadLoopStep DEF Onward
  <2>2. CASE Dispatcher(k)
    BY <2>2, DispatcherStep
  <2>3. QED
    BY <1>2, <2>1, <2>2
<1>4. /\ ConnTypeOK' /\ canceled' = canceled
      /\ conn'[k] = r /\ \A j \in Conns : j # k => conn'[j] = conn[j]
  BY <1>3, MovesType DEF Moves
<1>5. RunInv'
  <2> SUFFICES ASSUME NEW j \in Conns, Running(j)' PROVE Running(j)
    BY <1>1 DEF RunInv
  <2>1. CASE j # k
    BY <1>4, <2>1 DEF Running
  <2>2. CASE j = k
    <3>1. conn[k].serve \notin {"off", "returned"}
      BY <1>3, <1>4, <2>2 DEF Running
    <3>2. conn[k] \in Record
      BY ConnType
    <3>3. QED
      BY <2>2, <3>1, <3>2 DEF Running, Record
  <2>3. QED
    BY <2>1, <2>2
<1>6. EndInv' /\ LateInv'
  BY <1>1, <1>4 DEF EndInv, LateInv, Stopping
<1>7. QED
  BY <1>1, <1>4, <1>5, <1>6

(* The steps of the loop that open no connection leave those there are.    *)
LEMMA LoopStepIInv == IInv /\ (LoopStep \/ \E c \in Callers : Start(c)) => IInv'
<1> SUFFICES ASSUME IInv, LoopStep \/ \E c \in Callers : Start(c) PROVE IInv'
  OBVIOUS
<1> USE DEF IInv, TypeOK, Go
<1>1. UNCHANGED <<connVars, canceled, session, opens, late, pc>>
  BY DEF LoopStep, CheckContext, Authorize, DialFails, DialClosed, ServeReturns, Wake, CloseDone, Start
<1>2. ConnTypeOK'
  BY <1>1 DEF ConnTypeOK
<1>3. loop' \in {"check", "auth", "dial", "sleep", "exit", "gone"}
  BY DEF LoopStep, CheckContext, Authorize, DialFails, DialClosed, ServeReturns, Wake, CloseDone, Start
<1>4. /\ attempt' \in 0 .. MaxLevel /\ err' \in {Nil, "not-authenticated", "closed"}
      /\ done' \in BOOLEAN /\ rested' \in BOOLEAN /\ last' \in 0 .. 60
  <2>1. attempt' = attempt \/ (attempt < MaxLevel /\ attempt' = attempt + 1)
    BY DEF LoopStep, CheckContext, Authorize, DialFails, DialClosed, ServeReturns, Wake, CloseDone,
           Start
  <2>2. err' = err \/ err' = "closed" \/ err' = Terminal[session]
    BY DEF LoopStep, CheckContext, Authorize, DialFails, DialClosed, ServeReturns, Wake, CloseDone,
           Start
  <2>3. done' = done \/ done' = TRUE
    BY DEF LoopStep, CheckContext, Authorize, DialFails, DialClosed, ServeReturns, Wake, CloseDone,
           Start
  <2>4. Terminal[session] \in {Nil, "not-authenticated", "closed"}
    BY DEF Terminal
  <2>5. attempt' \in 0 .. MaxLevel
    BY <2>1, MaxLevelAssumption
  <2>6. rested' = rested \/ rested' = FALSE \/ rested' \in BOOLEAN
    BY DEF LoopStep, CheckContext, Authorize, DialFails, DialClosed, ServeReturns, Wake, CloseDone,
           Start
  <2>7. rested' \in BOOLEAN
    BY <2>6, Zenon
  <2>8. last' = last \/ last' = reconnectBackoff(attempt)
    BY DEF LoopStep, CheckContext, Authorize, DialFails, DialClosed, ServeReturns, Wake, CloseDone,
           Start
  <2>9. last' \in 0 .. 60
    BY <2>8, BackoffTable, MaxLevelAssumption
  <2>10. QED
    BY <2>2, <2>3, <2>4, <2>5, <2>7, <2>9
<1>5. RunInv'
  <2>1. ASSUME NEW k \in Conns, Running(k) PROVE FALSE
    <3>1. loop = "serve" /\ k = opens
      BY <2>1 DEF RunInv
    <3>2. conn[opens].serve = "returned"
      BY <3>1 DEF LoopStep, CheckContext, Authorize, DialFails, DialClosed, ServeReturns, Wake,
                  CloseDone, Start
    <3>3. QED
      BY <2>1, <3>1, <3>2 DEF Running
  <2>2. QED
    BY <1>1, <2>1 DEF RunInv, Running
<1>6. EndInv'
  BY <1>1 DEF EndInv, Stopping, Terminal, Nil, LoopStep, CheckContext, Authorize, DialFails,
              DialClosed, ServeReturns, Wake, CloseDone, Start
<1>7. LateInv'
  BY <1>1 DEF LateInv, LoopStep, CheckContext, Authorize, DialFails,
              DialClosed, ServeReturns, Wake, CloseDone, Start
<1>8. QED
  BY <1>1, <1>2, <1>3, <1>4, <1>5, <1>6, <1>7

LEMMA DialIInv == IInv /\ DialSucceeds => IInv'
<1> SUFFICES ASSUME IInv, DialSucceeds PROVE IInv'
  OBVIOUS
<1> USE DEF IInv, TypeOK
<1>1. /\ loop = "dial" /\ loop' = "serve" /\ opens + 1 \in Conns /\ opens' = opens + 1
      /\ conn' = [conn EXCEPT ![opens + 1] = Opened]
      /\ attempt' = 0 /\ rested' = FALSE /\ last' = 0
      /\ late' = IF session = "live" THEN late ELSE late + 1
      /\ UNCHANGED <<canceled, arrived, session, err, done, pc>>
  BY DEF DialSucceeds
<1>2. ConnTypeOK' /\ \A j \in Conns : j # opens' => conn'[j] = conn[j]
  <2>1. Moves(opens + 1, Opened)
    BY <1>1, UnopenedType, MaxEventsAssumption DEF Moves, ConnTypeOK
  <2>2. QED
    BY <1>1, <2>1, MovesType
<1>3. RunInv'
  <2>1. \A j \in Conns : ~Running(j)
    BY <1>1 DEF RunInv
  <2>2. QED
    BY <1>1, <1>2, <2>1 DEF RunInv, Running
<1>4. LateInv' /\ late' \in 0 .. opens'
  BY <1>1, ConnsAssumption DEF LateInv
<1>5. EndInv'
  BY <1>1 DEF EndInv
<1>6. TypeOK'
  <2>1. rested' \in BOOLEAN
    BY <1>1, Zenon
  <2>2. attempt' \in 0 .. MaxLevel /\ last' \in 0 .. 60 /\ opens' \in Conns \cup {0}
    BY <1>1, MaxLevelAssumption
  <2>3. QED
    BY <1>1, <1>2, <1>4, <2>1, <2>2
<1>7. QED
  BY <1>3, <1>4, <1>5, <1>6

(* Stop, and the owner's context, only ever cancel. *)
LEMMA CancelIInv ==
  IInv /\ (OwnerCancels \/ \E a \in Actors : StopCancels(a) \/ StopReturns(a)) => IInv'
<1> SUFFICES ASSUME IInv, OwnerCancels \/ \E a \in Actors : StopCancels(a) \/ StopReturns(a)
             PROVE  IInv'
  OBVIOUS
<1> USE DEF IInv, TypeOK
<1>1. /\ UNCHANGED <<connVars, session, loopVars>>
      /\ canceled' \in {canceled, Conns}
  BY DEF OwnerCancels, StopCancels, StopReturns
<1>2. ConnTypeOK' /\ (Stopping => Stopping')
  BY <1>1 DEF ConnTypeOK, Stopping
<1>3. pc' \in [Actors -> {"idle", "await", "stopped"}]
  BY DEF OwnerCancels, StopCancels, StopReturns
<1>4. QED
  BY <1>1, <1>2, <1>3 DEF RunInv, EndInv, LateInv, Running

LEMMA EndSessionIInv == IInv /\ EndSession => IInv'
<1> SUFFICES ASSUME IInv, EndSession PROVE IInv'
  OBVIOUS
<1>1. /\ UNCHANGED <<connVars, canceled, loopVars, pc>>
      /\ session' \in {"ended", "closed"}
  BY DEF EndSession, Owner!End
<1>2. QED
  BY <1>1 DEF IInv, TypeOK, ConnTypeOK, RunInv, EndInv, LateInv, Running, Stopping

LEMMA NextIInv == IInv /\ [Next]_vars => IInv'
<1> SUFFICES ASSUME IInv, [Next]_vars PROVE IInv'
  OBVIOUS
<1>1. CASE UNCHANGED vars
  BY <1>1 DEF vars, IInv, TypeOK, ConnTypeOK, RunInv, EndInv, LateInv, Running, Stopping
<1>2. CASE Next
  BY <1>2, ConnStepIInv, LoopStepIInv, DialIInv, CancelIInv, EndSessionIInv DEF Next
<1>3. QED
  BY <1>1, <1>2

LEMMA IInvImplies == IInv => TypeOK /\ OneLateConnection /\ DoneHasAReason
<1> SUFFICES ASSUME IInv PROVE TypeOK /\ OneLateConnection /\ DoneHasAReason
  OBVIOUS
<1>1. OneLateConnection
  BY DEF IInv, LateInv, OneLateConnection
<1>2. DoneHasAReason
  <2>1. loop \in {"exit", "gone"} => ~Serving
    BY DEF IInv, TypeOK, RunInv, Serving
  <2>2. QED
    BY <2>1 DEF IInv, EndInv, DoneHasAReason
<1>3. QED
  BY <1>1, <1>2 DEF IInv

-----------------------------------------------------------------------------
(***************************************************************************)
(* The feed and the backoff: what the connections show to their handlers,  *)
(* one after the other, is what module EventFeed promises.                 *)
(***************************************************************************)
Idle(k) == conn[k].queue = <<>> /\ conn[k].batch = <<>> /\ ~Handling(k)

(* Only the last connection, and only until the loop goes on to the next,  *)
(* has anything left to hand over; one context ends them all.              *)
LatestInv ==
  /\ canceled \in {{}, Conns}
  /\ loop = "off" => opens = 0
  /\ loop = "serve" => opens > 0
  /\ \A k \in Conns : k # opens \/ loop \notin {"serve", "exit", "gone"} => Idle(k)
  /\ \A k \in Conns : k > opens => conn[k].serve = "off"

(* The loop is on its way to a dial only after a whole wait, unless it is  *)
(* being stopped; the attempt counts the waits since the last connection.  *)
RestInv ==
  /\ loop = "check" /\ ~rested => Stopping
  /\ loop \in {"off", "auth"} => rested

LastInv ==
  /\ attempt = 0 => last = 0
  /\ attempt > 0 => last = reconnectBackoff(attempt - 1) \/ (attempt = MaxLevel /\ last = 60)

LevelInv == RestInv /\ LastInv

FeedInv ==
  /\ IInv /\ LatestInv /\ LevelInv
  /\ \A k \in Conns : ShapeInv(k) /\ DrainInv(k)

LEMMA OpensType == TypeOK => opens \in Nat /\ Conns \subseteq Nat \ {0} /\ (opens > 0 => opens \in Conns)
BY ConnsAssumption DEF TypeOK

LEMMA InitFeedInv == Init => FeedInv
<1> SUFFICES ASSUME Init PROVE FeedInv
  OBVIOUS
<1>1. \A k \in Conns : ShapeInv(k) /\ DrainInv(k)
  BY UnopenedShape DEF Init, ShapeInv, DrainInv
<1>2. \A k \in Conns : Idle(k) /\ conn[k].serve = "off"
  BY UnopenedShape DEF Init, Idle, Handling
<1>3. LatestInv /\ LevelInv
  BY <1>2 DEF Init, LatestInv, LevelInv, RestInv, LastInv
<1> QED BY <1>1, <1>3, InitIInv DEF FeedInv

(* The step of an idle connection is one of its dispatcher, and shows      *)
(* nothing.                                                                *)
LEMMA ConnMoves ==
  ASSUME FeedInv, NEW k \in Conns, ConnStep(k)
  PROVE  /\ UNCHANGED <<session, loopVars, pc, canceled>>
         /\ ReadLoop(k) \/ Dispatcher(k)
         /\ \A j \in Conns : j # k => conn'[j] = conn[j]
         /\ conn[k].serve # "off"
         /\ k <= opens /\ opens \in Conns
         /\ ~Running(k) => Dispatcher(k) /\ arrived' = arrived /\ (Idle(k) => Idle(k)')
<1>0. ConnTypeOK /\ conn \in [Conns -> Record] /\ conn[k] \in Record
  BY DEF FeedInv, IInv, TypeOK, ConnTypeOK, Record
<1>1. ReadLoop(k) \/ Dispatcher(k)
  BY DEF ConnStep, ServeStep, DispatchStep, FinishHandler, ReadLoop, Dispatcher
<1>2. PICK r \in Record : Moves(k, r)
  BY <1>0, <1>1, ReadLoopStep, DispatcherStep
<1>3. canceled' = canceled /\ conn'[k] = r /\ \A j \in Conns : j # k => conn'[j] = conn[j]
  BY <1>0, <1>2, MovesType DEF Moves
<1>4. conn[k].serve # "off"
  <2>1. conn[k].serve = "off" => conn[k].disp = "off"
    BY UnopenedShape DEF FeedInv, ShapeInv
  <2> QED
    BY <1>1, <2>1 DEF ReadLoop, Dispatcher, ReadMessage, ReadFails, HandEvent, AbandonBatch,
       EndMessage, CloseDispatch, DecideDrain, Drained, TakeEvent, HandlerReturns, Handling,
       DispatcherExits
<1>5. k <= opens /\ opens \in Conns
  <2>1. opens \in Nat /\ k \in Nat \ {0} /\ (opens > 0 => opens \in Conns)
    BY OpensType DEF FeedInv, IInv
  <2>2. ~(k > opens)
    BY <1>4 DEF FeedInv, LatestInv
  <2> QED BY <2>1, <2>2
<1>6. ASSUME ~Running(k) PROVE Dispatcher(k) /\ arrived' = arrived /\ (Idle(k) => Idle(k)')
  <2>1. Dispatcher(k)
    BY <1>1, <1>6 DEF ReadLoop, Running, ReadMessage, ReadFails, HandEvent, AbandonBatch,
       EndMessage, CloseDispatch, DecideDrain, Drained
  <2>2. arrived' = arrived
    BY <2>1 DEF Dispatcher, TakeEvent, HandlerReturns, DispatcherExits
  <2>3. ASSUME Idle(k) PROVE Idle(k)'
    <3>1. DispatcherExits(k)
      BY <2>1, <2>3 DEF Dispatcher, TakeEvent, HandlerReturns, Idle
    <3>2. conn' = [conn EXCEPT ![k].disp = "gone"]
      BY <3>1 DEF DispatcherExits
    <3>3. conn'[k].queue = conn[k].queue /\ conn'[k].batch = conn[k].batch
          /\ conn'[k].disp = "gone"
      BY <1>0, <3>2 DEF Record
    <3> QED BY <2>3, <3>3 DEF Idle, Handling
  <2> QED BY <2>1, <2>2, <2>3
<1> QED BY <1>1, <1>3, <1>4, <1>5, <1>6 DEF ConnStep, Elsewhere

LEMMA ConnFeedInv == ASSUME FeedInv, NEW k \in Conns, ConnStep(k) PROVE FeedInv'
<1>1. IInv'
  BY ConnStepIInv DEF FeedInv
<1>2. /\ UNCHANGED <<session, loopVars, pc, canceled>>
      /\ \A j \in Conns : j # k => conn'[j] = conn[j]
      /\ conn[k].serve # "off" /\ k <= opens
  BY ConnMoves
<1>3. Running(k) => loop = "serve" /\ k = opens
  BY DEF FeedInv, IInv, RunInv
<1>4. \A j \in Conns : Idle(j) /\ (j # k \/ ~Running(k)) => Idle(j)'
  <2>1. ASSUME NEW j \in Conns, Idle(j), j # k PROVE Idle(j)'
    BY <1>2, <2>1 DEF Idle, Handling
  <2>2. Idle(k) /\ ~Running(k) => Idle(k)'
    BY ConnMoves
  <2> QED BY <2>1, <2>2
<1>5. LatestInv'
  <2>1. \A j \in Conns : j # opens \/ loop \notin {"serve", "exit", "gone"} => Idle(j)'
    BY <1>3, <1>4 DEF FeedInv, LatestInv
  <2>2. \A j \in Conns : j > opens => j # k
    BY <1>2, OpensType DEF FeedInv, IInv
  <2>3. \A j \in Conns : j > opens => conn'[j].serve = "off"
    BY <1>2, <2>2 DEF FeedInv, LatestInv
  <2> QED BY <1>2, <2>1, <2>3 DEF FeedInv, LatestInv
<1>6. LevelInv'
  BY <1>2 DEF FeedInv, LevelInv, RestInv, LastInv, Stopping
<1>7. ASSUME NEW j \in Conns PROVE ShapeInv(j)' /\ DrainInv(j)'
  <2>1. CASE j = k
    BY <2>1, ConnMoves, ConnAppears DEF FeedInv, IInv, TypeOK
  <2>2. CASE j # k
    <3>1. conn'[j] = conn[j] /\ canceled' = canceled
      BY <1>2, <2>2
    <3>2. arrived' = arrived \/ conn[j].serve # "hand"
      BY <1>3, <2>2, ConnMoves DEF FeedInv, IInv, RunInv, Running
    <3> QED BY <3>1, <3>2, ShapeStays DEF FeedInv
  <2> QED BY <2>1, <2>2
<1> QED BY <1>1, <1>5, <1>6, <1>7 DEF FeedInv

LEMMA LoopFeedInv ==
  FeedInv /\ (LoopStep \/ \E c \in Callers : Start(c)) => FeedInv'
<1> SUFFICES ASSUME FeedInv, LoopStep \/ \E c \in Callers : Start(c) PROVE FeedInv'
  OBVIOUS
<1> USE DEF Go
<1>1. IInv'
  BY LoopStepIInv DEF FeedInv
<1>2. UNCHANGED <<conn, arrived, canceled, opens>>
  BY DEF LoopStep, CheckContext, Authorize, DialFails, DialClosed, ServeReturns, Wake, CloseDone, Start
<1>3. \A j \in Conns : ShapeInv(j)' /\ DrainInv(j)'
  BY <1>2, ShapeStays DEF FeedInv
<1>4. LevelInv'
  <2>1. attempt \in 0 .. MaxLevel /\ MaxLevel \in Nat /\ MaxLevel >= 6
    BY MaxLevelAssumption DEF FeedInv, IInv, TypeOK
  <2>2. Stopping' <=> Stopping
    BY <1>2 DEF Stopping
  <2>3. RestInv'
    <3>1. CASE Wake
      <4>1. loop' = "check" /\ (rested' = TRUE \/ Stopping)
        BY <3>1 DEF Wake
      <4> QED BY <2>2, <4>1, Zenon DEF RestInv
    <3>2. CASE DialFails
      BY <2>2, <3>2 DEF DialFails, RestInv
    <3>3. CASE ~Wake /\ ~DialFails
      <4>1. rested' = rested /\ (loop' = "auth" => loop = "check" /\ ~Stopping)
            /\ (loop' = "check" => loop = "off") /\ loop' # "off"
        BY <3>3 DEF LoopStep, CheckContext, Authorize, DialClosed, ServeReturns, CloseDone, Start
      <4> QED BY <2>2, <4>1 DEF FeedInv, LevelInv, RestInv
    <3> QED BY <3>1, <3>2, <3>3
  <2>4. LastInv'
    <3>1. CASE Wake
      <4>1. /\ attempt' = (IF attempt < MaxLevel THEN attempt + 1 ELSE attempt)
            /\ last' = reconnectBackoff(attempt)
        BY <3>1 DEF Wake
      <4>2. attempt < MaxLevel => attempt' > 0 /\ last' = reconnectBackoff(attempt' - 1)
        BY <2>1, <4>1
      <4>3. attempt = MaxLevel => attempt' = MaxLevel /\ attempt' > 0 /\ last' = 60
        BY <2>1, <4>1, BackoffTable
      <4> QED BY <2>1, <4>2, <4>3 DEF LastInv
    <3>2. CASE ~Wake
      <4>1. attempt' = attempt /\ last' = last
        BY <3>2 DEF LoopStep, CheckContext, Authorize, DialFails, DialClosed, ServeReturns,
                    CloseDone, Start
      <4> QED BY <4>1 DEF FeedInv, LevelInv, LastInv
    <3> QED BY <3>1, <3>2
  <2> QED BY <2>3, <2>4 DEF LevelInv
<1>5. ASSUME NEW k \in Conns, k # opens \/ loop' \notin {"serve", "exit", "gone"} PROVE Idle(k)
  <2>1. CASE k # opens \/ loop \notin {"serve", "exit", "gone"}
    BY <2>1 DEF FeedInv, LatestInv
  <2>2. CASE k = opens /\ loop \in {"serve", "exit", "gone"}
    <3>1. ServeReturns /\ ~Stopping
      BY <1>5, <2>2 DEF LoopStep, CheckContext, Authorize, DialFails, DialClosed, ServeReturns,
                        Wake, CloseDone, Start
    <3>2. conn[k].serve = "returned" /\ k \notin canceled
      BY <2>2, <3>1 DEF ServeReturns, Stopping
    <3>3. conn[k].batch = <<>> /\ conn[k].disp = "gone"
      BY <3>2 DEF FeedInv, DrainInv
    <3>4. conn[k].queue = <<>>
      BY <3>3 DEF FeedInv, ShapeInv
    <3> QED BY <3>3, <3>4 DEF Idle, Handling
  <2> QED BY <2>1, <2>2
<1>6. LatestInv'
  <2>1. loop' \notin {"off", "serve"}
    BY DEF LoopStep, CheckContext, Authorize, DialFails, DialClosed, ServeReturns, Wake, CloseDone, Start
  <2>2. \A k \in Conns : k # opens' \/ loop' \notin {"serve", "exit", "gone"} => Idle(k)'
    BY <1>2, <1>5 DEF Idle, Handling
  <2> QED BY <1>2, <2>1, <2>2 DEF FeedInv, LatestInv
<1> QED BY <1>1, <1>3, <1>4, <1>6 DEF FeedInv

LEMMA DialFeedInv == FeedInv /\ DialSucceeds => FeedInv'
<1> SUFFICES ASSUME FeedInv, DialSucceeds PROVE FeedInv'
  OBVIOUS
<1>1. IInv'
  BY DialIInv DEF FeedInv
<1>2. /\ loop = "dial" /\ loop' = "serve" /\ opens + 1 \in Conns /\ opens' = opens + 1
      /\ conn' = [conn EXCEPT ![opens + 1] = Opened] /\ attempt' = 0 /\ last' = 0
      /\ UNCHANGED <<canceled, arrived>>
  BY DEF DialSucceeds
<1>3. conn'[opens'] = Opened /\ \A j \in Conns : j # opens' => conn'[j] = conn[j]
  <2>1. conn \in [Conns -> Record]
    BY DEF FeedInv, IInv, TypeOK, ConnTypeOK, Record
  <2> QED BY <1>2, <2>1
<1>4. ASSUME NEW j \in Conns PROVE ShapeInv(j)' /\ DrainInv(j)'
  <2>1. CASE j = opens'
    BY <1>3, <2>1, NewShape
  <2>2. CASE j # opens'
    BY <1>2, <1>3, <2>2, ShapeStays DEF FeedInv
  <2> QED BY <2>1, <2>2
<1>5. LatestInv'
  <2>1. opens \in Nat /\ Conns \subseteq Nat \ {0}
    BY OpensType DEF FeedInv, IInv
  <2>2. \A j \in Conns : j # opens' => Idle(j)'
    BY <1>2, <1>3 DEF FeedInv, LatestInv, Idle, Handling
  <2>3. \A j \in Conns : j > opens' => j > opens /\ j # opens'
    BY <1>2, <2>1
  <2>4. \A j \in Conns : j > opens' => conn'[j].serve = "off"
    BY <1>3, <2>3 DEF FeedInv, LatestInv
  <2>5. opens' > 0
    BY <1>2, <2>1
  <2> QED BY <1>2, <2>2, <2>4, <2>5 DEF FeedInv, LatestInv
<1>6. LevelInv'
  BY <1>2 DEF LevelInv, RestInv, LastInv
<1> QED BY <1>1, <1>4, <1>5, <1>6 DEF FeedInv

(* Stop, the owner's context and the session leave connections and loop    *)
(* where they are.                                                         *)
Outside == OwnerCancels \/ EndSession \/ \E a \in Actors : StopCancels(a) \/ StopReturns(a)

LEMMA OutsideMoves ==
  Outside => UNCHANGED <<conn, arrived, loopVars>> /\ canceled' \in {canceled, Conns}
BY DEF Outside, OwnerCancels, EndSession, StopCancels, StopReturns

LEMMA OutsideFeedInv == FeedInv /\ Outside => FeedInv'
<1> SUFFICES ASSUME FeedInv, Outside PROVE FeedInv'
  OBVIOUS
<1>1. IInv'
  BY CancelIInv, EndSessionIInv DEF FeedInv, Outside
<1>2. UNCHANGED <<conn, arrived, loopVars>> /\ canceled' \in {canceled, Conns}
  BY OutsideMoves
<1>3. canceled \subseteq canceled'
  BY <1>2 DEF FeedInv, LatestInv
<1>4. \A j \in Conns : ShapeInv(j)' /\ DrainInv(j)'
  BY <1>2, <1>3, ShapeStays DEF FeedInv
<1>5. LatestInv'
  BY <1>2 DEF FeedInv, LatestInv, Idle, Handling
<1>6. LevelInv'
  <2>1. Stopping => Stopping'
    BY <1>3 DEF Stopping
  <2> QED BY <1>2, <2>1 DEF FeedInv, LevelInv, RestInv, LastInv
<1> QED BY <1>1, <1>4, <1>5, <1>6 DEF FeedInv

LEMMA NextFeedInv == FeedInv /\ [Next]_vars => FeedInv'
<1> SUFFICES ASSUME FeedInv, [Next]_vars PROVE FeedInv'
  OBVIOUS
<1>1. CASE UNCHANGED vars
  <2>1. IInv'
    BY NextIInv DEF FeedInv
  <2>2. UNCHANGED <<conn, arrived, canceled, loopVars>>
    BY <1>1 DEF vars
  <2>3. \A j \in Conns : ShapeInv(j)' /\ DrainInv(j)'
    BY <2>2, ShapeStays DEF FeedInv
  <2> QED
    BY <2>1, <2>2, <2>3 DEF FeedInv, LatestInv, LevelInv, RestInv, LastInv, Idle, Handling, Stopping
<1>2. CASE Next
  BY <1>2, ConnFeedInv, LoopFeedInv, DialFeedInv, OutsideFeedInv DEF Next, Outside
<1> QED BY <1>1, <1>2

(* A dial needs a whole wait, and each wait follows from the one before. *)
BackoffStep ==
  /\ loop # "dial" /\ loop' = "dial" => rested
  /\ loop = "sleep" /\ loop' # "sleep" => last' = Longer(last)

LEMMA WaitsGrow == FeedInv /\ [Next]_vars => BackoffStep
<1> SUFFICES ASSUME FeedInv, [Next]_vars PROVE BackoffStep
  OBVIOUS
<1>1. CASE loop' = loop
  BY <1>1 DEF BackoffStep
<1>2. CASE loop' # loop
  <2>1. LoopStep \/ DialSucceeds \/ \E c \in Callers : Start(c)
    BY <1>2 DEF Next, vars, ConnStep, Elsewhere, OwnerCancels, EndSession, StopCancels, StopReturns
  <2>2. attempt \in 0 .. MaxLevel /\ MaxLevel \in Nat /\ MaxLevel >= 6
    BY MaxLevelAssumption DEF FeedInv, IInv, TypeOK
  <2>3. ASSUME loop' = "dial" PROVE rested
    <3>1. loop = "auth"
      BY <1>2, <2>1, <2>3 DEF LoopStep, CheckContext, Authorize, DialFails, DialClosed, ServeReturns,
                              Wake, CloseDone, Start, DialSucceeds, Go
    <3> QED BY <3>1 DEF FeedInv, LevelInv, RestInv
  <2>4. ASSUME loop = "sleep" PROVE last' = Longer(last)
    <3>1. Wake
      BY <2>1, <2>4 DEF LoopStep, CheckContext, Authorize, DialFails, DialClosed, ServeReturns,
                        CloseDone, Start, DialSucceeds
    <3>2. last' = reconnectBackoff(attempt)
      BY <3>1 DEF Wake
    <3>3. CASE attempt = 0
      BY <3>2, <3>3, BackoffTable DEF FeedInv, LevelInv, LastInv, Longer
    <3>4. CASE attempt > 0 /\ last = reconnectBackoff(attempt - 1)
      BY <2>2, <3>2, <3>4, BackoffTable
    <3>5. CASE attempt = MaxLevel /\ last = 60
      <4>1. last' = 60
        BY <2>2, <3>2, <3>5, BackoffTable
      <4> QED BY <3>5, <4>1 DEF Longer
    <3> QED BY <2>2, <3>3, <3>4, <3>5 DEF FeedInv, LevelInv, LastInv
  <2> QED BY <2>3, <2>4 DEF BackoffStep
<1> QED BY <1>1, <1>2

(***************************************************************************)
(* The mapped state, seen from the last connection.                        *)
(***************************************************************************)
InHandlers == {conn[k].event : k \in {j \in Conns : Handling(j)}}

Seen ==
  /\ opens = 0 => Latest = Unopened /\ InHandlers = {}
  /\ opens > 0 => opens \in Conns /\ Latest = conn[opens] /\ InHandlers = InHandler(opens)
  /\ loop # "serve" => ~Serving
  /\ loop \notin {"serve", "exit", "gone"} =>
       Latest.queue = <<>> /\ Latest.batch = <<>> /\ InHandlers = {}

FeedStep == [Feed!Next]_(Feed!vars)

LEMMA FeedIsSeen == FeedInv => Seen
<1> SUFFICES ASSUME FeedInv PROVE Seen
  OBVIOUS
<1>1. opens \in Nat /\ Conns \subseteq Nat \ {0} /\ (opens > 0 => opens \in Conns)
  BY OpensType DEF FeedInv, IInv
<1>2. opens = 0 => Latest = Unopened
  BY DEF Latest
<1>3. opens > 0 => Latest = conn[opens]
  BY DEF Latest
<1>4. \A k \in Conns : k # opens => ~Handling(k)
  BY DEF FeedInv, LatestInv, Idle
<1>5. opens = 0 => InHandlers = {}
  BY <1>1, <1>4 DEF InHandlers
<1>6. opens > 0 => InHandlers = InHandler(opens)
  BY <1>1, <1>4 DEF InHandlers, InHandler
<1>7. loop # "serve" => ~Serving
  BY <1>1 DEF FeedInv, IInv, RunInv, Serving
<1>8. ASSUME loop \notin {"serve", "exit", "gone"}
      PROVE  Latest.queue = <<>> /\ Latest.batch = <<>> /\ InHandlers = {}
  <2>1. \A k \in Conns : Idle(k)
    BY <1>8 DEF FeedInv, LatestInv
  <2>2. InHandlers = {}
    BY <2>1 DEF InHandlers, Idle
  <2>3. CASE opens = 0
    BY <1>2, <2>2, <2>3, UnopenedShape
  <2>4. CASE opens > 0
    BY <1>1, <1>3, <2>1, <2>2, <2>4 DEF Idle
  <2> QED BY <1>1, <2>3, <2>4
<1> QED BY <1>1, <1>2, <1>3, <1>5, <1>6, <1>7, <1>8 DEF Seen

(* Where no connection moves, nothing changes but that no other may open.  *)
LEMMA PhaseFeeds ==
  ASSUME UNCHANGED <<conn, arrived, opens>>, Phase' = Phase \/ (Phase = "down" /\ Phase' = "stopped")
  PROVE  FeedStep
<1>1. Latest' = Latest /\ InHandlers' = InHandlers /\ arrived' = arrived
  BY DEF Latest, InHandlers, Handling
<1>2. CASE Phase' = Phase
  BY <1>1, <1>2 DEF FeedStep, Feed!vars, InHandlers
<1>3. CASE Phase = "down" /\ Phase' = "stopped"
  <2>1. Feed!Shut
    BY <1>1, <1>3 DEF Feed!Shut, InHandlers
  <2> QED BY <2>1 DEF FeedStep, Feed!Next
<1> QED BY <1>2, <1>3

LEMMA LoopFeeds ==
  ASSUME FeedInv, Seen, LoopStep \/ \E c \in Callers : Start(c) PROVE FeedStep
<1> USE DEF Go
<1>1. UNCHANGED <<conn, arrived, canceled, opens>>
  BY DEF LoopStep, CheckContext, Authorize, DialFails, DialClosed, ServeReturns, Wake, CloseDone, Start
<1>2. Serving' = Serving /\ Stopping' = Stopping
  BY <1>1 DEF Serving, Running, Stopping
<1>3. ~Serving
  <2>1. CASE loop = "serve"
    <3>1. conn[opens].serve = "returned"
      BY <2>1 DEF LoopStep, CheckContext, Authorize, DialFails, DialClosed, ServeReturns, Wake,
                  CloseDone, Start
    <3> QED BY <3>1 DEF Serving, Running
  <2>2. CASE loop # "serve"
    BY <2>2 DEF Seen
  <2> QED BY <2>1, <2>2
<1>4. \/ loop \notin {"serve", "exit", "gone"} /\ loop' # "serve"
      \/ loop = "serve" /\ loop' = IF Stopping THEN "exit" ELSE "sleep"
      \/ loop = "exit" /\ loop' = "gone"
  BY DEF LoopStep, CheckContext, Authorize, DialFails, DialClosed, ServeReturns, Wake, CloseDone, Start
<1>5. Phase' = Phase \/ (Phase = "down" /\ Phase' = "stopped")
  BY <1>2, <1>3, <1>4 DEF Phase
<1> QED BY <1>1, <1>5, PhaseFeeds

LEMMA OutsideFeeds == ASSUME FeedInv, Seen, Outside PROVE FeedStep
<1>1. UNCHANGED <<conn, arrived, loopVars>> /\ canceled' \in {canceled, Conns}
  BY OutsideMoves
<1>2. Stopping => Stopping'
  BY <1>1 DEF Stopping, FeedInv, LatestInv
<1>3. Serving' = Serving /\ loop' = loop
  BY <1>1 DEF Serving, Running
<1>4. Phase' = Phase \/ (Phase = "down" /\ Phase' = "stopped")
  BY <1>2, <1>3 DEF Phase
<1> QED BY <1>1, <1>4, PhaseFeeds

LEMMA DialFeeds == ASSUME FeedInv, Seen, Seen', DialSucceeds PROVE FeedStep
<1>1. /\ loop = "dial" /\ loop' = "serve" /\ opens + 1 \in Conns /\ opens' = opens + 1
      /\ conn' = [conn EXCEPT ![opens + 1] = Opened] /\ arrived' = arrived
  BY DEF DialSucceeds
<1>2. opens' > 0 /\ conn'[opens'] = Opened
  <2>1. conn \in [Conns -> Record] /\ opens \in Nat
    BY OpensType DEF FeedInv, IInv, TypeOK, ConnTypeOK, Record
  <2> QED BY <1>1, <2>1
<1>3. Latest.queue = <<>> /\ Latest.batch = <<>> /\ InHandlers = {} /\ Phase = "down"
  BY <1>1 DEF Seen, Phase
<1>4. Latest' = Opened /\ InHandlers' = {}
  BY <1>2, UnopenedShape DEF Seen, InHandler, Handling
<1>5. Phase' = "up"
  <2>1. conn'[opens'].serve = "read"
    BY <1>2, UnopenedShape, Zenon
  <2> QED BY <1>2, <2>1 DEF Phase, Serving, Running
<1>6. Latest'.queue = <<>> /\ Latest'.batch = <<>>
  BY <1>4, UnopenedShape, Zenon
<1>7. Feed!Open
  BY <1>1, <1>3, <1>4, <1>5, <1>6 DEF Feed!Open, InHandlers
<1> QED BY <1>7 DEF FeedStep, Feed!Next

LEMMA ConnFeeds == ASSUME FeedInv, Seen, Seen', NEW k \in Conns, ConnStep(k) PROVE FeedStep
<1>0. ConnTypeOK /\ ShapeInv(k) /\ DrainInv(k)
  BY DEF FeedInv, IInv, TypeOK
<1>1. /\ Appears(k) /\ UNCHANGED <<canceled, loop, opens>> /\ Stopping' = Stopping
      /\ opens > 0 /\ opens \in Conns
  <2>1. ReadLoop(k) \/ Dispatcher(k)
    BY ConnMoves
  <2>2. Appears(k)
    BY <1>0, <2>1, ConnAppears
  <2>3. UNCHANGED <<canceled, loop, opens>> /\ opens \in Conns
    BY ConnMoves
  <2>4. opens > 0
    BY <2>3, ConnsAssumption
  <2> QED BY <2>2, <2>3, <2>4 DEF Stopping
<1>2. CASE k # opens
  <2>1. conn'[opens] = conn[opens] /\ arrived' = arrived
    <3>1. ~Running(k)
      BY <1>2 DEF FeedInv, IInv, RunInv
    <3> QED BY <1>1, <1>2, <3>1, ConnMoves
  <2>2. Latest' = Latest /\ InHandlers' = InHandlers
    BY <1>1, <2>1 DEF Seen, InHandler, Handling
  <2>3. Phase' = Phase
    BY <1>1, <2>1 DEF Phase, Serving, Running
  <2> QED BY <2>1, <2>2, <2>3 DEF FeedStep, Feed!vars, InHandlers
<1>3. CASE k = opens
  <2>1. Latest = conn[k] /\ InHandlers = InHandler(k)
    BY <1>1, <1>3 DEF Seen
  <2>2. Latest' = conn'[k] /\ InHandlers' = InHandler(k)'
    BY <1>1, <1>3 DEF Seen
  <2>3. /\ arrived - Len(Latest.batch) = LastQueued(k)
        /\ arrived' - Len(Latest'.batch) = LastQueued(k)'
    BY <2>1, <2>2 DEF LastQueued
  <2>4. (Serving <=> Running(k)) /\ (Serving' <=> Running(k)')
    BY <1>1, <1>3 DEF Serving, Running
  <2>5. (Running(k) <=> Running(k)') => Phase' = Phase
    BY <1>1, <2>4 DEF Phase
  <2>6. Running(k) => Phase = "up"
    BY <2>4 DEF Phase
  <2>7. CASE Shows(k, Running(k))
    BY <2>1, <2>2, <2>3, <2>5, <2>7 DEF Shows, FeedStep, Feed!vars, InHandlers
  <2>8. CASE Arrives(k)
    <3>1. Feed!Arrive
      BY <2>1, <2>2, <2>3, <2>5, <2>6, <2>8 DEF Arrives, Feed!Arrive, InHandlers
    <3> QED BY <3>1 DEF FeedStep, Feed!Next
  <2>9. CASE Begins(k)
    <3>1. Feed!Begin
      BY <2>1, <2>2, <2>3, <2>5, <2>9 DEF Begins, Feed!Begin, InHandlers
    <3> QED BY <3>1 DEF FeedStep, Feed!Next
  <2>10. CASE Finishes(k)
    <3>1. Feed!Finish
      BY <2>1, <2>2, <2>3, <2>5, <2>10 DEF Finishes, Feed!Finish, InHandlers
    <3> QED BY <3>1 DEF FeedStep, Feed!Next
  <2>11. CASE Returns(k)
    <3>1. loop = "serve" /\ ~Running(k)' /\ Phase = "up"
      BY <2>6, <2>11 DEF Returns, Shows, FeedInv, IInv, RunInv
    <3>2. Phase' = IF Stopping THEN "stopped" ELSE "down"
      BY <1>1, <2>4, <3>1 DEF Phase
    <3>3. UNCHANGED <<conn[k].queue, InHandler(k), LastQueued(k)>>
      BY <2>11 DEF Returns, Shows
    <3>4. CASE Stopping
      <4>1. Feed!Shut
        BY <2>1, <2>2, <2>3, <3>1, <3>2, <3>3, <3>4 DEF Feed!Shut, InHandlers
      <4> QED BY <4>1 DEF FeedStep, Feed!Next
    <3>5. CASE ~Stopping
      <4>1. conn[k].queue = <<>> /\ InHandler(k) = {}
        BY <2>11, <3>5 DEF Returns, Stopping
      <4>2. Feed!Close
        BY <2>1, <2>2, <2>3, <3>1, <3>2, <3>3, <3>5, <4>1 DEF Feed!Close, InHandlers
      <4> QED BY <4>2 DEF FeedStep, Feed!Next
    <3> QED BY <3>4, <3>5
  <2> QED BY <1>1, <2>7, <2>8, <2>9, <2>10, <2>11 DEF Appears
<1> QED BY <1>2, <1>3

LEMMA NextFeeds == ASSUME FeedInv, Seen, Seen', [Next]_vars PROVE FeedStep
<1>1. CASE UNCHANGED vars
  <2>1. UNCHANGED <<conn, arrived, opens, loop, canceled>>
    BY <1>1 DEF vars
  <2>2. Phase' = Phase
    BY <2>1 DEF Phase, Serving, Running, Stopping
  <2> QED BY <2>1, <2>2, PhaseFeeds
<1>2. CASE Next
  BY <1>2, ConnFeeds, LoopFeeds, DialFeeds, OutsideFeeds DEF Next, Outside
<1> QED BY <1>1, <1>2

LEMMA InitFeed == Init => Feed!Init
<1> SUFFICES ASSUME Init PROVE Feed!Init
  OBVIOUS
<1>1. opens = 0 /\ loop = "off" /\ arrived = 0
  BY DEF Init
<1>2. Latest.queue = <<>> /\ Latest.batch = <<>> /\ InHandlers = {} /\ ~Serving
  BY <1>1, InitFeedInv, FeedIsSeen DEF Seen
<1>3. Phase = "down"
  BY <1>1, <1>2 DEF Phase
<1>4. arrived - Len(Latest.batch) = 0
  <2>1. Len(<<>>) = 0
    OBVIOUS
  <2>2. Len(Latest.batch) = 0
    BY <1>2, <2>1, Zenon
  <2>3. \A x, y : x = 0 /\ y = 0 => x - y = 0
    OBVIOUS
  <2> QED BY <1>1, <2>2, <2>3, Zenon
<1>5. {conn[k].event : k \in {j \in Conns : Handling(j)}} = {}
  BY <1>2 DEF InHandlers
<1> QED BY <1>2, <1>3, <1>4, <1>5 DEF Feed!Init

(***************************************************************************)
(* Theorems                                                                *)
(***************************************************************************)

(* Every state the loop, its connections and its session can reach keeps   *)
(* the invariant.                                                          *)
THEOREM Invariance == Spec => []IInv
<1>1. QED
  BY InitIInv, NextIInv, PTL DEF Spec

(* Every variable of module PersistentListener stays in its range; the     *)
(* dispatch channel holds at most Capacity events                          *)
(* (events_signalr.go:264-266).                                            *)
THEOREM TypeCorrect == Spec => []TypeOK
<1>1. QED
  BY Invariance, IInvImplies, PTL

(* A listener whose session is gone opens at most the connection it was    *)
(* dialing (events.go:199-203, 260-266).                                   *)
THEOREM AtMostOneLateConnection == Spec => []OneLateConnection
<1>1. QED
  BY Invariance, IInvImplies, PTL

(* The loop ends only for a cancellation, or for a terminal error it       *)
(* reports, and never with a connection up (events.go:225-229, 323-336).   *)
THEOREM EndsForAReason == Spec => []DoneHasAReason
<1>1. QED
  BY Invariance, IInvImplies, PTL

(* The loop backs off on every path: after a dial, failed or not, it never *)
(* dials again before it slept a whole wait, and the waits since a         *)
(* connection are a second, then twice the one before, up to a minute      *)
(* (events.go:267-288, events_signalr.go:434-449).                         *)
THEOREM LoopBacksOff == Spec => BacksOff
<1>1. Spec => []FeedInv
  BY InitFeedInv, NextFeedInv, PTL DEF Spec
<1>2. FeedInv /\ [Next]_vars => [BackoffStep]_vars
  BY WaitsGrow
<1> QED
  BY <1>1, <1>2, PTL DEF Spec, BacksOff, BackoffStep

(* Over all its connections the listener hands events over one at a time,  *)
(* in the order they arrived and each at most once; the handlers of an old *)
(* connection are done before the next opens (events.go:28-34,             *)
(* events_signalr.go:259-286): module PersistentListener implements module *)
(* EventFeed.                                                              *)
THEOREM FeedIsKept == Spec => ImplementsFeed
<1>1. Spec => []FeedInv
  BY InitFeedInv, NextFeedInv, PTL DEF Spec
<1>2. Spec => []Seen
  BY <1>1, FeedIsSeen, PTL
<1>3. FeedInv /\ Seen /\ Seen' /\ [Next]_vars => [Feed!Next]_(Feed!vars)
  BY NextFeeds DEF FeedStep
<1> QED
  BY <1>1, <1>2, <1>3, InitFeed, PTL DEF Spec, ImplementsFeed, Feed!Spec
=============================================================================
