--------------------------- MODULE ListenerProofs ---------------------------
(***************************************************************************)
(* The safety theorems of module EventListener, for every number of        *)
(* attempts, events and goroutines that start and stop the listener.       *)
(***************************************************************************)
EXTENDS EventListener, EventServeProofs

Starting(a) == pc[a] \in {"connect", "release", "close"}

(* A Start owns its attempt until done is closed; it has no connection yet.*)
StartInv ==
  \A a \in Actors :
    /\ Starting(a) => /\ mine[a] \in Conns /\ mine[a] <= tries /\ mine[a] \notin done
                      /\ conn[mine[a]].serve = "off"
    /\ pc[a] \in {"connect", "release"} => mine[a] = tries /\ started
    /\ \A b \in Actors : Starting(a) /\ Starting(b) /\ mine[a] = mine[b] => a = b

(* Stop finds what Start claimed, and nothing otherwise. *)
ClaimInv == published = IF started THEN tries ELSE NoTry

(* The listener stays started for the sake of the connection it opened. *)
OpenInv == \A k \in Conns : conn[k].serve # "off" => k = tries /\ started

(* The goroutine that served records the error before it closes done. *)
ServedInv ==
  /\ done \cup served \subseteq Conns
  /\ \A k \in served : conn[k].serve = "returned" /\ err = conn[k].res
  /\ \A k \in done : conn[k].serve # "off" => k \in served

(* A Stop waits for the attempt that it saw. *)
StopInv ==
  \A a \in Actors :
    /\ pc[a] \in {"cancel", "await"} => mine[a] \in Conns /\ (saw[a] # NoTry => mine[a] = saw[a])
    /\ pc[a] = "stopped" /\ saw[a] # NoTry => saw[a] \in done

IInv == TypeOK /\ StartInv /\ ClaimInv /\ OpenInv /\ ServedInv /\ StopInv

USE DEF listenerVars, callVars, connVars

LEMMA TriesType == TypeOK => tries \in Nat /\ NoTry \notin Conns /\ Conns \subseteq Nat
BY ConnsAssumption DEF TypeOK, NoTry

LEMMA InitIInv == Init => IInv
<1> SUFFICES ASSUME Init PROVE IInv
  OBVIOUS
<1> USE DEF Init
<1>1. ConnTypeOK
  <2>1. conn \in [Conns -> Record] /\ \A k \in Conns : Len(conn[k].queue) <= Capacity
    BY UnopenedType
  <2>2. QED
    BY <2>1, MaxEventsAssumption DEF ConnTypeOK, Record
<1>2. TypeOK
  <2>1. started \in BOOLEAN
    OBVIOUS
  <2>2. pc \in [Actors -> {"idle", "connect", "release", "close", "cancel", "await", "stopped"}]
    OBVIOUS
  <2>3. mine \in [Actors -> Conns \cup {NoTry}] /\ saw \in [Actors -> Conns \cup {NoTry}]
    OBVIOUS
  <2>4. /\ tries \in Conns \cup {NoTry} /\ published \in {NoTry, tries}
        /\ done \subseteq 1 .. tries /\ served \subseteq 1 .. tries /\ err \in {Nil, "event-read"}
    BY DEF NoTry
  <2>5. QED
    BY <1>1, <2>1, <2>2, <2>3, <2>4 DEF TypeOK
<1>3. OpenInv
  BY UnopenedType DEF OpenInv
<1>4. QED
  BY <1>2, <1>3 DEF IInv, StartInv, ClaimInv, ServedInv, StopInv, Starting

(* A step of a connection touches neither the listener nor its callers.    *)
LEMMA ConnStepIInv == ASSUME IInv, NEW k \in Conns, ConnStep(k) PROVE IInv'
<1> USE DEF IInv, TypeOK
<1>1. UNCHANGED <<listenerVars, callVars>>
  BY DEF ConnStep
<1>2. ReadLoop(k) \/ Dispatcher(k)
  BY DEF ConnStep, ServeStep, DispatchStep, FinishHandler, ReadLoop, Dispatcher
<1>3. PICK r \in Record :
        /\ Moves(k, r)
        /\ conn[k].serve = "off" <=> r.serve = "off"
        /\ conn[k].serve = "returned" => r.serve = "returned" /\ r.res = conn[k].res
  <2>1. CASE ReadLoop(k)
    BY <2>1, ReadLoopStep DEF Onward
  <2>2. CASE Dispatcher(k)
    BY <2>2, DispatcherStep
  <2>3. QED
    BY <1>2, <2>1, <2>2
<1>4. /\ ConnTypeOK'
      /\ conn'[k] = r /\ \A j \in Conns : j # k => conn'[j] = conn[j]
  BY <1>3, MovesType
<1>5. \A j \in Conns : /\ conn[j].serve = "off" <=> conn'[j].serve = "off"
                       /\ conn[j].serve = "returned" => /\ conn'[j].serve = "returned"
                                                        /\ conn'[j].res = conn[j].res
  BY <1>3, <1>4
<1>6. TypeOK'
  BY <1>1, <1>4
<1>7. StartInv' /\ OpenInv'
  BY <1>1, <1>5 DEF StartInv, OpenInv, Starting
<1>8. ServedInv' /\ ClaimInv' /\ StopInv'
  BY <1>1, <1>5 DEF ServedInv, ClaimInv, StopInv
<1>9. QED
  BY <1>6, <1>7, <1>8
(***************************************************************************)
(* Start                                                                   *)
(***************************************************************************)
LEMMA ClaimIInv == ASSUME IInv, NEW c \in Callers, Claim(c) PROVE IInv'
<1> USE DEF IInv, TypeOK
<1>0. c \in Actors /\ tries \in Nat /\ NoTry \notin Conns /\ Conns \subseteq Nat
  BY TriesType DEF Actors
<1>1. /\ ~started /\ tries + 1 \in Conns /\ started' = TRUE
      /\ tries' = tries + 1 /\ published' = tries + 1
      /\ pc' = [pc EXCEPT ![c] = "connect"] /\ mine' = [mine EXCEPT ![c] = tries + 1]
      /\ UNCHANGED <<done, served, err, saw, connVars>>
  BY DEF Claim
<1>2. TypeOK'
  <2>1. 1 .. tries \subseteq 1 .. tries'
    BY <1>0, <1>1
  <2>2. ConnTypeOK'
    BY <1>1 DEF ConnTypeOK
  <2>3. started' \in BOOLEAN
    BY <1>1
  <2>4. pc' \in [Actors -> {"idle", "connect", "release", "close", "cancel", "await", "stopped"}]
    BY <1>0, <1>1
  <2>5. mine' \in [Actors -> Conns \cup {NoTry}]
    BY <1>0, <1>1
  <2>6. done' \subseteq 1 .. tries' /\ served' \subseteq 1 .. tries'
    BY <1>1, <2>1
  <2>7. tries' \in Conns \cup {NoTry} /\ published' \in {NoTry, tries'}
    BY <1>1
  <2>8. err' \in {Nil, "event-read"} /\ saw' \in [Actors -> Conns \cup {NoTry}]
    BY <1>1
  <2>9. QED
    BY <2>2, <2>3, <2>4, <2>5, <2>6, <2>7, <2>8
<1>3. StartInv'
  <2>1. /\ tries + 1 \notin done /\ conn[tries + 1].serve = "off"
        /\ tries + 1 <= tries'
    BY <1>0, <1>1 DEF OpenInv
  <2>2. ASSUME NEW a \in Actors, a # c
        PROVE  /\ pc'[a] = pc[a] /\ mine'[a] = mine[a]
               /\ pc[a] \notin {"connect", "release"}
               /\ Starting(a) => /\ mine[a] \in Conns /\ mine[a] <= tries /\ mine[a] # tries + 1
                                 /\ mine[a] \notin done /\ conn[mine[a]].serve = "off"
    BY <1>0, <1>1, <2>2 DEF StartInv
  <2>3. pc'[c] = "connect" /\ mine'[c] = tries + 1
    BY <1>0, <1>1
  <2>4. ASSUME NEW a \in Actors, a # c, Starting(a)' PROVE mine'[a] <= tries'
    <3>1. Starting(a) /\ mine'[a] = mine[a]
      BY <2>2, <2>4 DEF Starting
    <3>2. mine[a] \in Nat /\ mine[a] <= tries
      BY <1>0, <2>2, <2>4, <3>1
    <3>3. tries' = tries + 1
      BY <1>1
    <3>4. QED
      BY <1>0, <3>1, <3>2, <3>3
  <2>5. \A a, b \in Actors : Starting(a)' /\ Starting(b)' /\ mine'[a] = mine'[b] => a = b
    BY <2>2, <2>3 DEF StartInv, Starting
  <2>6. QED
    BY <1>1, <2>1, <2>2, <2>3, <2>4, <2>5 DEF StartInv, Starting
<1>4. ClaimInv' /\ OpenInv' /\ ServedInv'
  BY <1>1 DEF ClaimInv, OpenInv, ServedInv
<1>5. StopInv'
  BY <1>0, <1>1 DEF StopInv
<1>6. QED
  BY <1>2, <1>3, <1>4, <1>5

(* A step of Start on its own attempt, from connect on. *)
LEMMA StartStepIInv ==
  ASSUME IInv, NEW a \in Actors,
         (a \in Callers /\ (ConnectSucceeds(a) \/ ConnectFails(a))) \/ Release(a) \/ CloseFailed(a)
  PROVE  IInv'
<1> USE DEF IInv, TypeOK
<1> DEFINE k == mine[a]
<1>0. tries \in Nat /\ NoTry \notin Conns /\ Conns \subseteq Nat
  BY TriesType
<1>1. /\ Starting(a) /\ k \in Conns /\ k <= tries /\ k \notin done /\ conn[k].serve = "off"
      /\ UNCHANGED <<tries, served, err, mine, saw, arrived>>
      /\ pc' = [pc EXCEPT ![a] = pc'[a]]
      /\ pc'[a] \in {"idle", "release", "close"}
  BY DEF ConnectSucceeds, ConnectFails, Release, CloseFailed, Goto, StartInv, Starting
<1>2. ASSUME NEW b \in Actors, b # a
      PROVE  pc'[b] = pc[b] /\ (Starting(b) => mine[b] # k)
  BY <1>1, <1>2 DEF StartInv
<1>3. StopInv'
  BY <1>1, <1>2 DEF StopInv, CloseFailed, ConnectSucceeds, ConnectFails, Release
<1>4. CASE a \in Callers /\ ConnectSucceeds(a)
  <2>1. /\ conn' = [conn EXCEPT ![k] = Opened] /\ UNCHANGED <<canceled, listenerVars>>
        /\ pc[a] = "connect" /\ pc'[a] = "idle" /\ k = tries /\ started
    BY <1>4 DEF ConnectSucceeds, Goto, StartInv
  <2>2. Moves(k, Opened)
    BY <1>1, <2>1, UnopenedType DEF Moves, ConnTypeOK
  <2>3. ConnTypeOK' /\ \A j \in Conns : j # k => conn'[j] = conn[j]
    BY <1>1, <2>2, MovesType
  <2>4. TypeOK'
    BY <1>1, <2>1, <2>3
  <2>5. StartInv'
    BY <1>1, <1>2, <2>1, <2>3 DEF StartInv, Starting
  <2>6. OpenInv' /\ ClaimInv'
    BY <2>1, <2>3 DEF OpenInv, ClaimInv
  <2>7. ServedInv'
    <3>1. k \notin done \cup served
      BY <1>1 DEF ServedInv
    <3>2. QED
      BY <2>1, <2>3, <3>1 DEF ServedInv
  <2>8. QED
    BY <1>3, <2>4, <2>5, <2>6, <2>7
<1>5. CASE a \in Callers /\ ConnectFails(a)
  <2>1. /\ canceled' = canceled \cup {k} /\ UNCHANGED <<conn, arrived, listenerVars>>
        /\ pc[a] = "connect" /\ pc'[a] = "release"
    BY <1>5 DEF ConnectFails, Goto
  <2>2. TypeOK'
    BY <1>1, <2>1 DEF ConnTypeOK
  <2>3. StartInv'
    BY <1>1, <1>2, <2>1 DEF StartInv, Starting
  <2>4. QED
    BY <1>3, <2>1, <2>2, <2>3 DEF OpenInv, ClaimInv, ServedInv
<1>6. CASE Release(a)
  <2>1. /\ started' = FALSE /\ published' = NoTry /\ UNCHANGED <<tries, done, served, err, connVars>>
        /\ pc[a] = "release" /\ pc'[a] = "close" /\ k = tries
    BY <1>6 DEF Release, Goto, StartInv
  <2>2. TypeOK'
    <3>1. ConnTypeOK'
      BY <2>1 DEF ConnTypeOK
    <3>2. started' \in BOOLEAN /\ published' \in {NoTry, tries'}
      BY <2>1
    <3>3. pc' \in [Actors -> {"idle", "connect", "release", "close", "cancel", "await", "stopped"}]
      BY <1>1, <2>1
    <3>4. UNCHANGED <<tries, done, served, err, mine, saw>>
      BY <1>1, <2>1
    <3>5. QED
      BY <3>1, <3>2, <3>3, <3>4
  <2>3. StartInv'
    BY <1>1, <1>2, <2>1 DEF StartInv, Starting
  <2>4. OpenInv'
    BY <1>1, <2>1 DEF OpenInv
  <2>5. QED
    BY <1>3, <2>1, <2>2, <2>3, <2>4 DEF ClaimInv, ServedInv
<1>7. CASE CloseFailed(a)
  <2>1. /\ done' = done \cup {k} /\ UNCHANGED <<started, published, tries, served, err, connVars>>
        /\ pc[a] = "close" /\ pc'[a] = "idle"
    BY <1>7 DEF CloseFailed, Goto
  <2>2. TypeOK'
    <3>1. k \in Nat \ {0} /\ k <= tries
      BY <1>1, ConnsAssumption
    <3>2. k \in 1 .. tries
      BY <1>0, <3>1
    <3>3. done' \subseteq 1 .. tries
      BY <2>1, <3>2
    <3>4. ConnTypeOK'
      BY <2>1 DEF ConnTypeOK
    <3>5. pc' \in [Actors -> {"idle", "connect", "release", "close", "cancel", "await", "stopped"}]
      BY <1>1, <2>1
    <3>6. UNCHANGED <<started, published, tries, served, err, mine, saw>>
      BY <1>1, <2>1
    <3>7. started' \in BOOLEAN
      BY <3>6
    <3>8. QED
      BY <3>3, <3>4, <3>5, <3>6, <3>7
  <2>3. StartInv'
    BY <1>1, <1>2, <2>1 DEF StartInv, Starting
  <2>4. ServedInv'
    BY <1>1, <2>1 DEF ServedInv
  <2>5. QED
    BY <1>3, <2>1, <2>2, <2>3, <2>4 DEF OpenInv, ClaimInv
<1>8. QED
  BY <1>4, <1>5, <1>6, <1>7

(***************************************************************************)
(* The goroutine that served, Stop, and the owner's context.               *)
(***************************************************************************)
LEMMA ServedIInv ==
  ASSUME IInv, NEW k \in Conns, RecordErr(k) \/ CloseServed(k) \/ OwnerCancels(k) PROVE IInv'
<1> USE DEF IInv, TypeOK
<1>0. tries \in Nat /\ NoTry \notin Conns /\ Conns \subseteq Nat \ {0}
  BY TriesType, ConnsAssumption
<1>1. /\ UNCHANGED <<conn, arrived, started, published, tries, callVars>>
      /\ canceled' \in SUBSET Conns
  BY DEF RecordErr, CloseServed, OwnerCancels, ConnTypeOK
<1>2. ConnTypeOK' /\ ClaimInv' /\ OpenInv'
  BY <1>1 DEF ConnTypeOK, ClaimInv, OpenInv
<1>3. conn[k] \in Record
  BY ConnType
<1>4. CASE RecordErr(k)
  <2>1. /\ conn[k].serve = "returned" /\ served' = served \cup {k} /\ err' = conn[k].res
        /\ done' = done /\ k = tries
    BY <1>4 DEF RecordErr, OpenInv
  <2>2. \A j \in served : j = k
    BY <2>1 DEF ServedInv, OpenInv
  <2>3. ServedInv'
    BY <1>1, <2>1, <2>2 DEF ServedInv
  <2>4. k \in 1 .. tries /\ err' \in {Nil, "event-read"}
    BY <1>0, <1>3, <2>1 DEF Record
  <2>5. QED
    BY <1>1, <1>2, <2>1, <2>3, <2>4 DEF StartInv, Starting, StopInv
<1>5. CASE CloseServed(k)
  <2>1. k \in served /\ done' = done \cup {k} /\ UNCHANGED <<served, err>>
    BY <1>5 DEF CloseServed
  <2>2. conn[k].serve = "returned"
    BY <2>1 DEF ServedInv
  <2>3. StartInv'
    BY <1>1, <2>1, <2>2 DEF StartInv, Starting
  <2>4. ServedInv' /\ StopInv'
    BY <1>1, <2>1 DEF ServedInv, StopInv
  <2>5. QED
    BY <1>1, <1>2, <2>1, <2>3, <2>4
<1>6. CASE OwnerCancels(k)
  <2>1. UNCHANGED listenerVars
    BY <1>6 DEF OwnerCancels
  <2>2. QED
    BY <1>1, <1>2, <2>1 DEF StartInv, Starting, ServedInv, StopInv
<1>7. QED
  BY <1>4, <1>5, <1>6

LEMMA StopIInv ==
  ASSUME IInv, NEW a \in Actors, StopLooks(a) \/ StopCancels(a) \/ StopReturns(a) PROVE IInv'
<1> USE DEF IInv, TypeOK
<1>0. tries \in Nat /\ NoTry \notin Conns /\ Conns \subseteq Nat
  BY TriesType
<1>1. /\ UNCHANGED <<listenerVars, conn, arrived>> /\ canceled' \in {canceled, canceled \cup {mine[a]}}
      /\ pc' = [pc EXCEPT ![a] = pc'[a]] /\ pc'[a] \in {"cancel", "await", "stopped"}
      /\ \A b \in Actors : b # a => pc'[b] = pc[b] /\ mine'[b] = mine[b] /\ saw'[b] = saw[b]
  BY DEF StopLooks, StopCancels, StopReturns, Goto
<1>2. ConnTypeOK'
  <2>1. canceled' \subseteq Conns
    BY <1>1 DEF ConnTypeOK, StopLooks, StopCancels, StopReturns, StopInv
  <2>2. QED
    BY <1>1, <2>1 DEF ConnTypeOK
<1>3. TypeOK'
  <2>1. mine' \in [Actors -> Conns \cup {NoTry}] /\ saw' \in [Actors -> Conns \cup {NoTry}]
    BY DEF StopLooks, StopCancels, StopReturns, Goto
  <2>2. QED
    BY <1>1, <1>2, <2>1
<1>4. StartInv'
  BY <1>1 DEF StartInv, Starting
<1>5. ClaimInv' /\ OpenInv' /\ ServedInv'
  BY <1>1 DEF ClaimInv, OpenInv, ServedInv
<1>6. StopInv'
  <2>1. CASE StopLooks(a)
    <3>1. /\ mine'[a] = published /\ saw'[a] = IF started THEN tries ELSE NoTry
          /\ pc'[a] = IF published = NoTry THEN "stopped" ELSE "cancel"
      BY <2>1 DEF StopLooks
    <3>2. QED
      BY <1>0, <1>1, <3>1 DEF StopInv, ClaimInv
  <2>2. CASE StopCancels(a)
    BY <1>1, <2>2 DEF StopCancels, Goto, StopInv
  <2>3. CASE StopReturns(a)
    BY <1>1, <2>3 DEF StopReturns, Goto, StopInv
  <2>4. QED
    BY <2>1, <2>2, <2>3
<1>7. QED
  BY <1>3, <1>4, <1>5, <1>6

LEMMA NextIInv == IInv /\ [Next]_vars => IInv'
<1> SUFFICES ASSUME IInv, [Next]_vars PROVE IInv'
  OBVIOUS
<1>1. CASE UNCHANGED vars
  BY <1>1 DEF vars, IInv, TypeOK, ConnTypeOK, StartInv, ClaimInv, OpenInv, ServedInv, StopInv, Starting
<1>2. CASE Next
  <2>1. Callers \subseteq Actors
    BY DEF Actors
  <2>2. QED
    BY <1>2, <2>1, ConnStepIInv, ClaimIInv, StartStepIInv, ServedIInv, StopIInv DEF Next, CallStep
<1>3. QED
  BY <1>1, <1>2

LEMMA IInvImplies == IInv => TypeOK /\ OneRun /\ DoneTellsWhy /\ StopIsNotLost
<1> SUFFICES ASSUME IInv PROVE TypeOK /\ OneRun /\ DoneTellsWhy /\ StopIsNotLost
  OBVIOUS
<1> USE DEF IInv
<1>0. Callers \subseteq Actors /\ NoTry \notin Conns
  BY TriesType DEF Actors
<1>1. ASSUME NEW k \in Conns, Connecting(k) \/ Serving(k) PROVE k = tries /\ started
  BY <1>0, <1>1 DEF Connecting, Serving, StartInv, OpenInv
<1>2. OneRun
  BY <1>1 DEF OneRun
<1>3. DoneTellsWhy
  BY DEF DoneTellsWhy, ServedInv
<1>4. StopIsNotLost
  BY <1>0 DEF StopIsNotLost, StopInv, Connecting, Serving, StartInv, Starting
<1>5. QED
  BY <1>2, <1>3, <1>4

-----------------------------------------------------------------------------
(***************************************************************************)
(* The feed: what the one connection shows to its handlers is what module  *)
(* EventFeed promises.                                                     *)
(***************************************************************************)
FeedInv == IInv /\ \A k \in Conns : ShapeInv(k) /\ DrainInv(k)

LEMMA ConnMoves ==
  ASSUME FeedInv, NEW k \in Conns, ConnStep(k)
  PROVE  /\ UNCHANGED <<listenerVars, callVars, canceled>>
         /\ ReadLoop(k) \/ Dispatcher(k)
         /\ \A j \in Conns : j # k => conn'[j] = conn[j]
         /\ conn[k].serve # "off" /\ conn'[k].serve # "off"
<1>0. ConnTypeOK
  BY DEF FeedInv, IInv, TypeOK
<1>1. ReadLoop(k) \/ Dispatcher(k)
  BY DEF ConnStep, ServeStep, DispatchStep, FinishHandler, ReadLoop, Dispatcher
<1>2. PICK r \in Record : Moves(k, r) /\ (conn[k].serve = "off" <=> r.serve = "off")
  <2>1. CASE ReadLoop(k)
    BY <1>0, <2>1, ReadLoopStep DEF Onward
  <2>2. CASE Dispatcher(k)
    BY <1>0, <2>2, DispatcherStep
  <2> QED BY <1>1, <2>1, <2>2
<1>3. canceled' = canceled /\ conn'[k] = r /\ \A j \in Conns : j # k => conn'[j] = conn[j]
  BY <1>0, <1>2, MovesType DEF Moves
<1>4. conn[k].serve # "off"
  <2>1. conn[k].serve = "off" => conn[k].disp = "off"
    BY UnopenedShape DEF FeedInv, ShapeInv
  <2> QED
    BY <1>1, <2>1 DEF ReadLoop, Dispatcher, ReadMessage, ReadFails, HandEvent, AbandonBatch,
       EndMessage, CloseDispatch, DecideDrain, Drained, TakeEvent, HandlerReturns, Handling,
       DispatcherExits
<1> QED BY <1>1, <1>2, <1>3, <1>4 DEF ConnStep

(* A connect that succeeds opens the first connection and the only one.    *)
LEMMA OpenMoves ==
  ASSUME FeedInv, NEW c \in Callers, ConnectSucceeds(c)
  PROVE  /\ mine[c] \in Conns /\ conn'[mine[c]] = Opened
         /\ \A j \in Conns : conn[j].serve = "off" /\ (j # mine[c] => conn'[j] = conn[j])
         /\ UNCHANGED <<canceled, arrived>>
<1>0. c \in Actors /\ conn \in [Conns -> Record]
  BY DEF Actors, FeedInv, IInv, TypeOK, ConnTypeOK, Record
<1>1. /\ mine[c] \in Conns /\ mine[c] = tries /\ conn[mine[c]].serve = "off"
      /\ conn' = [conn EXCEPT ![mine[c]] = Opened] /\ UNCHANGED <<canceled, arrived>>
  BY <1>0 DEF FeedInv, IInv, StartInv, Starting, ConnectSucceeds
<1>2. \A j \in Conns : conn[j].serve = "off"
  BY <1>1 DEF FeedInv, IInv, OpenInv
<1> QED BY <1>0, <1>1, <1>2

(* Every other step leaves the connections as they are. *)
Quiet == UNCHANGED <<conn, arrived>> /\ canceled \subseteq canceled'

LEMMA OtherMoves ==
  ASSUME [Next]_vars, \A c \in Callers : ~ConnectSucceeds(c), \A k \in Conns : ~ConnStep(k)
  PROVE  Quiet
<1>1. CASE UNCHANGED vars
  BY <1>1 DEF vars, Quiet
<1>2. CASE \E c \in Callers : Claim(c) \/ ConnectFails(c)
  BY <1>2 DEF Claim, ConnectFails, Quiet
<1>3. CASE \E a \in Actors : StopLooks(a) \/ CallStep(a)
  BY <1>3 DEF StopLooks, CallStep, Release, CloseFailed, StopCancels, StopReturns, Quiet
<1>4. CASE \E k \in Conns : RecordErr(k) \/ CloseServed(k) \/ OwnerCancels(k)
  BY <1>4 DEF RecordErr, CloseServed, OwnerCancels, Quiet
<1> QED BY <1>1, <1>2, <1>3, <1>4 DEF Next

LEMMA InitFeedInv == Init => FeedInv
<1> SUFFICES ASSUME Init PROVE FeedInv
  OBVIOUS
<1>1. \A k \in Conns : ShapeInv(k) /\ DrainInv(k)
  BY UnopenedShape DEF Init, ShapeInv, DrainInv
<1> QED BY <1>1, InitIInv DEF FeedInv

LEMMA NextFeedInv == FeedInv /\ [Next]_vars => FeedInv'
<1> SUFFICES ASSUME FeedInv, [Next]_vars PROVE FeedInv'
  OBVIOUS
<1>1. IInv'
  BY NextIInv DEF FeedInv
<1>2. SUFFICES ASSUME NEW j \in Conns PROVE ShapeInv(j)' /\ DrainInv(j)'
  BY <1>1 DEF FeedInv
<1>3. ShapeInv(j) /\ DrainInv(j)
  BY DEF FeedInv
<1>4. ASSUME NEW k \in Conns, ConnStep(k) PROVE ShapeInv(j)' /\ DrainInv(j)'
  <2>1. CASE j = k
    BY <1>3, <1>4, <2>1, ConnMoves, ConnAppears DEF FeedInv, IInv, TypeOK
  <2>2. CASE j # k
    <3>1. conn'[j] = conn[j] /\ canceled' = canceled /\ conn[k].serve # "off"
      BY <1>4, <2>2, ConnMoves
    <3>2. conn[j].serve = "off"
      BY <2>2, <3>1 DEF FeedInv, IInv, OpenInv
    <3> QED BY <1>3, <3>1, <3>2, ShapeStays
  <2> QED BY <2>1, <2>2
<1>5. ASSUME NEW c \in Callers, ConnectSucceeds(c) PROVE ShapeInv(j)' /\ DrainInv(j)'
  <2>1. CASE j = mine[c]
    BY <1>5, <2>1, OpenMoves, NewShape
  <2>2. CASE j # mine[c]
    BY <1>3, <1>5, <2>2, OpenMoves, ShapeStays
  <2> QED BY <2>1, <2>2
<1>6. CASE Quiet
  BY <1>3, <1>6, ShapeStays DEF Quiet
<1> QED BY <1>4, <1>5, <1>6, OtherMoves

(* The mapped state, seen from the connection that opened.                 *)
InHandlers == {conn[k].event : k \in {j \in Conns : Handling(j)}}

Seen ==
  /\ (\A k \in Conns : conn[k].serve = "off") =>
       Phase = "down" /\ Last = Unopened /\ InHandlers = {}
  /\ \A k \in Conns : conn[k].serve # "off" =>
       /\ Phase = IF Running(k) THEN "up" ELSE IF k \in canceled THEN "stopped" ELSE "down"
       /\ Last = conn[k] /\ InHandlers = InHandler(k)

LEMMA FeedIsSeen == FeedInv => Seen
<1> SUFFICES ASSUME FeedInv PROVE Seen
  OBVIOUS
<1>1. \A k \in Conns : conn[k].serve = "off" => ~Running(k) /\ ~Handling(k)
  <2> SUFFICES ASSUME NEW k \in Conns, conn[k].serve = "off" PROVE ~Running(k) /\ ~Handling(k)
    OBVIOUS
  <2>1. conn[k].disp = "off"
    BY UnopenedShape DEF FeedInv, ShapeInv
  <2> QED BY <2>1 DEF Running, Handling
<1>2. ASSUME \A k \in Conns : conn[k].serve = "off"
      PROVE  Phase = "down" /\ Last = Unopened /\ InHandlers = {}
  <2>1. Opens = {}
    BY <1>2 DEF Opens
  <2> QED BY <1>1, <1>2, <2>1 DEF Phase, Last, InHandlers
<1>3. ASSUME NEW k \in Conns, conn[k].serve # "off"
      PROVE  /\ Phase = IF Running(k) THEN "up" ELSE IF k \in canceled THEN "stopped" ELSE "down"
             /\ Last = conn[k] /\ InHandlers = InHandler(k)
  <2>1. \A j \in Conns : j # k => conn[j].serve = "off"
    BY <1>3 DEF FeedInv, IInv, OpenInv
  <2>2. Opens = {k}
    BY <1>3, <2>1 DEF Opens
  <2>3. Phase = IF Running(k) THEN "up" ELSE IF k \in canceled THEN "stopped" ELSE "down"
    BY <1>1, <2>1, <2>2 DEF Phase
  <2>4. Last = conn[k]
    <3>1. \A j \in {k} : j <= k
      BY ConnsAssumption
    <3>2. (CHOOSE i \in {k} : \A j \in {k} : j <= i) = k
      BY <3>1, Zenon
    <3> QED BY <2>2, <3>2 DEF Last
  <2>5. InHandlers = InHandler(k)
    BY <1>1, <2>1 DEF InHandlers, InHandler
  <2> QED BY <2>3, <2>4, <2>5
<1> QED BY <1>2, <1>3 DEF Seen

FeedStep == [Feed!Next]_(Feed!vars)

LEMMA ConnFeeds == ASSUME FeedInv, Seen, Seen', NEW k \in Conns, ConnStep(k) PROVE FeedStep
<1>0. ConnTypeOK /\ ShapeInv(k) /\ DrainInv(k)
  BY DEF FeedInv, IInv, TypeOK
<1>1. Appears(k) /\ canceled' = canceled /\ conn[k].serve # "off" /\ conn'[k].serve # "off"
  BY <1>0, ConnMoves, ConnAppears
<1>2. /\ Last = conn[k] /\ InHandlers = InHandler(k)
      /\ Phase = IF Running(k) THEN "up" ELSE IF k \in canceled THEN "stopped" ELSE "down"
  BY <1>1 DEF Seen
<1>3. /\ Last' = conn'[k] /\ InHandlers' = InHandler(k)'
      /\ Phase' = IF Running(k)' THEN "up" ELSE IF k \in canceled THEN "stopped" ELSE "down"
  BY <1>1 DEF Seen
<1>4. /\ arrived - Len(Last.batch) = LastQueued(k)
      /\ arrived' - Len(Last'.batch) = LastQueued(k)'
  BY <1>2, <1>3 DEF LastQueued
<1>5. CASE Shows(k, Running(k))
  BY <1>2, <1>3, <1>4, <1>5 DEF Shows, FeedStep, Feed!vars, InHandlers
<1>6. CASE Arrives(k)
  <2>1. Feed!Arrive
    BY <1>2, <1>3, <1>4, <1>6 DEF Arrives, Feed!Arrive, InHandlers
  <2> QED BY <2>1 DEF FeedStep, Feed!Next
<1>7. CASE Begins(k)
  <2>1. Feed!Begin
    BY <1>2, <1>3, <1>4, <1>7 DEF Begins, Feed!Begin, InHandlers
  <2> QED BY <2>1 DEF FeedStep, Feed!Next
<1>8. CASE Finishes(k)
  <2>1. Feed!Finish
    BY <1>2, <1>3, <1>4, <1>8 DEF Finishes, Feed!Finish, InHandlers
  <2> QED BY <2>1 DEF FeedStep, Feed!Next
<1>9. CASE Returns(k)
  <2>1. CASE k \in canceled
    <3>1. Feed!Shut
      BY <1>2, <1>3, <1>4, <1>9, <2>1 DEF Returns, Shows, Feed!Shut, InHandlers
    <3> QED BY <3>1 DEF FeedStep, Feed!Next
  <2>2. CASE k \notin canceled
    <3>1. Feed!Close
      BY <1>2, <1>3, <1>4, <1>9, <2>2 DEF Returns, Shows, Feed!Close, InHandlers
    <3> QED BY <3>1 DEF FeedStep, Feed!Next
  <2> QED BY <2>1, <2>2
<1> QED BY <1>1, <1>5, <1>6, <1>7, <1>8, <1>9 DEF Appears

LEMMA OpenFeeds ==
  ASSUME FeedInv, Seen, Seen', NEW c \in Callers, ConnectSucceeds(c) PROVE FeedStep
<1> DEFINE k == mine[c]
<1>1. /\ k \in Conns /\ conn'[k] = Opened /\ UNCHANGED <<canceled, arrived>>
      /\ \A j \in Conns : conn[j].serve = "off"
  BY OpenMoves
<1>2. Phase = "down" /\ Last = Unopened /\ InHandlers = {}
  BY <1>1 DEF Seen
<1>3. conn'[k].serve = "read" /\ conn'[k].disp = "take"
  BY <1>1, UnopenedShape
<1> HIDE DEF k
<1>4. Phase' = "up" /\ Last' = Opened /\ InHandlers' = {}
  BY <1>1, <1>3 DEF Seen, Running, InHandler, Handling
<1>5. Feed!Open
  BY <1>1, <1>2, <1>4, UnopenedShape DEF Feed!Open, InHandlers
<1> QED BY <1>5 DEF FeedStep, Feed!Next

(* A cancellation may find a connection that has ended: then no other      *)
(* opens.  Nothing else outside the connection shows.                      *)
LEMMA QuietFeeds == ASSUME FeedInv, Seen, Seen', Quiet PROVE FeedStep
<1>1. UNCHANGED <<conn, arrived>> /\ canceled \subseteq canceled'
  BY DEF Quiet
<1>2. InHandlers' = InHandlers
  BY <1>1 DEF InHandlers, Handling
<1>3. CASE \A k \in Conns : conn[k].serve = "off"
  BY <1>1, <1>2, <1>3 DEF Seen, FeedStep, Feed!vars, InHandlers
<1>4. CASE \E k \in Conns : conn[k].serve # "off"
  <2>1. PICK k \in Conns : conn[k].serve # "off"
    BY <1>4
  <2>2. /\ Last' = Last
        /\ Phase = IF Running(k) THEN "up" ELSE IF k \in canceled THEN "stopped" ELSE "down"
        /\ Phase' = IF Running(k) THEN "up" ELSE IF k \in canceled' THEN "stopped" ELSE "down"
    BY <1>1, <2>1 DEF Seen, Running
  <2>3. CASE Phase' = Phase
    BY <1>1, <1>2, <2>2, <2>3 DEF FeedStep, Feed!vars, InHandlers
  <2>4. CASE Phase' # Phase
    <3>1. Phase = "down" /\ Phase' = "stopped"
      BY <1>1, <2>2, <2>4
    <3>2. Feed!Shut
      BY <1>1, <1>2, <2>2, <3>1 DEF Feed!Shut, InHandlers
    <3> QED BY <3>2 DEF FeedStep, Feed!Next
  <2> QED BY <2>3, <2>4
<1> QED BY <1>3, <1>4

LEMMA InitFeed == Init => Feed!Init
<1> SUFFICES ASSUME Init PROVE Feed!Init
  OBVIOUS
<1>1. \A k \in Conns : conn[k].serve = "off"
  BY UnopenedShape DEF Init
<1>2. Phase = "down" /\ Last = Unopened /\ InHandlers = {}
  BY <1>1, InitFeedInv, FeedIsSeen DEF Seen
<1>3. arrived = 0
  BY DEF Init
<1>4. Last.queue = <<>> /\ arrived - Len(Last.batch) = 0
  <2>1. Last.queue = <<>> /\ Last.batch = <<>>
    BY <1>2, UnopenedShape, Zenon
  <2>2. Len(<<>>) = 0
    OBVIOUS
  <2>3. Len(Last.batch) = 0
    BY <2>1, <2>2, Zenon
  <2>4. \A x, y : x = 0 /\ y = 0 => x - y = 0
    OBVIOUS
  <2>5. arrived - Len(Last.batch) = 0
    BY <1>3, <2>3, <2>4, Zenon
  <2> QED BY <2>1, <2>5, Zenon
<1>5. {conn[k].event : k \in {j \in Conns : Handling(j)}} = {}
  BY <1>2 DEF InHandlers
<1> QED BY <1>2, <1>4, <1>5 DEF Feed!Init

(***************************************************************************)
(* Theorems                                                                *)
(***************************************************************************)

(* Every state the listener can reach keeps the invariant. *)
THEOREM Invariance == Spec => []IInv
<1>1. QED
  BY InitIInv, NextIInv, PTL DEF Spec

(* Every variable of module EventListener stays in its range.              *)
THEOREM TypeCorrect == Spec => []TypeOK
<1>1. QED
  BY Invariance, IInvImplies, PTL

(* At most one attempt connects or serves (events.go:128-131).             *)
THEOREM RunsAreExclusive == Spec => []OneRun
<1>1. QED
  BY Invariance, IInvImplies, PTL

(* Once Done is closed, Err is what ended the connection                   *)
(* (events.go:154-161).                                                    *)
THEOREM DoneKeepsTheError == Spec => []DoneTellsWhy
<1>1. QED
  BY Invariance, IInvImplies, PTL

(* A Stop during a connect stops that connect (events.go:133-135).         *)
THEOREM StopReachesTheAttempt == Spec => []StopIsNotLost
<1>1. QED
  BY Invariance, IInvImplies, PTL

(* Events go to their handlers one at a time, in the order they arrived    *)
(* and each at most once, a connection that ends by itself has handed over *)
(* all of them, and a stopped listener opens no other (events.go:28-34,    *)
(* events_signalr.go:259-286): module EventListener implements module      *)
(* EventFeed.                                                              *)
THEOREM FeedIsKept == Spec => ImplementsFeed
<1>1. Spec => []FeedInv
  BY InitFeedInv, NextFeedInv, PTL DEF Spec
<1>2. Spec => []Seen
  BY <1>1, FeedIsSeen, PTL
<1>3. FeedInv /\ Seen /\ Seen' /\ [Next]_vars => [Feed!Next]_(Feed!vars)
  BY ConnFeeds, OpenFeeds, QuietFeeds, OtherMoves DEF FeedStep
<1> QED
  BY <1>1, <1>2, <1>3, InitFeed, PTL DEF Spec, ImplementsFeed, Feed!Spec
=============================================================================
