--------------------------- MODULE EventListener ----------------------------
(***************************************************************************)
(* The single-connection event listener (events.go:87-197): goroutines     *)
(* that call Start and Stop, one connection per attempt to start, and      *)
(* handlers that may call Stop themselves.                                 *)
(*                                                                         *)
(* A step is one critical section of l.mu, one cancel, one close of done,  *)
(* or one step of the connection (module EventServe).  The attempts are    *)
(* numbered; attempt k owns the k-th runCtx, done channel and connection.  *)
(***************************************************************************)
EXTENDS EventServe

CONSTANT Callers  \* goroutines that call Start and Stop

VARIABLES
  started,    \* l.started
  published,  \* the attempt whose cancel and done are in l, 0 for nil
  tries,      \* attempts made
  done,       \* attempts whose done channel is closed
  served,     \* attempts whose goroutine recorded what serve returned
  err,        \* l.err
  pc,         \* where each goroutine is in Start or Stop
  mine,       \* the attempt its Start owns or its Stop found, 0 for nil
  saw         \* the attempt that was claimed when its Stop looked

listenerVars == <<started, published, tries, done, served, err>>
callVars     == <<pc, mine, saw>>
connVars     == <<conn, canceled, arrived>>
vars         == <<connVars, listenerVars, callVars>>

NoTry == 0

(* The handler that connection k runs acts as the goroutine k. *)
Actors == Callers \cup Conns

Free(a) == pc[a] \in {"idle", "stopped"}

Init ==
  /\ conn = [k \in Conns |-> Unopened]
  /\ canceled = {}
  /\ arrived = 0
  /\ started = FALSE
  /\ published = NoTry
  /\ tries = 0
  /\ done = {}
  /\ served = {}
  /\ err = Nil
  /\ pc = [a \in Actors |-> "idle"]
  /\ mine = [a \in Actors |-> NoTry]
  /\ saw = [a \in Actors |-> NoTry]

Goto(a, l) ==
  /\ pc' = [pc EXCEPT ![a] = l]
  /\ UNCHANGED <<mine, saw>>

(***************************************************************************)
(* Start                                                                   *)
(***************************************************************************)
\* Mutant: cancel and done are published only after the connect.
ClaimOnly(c) ==
  /\ Free(c)
  /\ ~started
  /\ tries + 1 \in Conns
  /\ started' = TRUE
  /\ tries' = tries + 1
  /\ pc' = [pc EXCEPT ![c] = "connect"]
  /\ mine' = [mine EXCEPT ![c] = tries + 1]
  /\ UNCHANGED <<published, done, served, err, saw, connVars>>

\* Mutant: a second Start is not turned away.
ClaimTwice(c) ==
  /\ Free(c)
  /\ tries + 1 \in Conns
  /\ started' = TRUE
  /\ tries' = tries + 1
  /\ published' = tries + 1
  /\ pc' = [pc EXCEPT ![c] = "connect"]
  /\ mine' = [mine EXCEPT ![c] = tries + 1]
  /\ UNCHANGED <<done, served, err, saw, connVars>>

(* A Start that finds the listener started returns ErrAlreadyStarted and   *)
(* changes nothing.                                                        *)
Claim(c) ==
  /\ Free(c)
  /\ ~started
  /\ tries + 1 \in Conns
  /\ started' = TRUE
  /\ tries' = tries + 1
  /\ published' = tries + 1
  /\ pc' = [pc EXCEPT ![c] = "connect"]
  /\ mine' = [mine EXCEPT ![c] = tries + 1]
  /\ UNCHANGED <<done, served, err, saw, connVars>>

ConnectSucceeds(c) ==
  /\ pc[c] = "connect"
  /\ conn' = [conn EXCEPT ![mine[c]] = Opened]
  /\ Goto(c, "idle")
  /\ UNCHANGED <<canceled, arrived, listenerVars>>

ConnectFails(c) ==
  /\ pc[c] = "connect"
  /\ canceled' = canceled \cup {mine[c]}
  /\ Goto(c, "release")
  /\ UNCHANGED <<conn, arrived, listenerVars>>

Release(c) ==
  /\ pc[c] = "release"
  /\ started' = FALSE
  /\ published' = NoTry
  /\ Goto(c, "close")
  /\ UNCHANGED <<tries, done, served, err, connVars>>

\* Mutant: a failed Start leaves done open.
CloseNothing(c) ==
  /\ pc[c] = "close"
  /\ Goto(c, "idle")
  /\ UNCHANGED <<listenerVars, connVars>>

CloseFailed(c) ==
  /\ pc[c] = "close"
  /\ done' = done \cup {mine[c]}
  /\ Goto(c, "idle")
  /\ UNCHANGED <<started, published, tries, served, err, connVars>>

(***************************************************************************)
(* The goroutine that serves the connection.                               *)
(***************************************************************************)
RecordErr(k) ==
  /\ conn[k].serve = "returned"
  /\ k \notin served
  /\ served' = served \cup {k}
  /\ err' = conn[k].res
  /\ UNCHANGED <<connVars, started, published, tries, done, callVars>>

\* Mutant: done is closed before the error is recorded.
CloseEarly(k) ==
  /\ conn[k].serve = "returned"
  /\ k \notin done
  /\ canceled' = canceled \cup {k}
  /\ done' = done \cup {k}
  /\ UNCHANGED <<conn, arrived, started, published, tries, served, err, callVars>>

CloseServed(k) ==
  /\ k \in served
  /\ k \notin done
  /\ canceled' = canceled \cup {k}
  /\ done' = done \cup {k}
  /\ UNCHANGED <<conn, arrived, started, published, tries, served, err, callVars>>

(***************************************************************************)
(* Stop: read cancel and done, cancel, wait for done.                      *)
(***************************************************************************)
MayStop(a) ==
  /\ Free(a)
  /\ a \in Conns => Handling(a)

StopLooks(a) ==
  /\ MayStop(a)
  /\ pc' = [pc EXCEPT ![a] = IF published = NoTry THEN "stopped" ELSE "cancel"]
  /\ mine' = [mine EXCEPT ![a] = published]
  /\ saw' = [saw EXCEPT ![a] = IF started THEN tries ELSE NoTry]
  /\ UNCHANGED <<listenerVars, connVars>>

StopCancels(a) ==
  /\ pc[a] = "cancel"
  /\ canceled' = canceled \cup {mine[a]}
  /\ Goto(a, "await")
  /\ UNCHANGED <<conn, arrived, listenerVars>>

StopReturns(a) ==
  /\ pc[a] = "await"
  /\ mine[a] \in done
  /\ Goto(a, "stopped")
  /\ UNCHANGED <<listenerVars, connVars>>

(* The context given to Start ends. *)
OwnerCancels(k) ==
  /\ k \in 1..tries
  /\ canceled' = canceled \cup {k}
  /\ UNCHANGED <<conn, arrived, listenerVars, callVars>>

(***************************************************************************)
(* Next-state relation                                                     *)
(***************************************************************************)
FinishHandler(k) == Free(k) /\ HandlerReturns(k)

(* Steps of the connection's goroutines that wait for nobody outside. *)
ServeStep(k) ==
  \/ HandEvent(k) \/ AbandonBatch(k) \/ EndMessage(k) \/ CloseDispatch(k)
  \/ DecideDrain(k) \/ Drained(k)
DispatchStep(k) == TakeEvent(k) \/ FinishHandler(k) \/ DispatcherExits(k)

ConnStep(k) ==
  /\ ReadMessage(k) \/ ReadFails(k) \/ ServeStep(k) \/ DispatchStep(k)
  /\ UNCHANGED <<listenerVars, callVars>>

CallStep(a) == Release(a) \/ CloseFailed(a) \/ StopCancels(a) \/ StopReturns(a)

Next ==
  \/ \E c \in Callers : Claim(c) \/ ConnectSucceeds(c) \/ ConnectFails(c)
  \/ \E a \in Actors : StopLooks(a) \/ CallStep(a)
  \/ \E k \in Conns : ConnStep(k) \/ RecordErr(k) \/ CloseServed(k) \/ OwnerCancels(k)

Spec == Init /\ [][Next]_vars

(* Goroutines are scheduled, handlers return, and a done context ends a    *)
(* connect and, by closing the connection, every later read.               *)
FairSpec ==
  /\ Spec
  /\ \A a \in Actors : WF_vars(CallStep(a))
  /\ \A c \in Callers : WF_vars(mine[c] \in canceled /\ ConnectFails(c))
  /\ \A k \in Conns :
       /\ WF_vars(RecordErr(k) \/ CloseServed(k))
       /\ WF_vars(ServeStep(k) /\ UNCHANGED <<listenerVars, callVars>>)
       /\ WF_vars(DispatchStep(k) /\ UNCHANGED <<listenerVars, callVars>>)
       /\ SF_vars(k \in canceled /\ ReadFails(k) /\ UNCHANGED <<listenerVars, callVars>>)

-----------------------------------------------------------------------------
(***************************************************************************)
(* Properties                                                              *)
(***************************************************************************)

(* Every variable stays in its range. *)
TypeOK ==
  /\ ConnTypeOK
  /\ started \in BOOLEAN
  /\ tries \in Conns \cup {NoTry}
  /\ published \in {NoTry, tries}
  /\ done \subseteq 1..tries
  /\ served \subseteq 1..tries
  /\ err \in {Nil, "event-read"}
  /\ pc \in [Actors -> {"idle", "connect", "release", "close", "cancel",
                         "await", "stopped"}]
  /\ mine \in [Actors -> Conns \cup {NoTry}]
  /\ saw \in [Actors -> Conns \cup {NoTry}]

Connecting(k) == \E c \in Callers : pc[c] = "connect" /\ mine[c] = k
Serving(k)    == conn[k].serve # "off" /\ k \notin done

(* A concurrent Start cannot also proceed (events.go:128-131): at most one *)
(* attempt connects or serves at any time, and only while the listener is  *)
(* marked started.                                                         *)
OneRun ==
  \A j, k \in Conns :
    /\ Connecting(j) \/ Serving(j)
    /\ Connecting(k) \/ Serving(k)
    => j = k /\ started

(* Once Done is closed, Err reports what ended the connection, and keeps   *)
(* reporting it (events.go:114-118, 154-161, 183-197).                     *)
DoneTellsWhy ==
  \A k \in done : conn[k].serve # "off" =>
    conn[k].serve = "returned" /\ err = conn[k].res

(* A Stop issued while the connect is in flight is not lost                *)
(* (events.go:133-135): when it returns, the attempt that was claimed as   *)
(* it looked neither connects nor serves.                                  *)
StopIsNotLost ==
  \A c \in Callers :
    pc[c] = "stopped" /\ saw[c] # NoTry => ~Connecting(saw[c]) /\ ~Serving(saw[c])

(* Module EventListener keeps the promise of module EventFeed.  At most    *)
(* one attempt opens a connection.                                         *)
Opens == {k \in Conns : conn[k].serve # "off"}
Last  == IF Opens = {} THEN Unopened ELSE conn[CHOOSE k \in Opens : \A j \in Opens : j <= k]

Phase == IF \E k \in Conns : Running(k) THEN "up"
         ELSE IF \E k \in Opens : k \in canceled THEN "stopped"
         ELSE "down"

Feed == INSTANCE EventFeed WITH
  phase <- Phase,
  queue <- Last.queue,
  handling <- {conn[k].event : k \in {j \in Conns : Handling(j)}},
  last <- arrived - Len(Last.batch)

ImplementsFeed == Feed!Spec

(* No handler waits for ever; one that calls Stop may (HandlerStopEnds).   *)
HandlersReturn == \A k \in Conns : []<>(pc[k] # "await")

(* Stop waits for the listener to stop, and that happens, provided the     *)
(* handlers return (events.go:165-181).                                    *)
StopEnds ==
  HandlersReturn => \A c \in Callers : pc[c] = "cancel" ~> pc[c] = "stopped"

(* A listener that was cancelled or whose connection ended closes Done     *)
(* (events.go:183-185), provided the handlers return.                      *)
EndReachesDone ==
  HandlersReturn => \A k \in Conns : conn[k].serve = "defer" ~> k \in done

(* Both: the listener ends wherever it was told to.                        *)
ListenerEnds == StopEnds /\ EndReachesDone

(***************************************************************************)
(* A statement of the comments that the code does not keep.                *)
(***************************************************************************)

(* events.go:167-169: Stop may be called "from within an event handler (a  *)
(* handler that calls Stop does not deadlock: the read loop that closes    *)
(* Done runs on a separate goroutine and is not blocked by the handler)".  *)
HandlerStopEnds == \A k \in Conns : pc[k] = "await" ~> pc[k] = "stopped"
=============================================================================
