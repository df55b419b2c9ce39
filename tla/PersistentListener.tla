------------------------- MODULE PersistentListener -------------------------
(***************************************************************************)
(* The reconnecting event listener (events.go:199-344) over the live       *)
(* connections of module EventServe, and the session that authorizes it    *)
(* (userEventConn, events.go:346-373).                                     *)
(*                                                                         *)
(* One goroutine runs the loop: it looks at its context, asks the session  *)
(* for an authorization, dials, serves, and waits before it tries again.   *)
(* Every connection lives under the one context that Stop cancels.  An A2A *)
(* listener (events.go:389-406) is the same with a session that can only   *)
(* be closed.                                                              *)
(***************************************************************************)
EXTENDS EventServe

CONSTANTS
  Callers,  \* goroutines that call Start and Stop
  MaxLevel  \* the attempt from which reconnectBackoff is at its cap

ASSUME MaxLevelAssumption == MaxLevel \in Nat /\ MaxLevel >= 6

VARIABLES
  session,  \* the owning session: "live", "ended" (Logout) or "closed"
  loop,     \* where run is; "off" before Start
  attempt,  \* run's attempt, up to MaxLevel
  rested,   \* history: no dial since the loop last slept a whole wait
  last,     \* history: the last wait since a connection, in seconds; 0 if none
  opens,    \* connections opened so far; bounded by Conns
  late,     \* history: connections opened after the session ended
  err,      \* l.err
  done,     \* whether l.done is closed
  pc        \* where each goroutine is in Stop

connVars == <<conn, arrived>>
pace     == <<attempt, rested, last>>
loopVars == <<loop, pace, opens, late, err, done>>
vars     == <<connVars, canceled, session, loopVars, pc>>

Owner == INSTANCE EventSession

(* The handler that connection k runs acts as the goroutine k. *)
Actors == Callers \cup Conns

Stopping == canceled # {}
Serving  == opens > 0 /\ Running(opens)

Init ==
  /\ conn = [k \in Conns |-> Unopened]
  /\ canceled = {}
  /\ arrived = 0
  /\ Owner!Init
  /\ loop = "off"
  /\ attempt = 0
  /\ rested = TRUE
  /\ last = 0
  /\ opens = 0
  /\ late = 0
  /\ err = Nil
  /\ done = FALSE
  /\ pc = [a \in Actors |-> "idle"]

Go(l) ==
  /\ loop' = l
  /\ UNCHANGED <<opens, late, done>>

(* Seconds to wait: doubled each time, a minute at most; the jitter of a    *)
(* quarter either way is left out.                                         *)
reconnectBackoff(n) == IF n < 6 THEN <<1, 2, 4, 8, 16, 32>>[n + 1] ELSE 60

(***************************************************************************)
(* Start and the loop.                                                     *)
(***************************************************************************)
(* A second Start returns ErrAlreadyStarted: started is never reset. *)
Start(c) ==
  /\ pc[c] = "idle"
  /\ loop = "off"
  /\ Go("check")
  /\ UNCHANGED <<connVars, canceled, session, pace, err, pc>>

CheckContext ==
  /\ loop = "check"
  /\ Go(IF Stopping THEN "exit" ELSE "auth")
  /\ UNCHANGED <<connVars, canceled, session, pace, err, pc>>

Terminal == [live |-> Nil, ended |-> "not-authenticated", closed |-> "closed"]

\* Mutant: a gone session is retried like any failed connect.
AuthorizeTransient ==
  /\ loop = "auth"
  /\ Go(IF session = "live" THEN "dial" ELSE "sleep")
  /\ UNCHANGED <<connVars, canceled, session, pace, err, pc>>

\* Mutant: the authorization captured at the start is used for ever.
AuthorizeCached ==
  /\ loop = "auth"
  /\ Go("dial")
  /\ UNCHANGED <<connVars, canceled, session, pace, err, pc>>

(* eventConn.auth; without a session the loop ends for good. *)
Authorize ==
  /\ loop = "auth"
  /\ Go(IF session = "live" THEN "dial" ELSE "exit")
  /\ err' = Terminal[session]
  /\ UNCHANGED <<connVars, canceled, session, pace, pc>>

(* Negotiate, upgrade and handshake; they may outlast the session. *)
DialSucceeds ==
  /\ loop = "dial"
  /\ opens + 1 \in Conns
  /\ conn' = [conn EXCEPT ![opens + 1] = Opened]
  /\ opens' = opens + 1
  /\ late' = IF session = "live" THEN late ELSE late + 1
  /\ attempt' = 0
  /\ rested' = FALSE
  /\ last' = 0
  /\ loop' = "serve"
  /\ UNCHANGED <<canceled, arrived, session, err, done, pc>>

\* Mutant: a failed dial is retried at once.
DialFailsAtOnce ==
  /\ loop = "dial"
  /\ Go(IF Stopping THEN "exit" ELSE "check")
  /\ rested' = FALSE
  /\ UNCHANGED <<connVars, canceled, session, attempt, last, err, pc>>

(* Any other failure, a refused token (401) included, is transient; a done  *)
(* context is one.                                                         *)
DialFails ==
  /\ loop = "dial"
  /\ Go(IF Stopping THEN "exit" ELSE "sleep")
  /\ rested' = FALSE
  /\ UNCHANGED <<connVars, canceled, session, attempt, last, err, pc>>

(* The transports of a closed client hand out no pool. *)
DialClosed ==
  /\ loop = "dial"
  /\ session = "closed"
  /\ err' = "closed"
  /\ Go("exit")
  /\ UNCHANGED <<connVars, canceled, session, pace, pc>>

\* Mutant: the end of a connection ends the loop.
ServeReturnsForGood ==
  /\ loop = "serve"
  /\ conn[opens].serve = "returned"
  /\ Go("exit")
  /\ UNCHANGED <<connVars, canceled, session, pace, err, pc>>

ServeReturns ==
  /\ loop = "serve"
  /\ conn[opens].serve = "returned"
  /\ Go(IF Stopping THEN "exit" ELSE "sleep")
  /\ UNCHANGED <<connVars, canceled, session, pace, err, pc>>

(* The timer fires, or the context ends the wait. *)
Wake ==
  /\ loop = "sleep"
  /\ Go("check")
  /\ rested' \in BOOLEAN /\ (rested' = TRUE \/ Stopping)
  /\ last' = reconnectBackoff(attempt)
  /\ attempt' = IF attempt < MaxLevel THEN attempt + 1 ELSE attempt
  /\ UNCHANGED <<connVars, canceled, session, err, pc>>

CloseDone ==
  /\ loop = "exit"
  /\ loop' = "gone"
  /\ done' = TRUE
  /\ UNCHANGED <<connVars, canceled, session, pace, opens, late, err, pc>>

(***************************************************************************)
(* Stop, by a caller or by a handler.                                      *)
(***************************************************************************)
MayStop(a) ==
  /\ pc[a] \in {"idle", "stopped"}
  /\ a \in Conns => Handling(a)

(* Before Start there is neither cancel nor done. *)
StopCancels(a) ==
  /\ MayStop(a)
  /\ pc' = [pc EXCEPT ![a] = IF loop = "off" THEN "stopped" ELSE "await"]
  /\ canceled' = IF loop = "off" THEN canceled ELSE Conns
  /\ UNCHANGED <<connVars, session, pace, err, loop, opens, late, done>>

StopReturns(a) ==
  /\ pc[a] = "await"
  /\ done
  /\ pc' = [pc EXCEPT ![a] = "stopped"]
  /\ UNCHANGED <<connVars, canceled, session, loopVars>>

(***************************************************************************)
(* The environment: the context of Start ends; the client logs out, or it  *)
(* or the A2A context is closed (module EventSession).                     *)
(***************************************************************************)
OwnerCancels ==
  /\ loop # "off"
  /\ canceled' = Conns
  /\ UNCHANGED <<connVars, session, loopVars, pc>>

EndSession ==
  /\ Owner!End
  /\ UNCHANGED <<connVars, canceled, loopVars, pc>>

-----------------------------------------------------------------------------
FinishHandler(k) == pc[k] # "await" /\ HandlerReturns(k)

ServeStep(k) ==
  \/ HandEvent(k) \/ AbandonBatch(k) \/ EndMessage(k) \/ CloseDispatch(k)
  \/ DecideDrain(k) \/ Drained(k)
DispatchStep(k) == TakeEvent(k) \/ FinishHandler(k) \/ DispatcherExits(k)

Elsewhere == UNCHANGED <<session, loopVars, pc>>

ConnStep(k) ==
  /\ ReadMessage(k) \/ ReadFails(k) \/ ServeStep(k) \/ DispatchStep(k)
  /\ Elsewhere

LoopRuns == CheckContext \/ Authorize \/ ServeReturns \/ Wake \/ CloseDone
LoopStep == LoopRuns \/ DialFails \/ DialClosed

Next ==
  \/ \E c \in Callers : Start(c)
  \/ \E a \in Actors : StopCancels(a) \/ StopReturns(a)
  \/ \E k \in Conns : ConnStep(k)
  \/ LoopStep \/ DialSucceeds \/ OwnerCancels \/ EndSession

Spec == Init /\ [][Next]_vars

(* Goroutines are scheduled, timers fire and handlers return; a done        *)
(* context ends a pending read or dial.  Nothing else ends a dial: the     *)
(* client of a websocket has no timeout (transport.go:228-246), and the    *)
(* handshake reads under the context alone (events_signalr.go:225).        *)
FairSpec ==
  /\ Spec
  /\ WF_vars(LoopRuns)
  /\ WF_vars(Stopping /\ DialFails)
  /\ \A a \in Actors : WF_vars(StopReturns(a))
  /\ \A k \in Conns :
       /\ WF_vars(ServeStep(k) /\ Elsewhere)
       /\ WF_vars(DispatchStep(k) /\ Elsewhere)
       /\ SF_vars(k \in canceled /\ ReadFails(k) /\ Elsewhere)

(* What the code cannot enforce: no handler waits for ever (one that calls  *)
(* Stop may), the appliance leaves no dial hanging, and does not refuse    *)
(* every dial for ever.                                                    *)
HandlersReturn == \A k \in Conns : []<>(pc[k] # "await")
DialsEnd       == WF_vars(DialFails \/ DialSucceeds \/ DialClosed)
Reachable      == SF_vars(DialSucceeds)

-----------------------------------------------------------------------------
(***************************************************************************)
(* Properties                                                              *)
(***************************************************************************)

(* Every variable stays in its range. *)
TypeOK ==
  /\ ConnTypeOK
  /\ session \in {"live", "ended", "closed"}
  /\ loop \in {"off", "check", "auth", "dial", "serve", "sleep", "exit", "gone"}
  /\ attempt \in 0..MaxLevel
  /\ rested \in BOOLEAN
  /\ last \in 0..60
  /\ opens \in Conns \cup {0}
  /\ late \in 0..opens
  /\ err \in {Nil, "not-authenticated", "closed"}
  /\ done \in BOOLEAN
  /\ pc \in [Actors -> {"idle", "await", "stopped"}]

(* A listener never reconnects under a session that is gone: at most the   *)
(* dial already under way gets through (events.go:199-203, 260-266).       *)
OneLateConnection == late <= 1

(* Done closes for a reason that Err tells: a terminal error is reported   *)
(* exactly when the session is gone, and none only after a cancellation    *)
(* (events.go:225-229, 323-336).                                           *)
DoneHasAReason ==
  loop \in {"exit", "gone"} =>
    IF err = Nil THEN Stopping ELSE session # "live" /\ ~Serving

(* The loop backs off on every path: after its first dial, failed or not,  *)
(* it does not dial again before it slept a whole wait; the first wait     *)
(* after a connection is a second, and each further one twice the one      *)
(* before it, a minute at most (events.go:267-288,                         *)
(* events_signalr.go:434-449).                                             *)
Longer(d) == IF d = 0 THEN 1 ELSE IF 2 * d > 60 THEN 60 ELSE 2 * d

BacksOff ==
  [][/\ loop # "dial" /\ loop' = "dial" => rested
     /\ loop = "sleep" /\ loop' # "sleep" => last' = Longer(last)]_vars

(* Module PersistentListener keeps the promise of module EventFeed over    *)
(* all its connections: handlers of an old connection are drained before   *)
(* the next one opens.                                                     *)
Latest == IF opens = 0 THEN Unopened ELSE conn[opens]

Phase ==
  IF Serving THEN "up"
  ELSE IF \/ loop \in {"exit", "gone"}
          \/ loop = "serve" /\ Stopping
       THEN "stopped"
  ELSE "down"

Feed == INSTANCE EventFeed WITH
  phase <- Phase,
  queue <- Latest.queue,
  handling <- {conn[k].event : k \in {j \in Conns : Handling(j)}},
  last <- arrived - Len(Latest.batch)

ImplementsFeed == Feed!Spec

(* Stop waits for the loop to end, and it does, wherever the loop was,     *)
(* provided handlers return (events.go:307-321).                           *)
StopEnds ==
  HandlersReturn => \A c \in Callers : pc[c] = "await" ~> pc[c] = "stopped"

(* Once the session is gone the loop ends for good, unless a connection is *)
(* still up, or the appliance leaves the dial under way hanging: the end   *)
(* of the session does not cancel it (events.go:258-265).                  *)
SessionEndsLoop ==
  HandlersReturn /\ DialsEnd =>
    (session # "live" /\ loop # "off" ~> loop = "gone" \/ Serving)

(* Both: the loop ends whoever ends it.                                    *)
LoopEnds == StopEnds /\ SessionEndsLoop

(* A dropped connection is replaced until a stop or the end of the session *)
(* (events.go:225-228), when the appliance can be reached.                 *)
Reconnects ==
  HandlersReturn /\ Reachable =>
    \A k \in Conns : k + 1 \in Conns =>
      (conn[k].serve = "defer" ~> opens > k \/ loop = "gone")
=============================================================================
