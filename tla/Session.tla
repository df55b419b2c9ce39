------------------------------ MODULE Session ------------------------------
(***************************************************************************)
(* The authentication session of one safeguard-go Client: the atomically   *)
(* swapped token cell (token.go), the single-flight refresh and the 401    *)
(* replay policy (refresh.go), and the calls that move them: Connect,      *)
(* Invoke / Stream / Download / Upload, RefreshToken,                      *)
(* TokenLifetimeRemaining, Logout and Close (client.go, connect.go,        *)
(* invoke.go, stream.go).                                                  *)
(*                                                                         *)
(* Each caller is a goroutine that runs one call at a time.  A step is one *)
(* atomic access of the code to shared state: an atomic load, swap or      *)
(* compare-and-swap of the cell, one critical section of refresh.mu or     *)
(* transports.mu, a close of op.done, or one answer of the appliance.      *)
(***************************************************************************)
EXTENDS Naturals

CONSTANTS
  Callers,    \* goroutines that share the client
  MaxCalls,   \* bound: calls made on the client in one behaviour
  CallKinds,  \* the kinds of calls they make
  Expirable   \* tokens (numbered in the order they are minted) the
              \* appliance may stop accepting on its own

Kinds == {"invoke", "upload", "lifetime", "refresh", "logout", "close"}

ASSUME MaxCallsAssumption == MaxCalls \in Nat
ASSUME CallKindsAssumption == CallKinds \subseteq Kinds
ASSUME ExpirableAssumption == Expirable \subseteq Nat

VARIABLES
  connect,           \* progress of Connect
  cell,              \* Client.token, the published tokenState
  closed,            \* Client.closed
  transportsClosed,  \* transportSet.closed
  inflight,          \* refreshCoordinator.inflight, an index of ops, 0 for nil
  ops,               \* the refreshOps created so far, by creation order
  nops,              \* how many refreshOps were created
  pc,                \* where each caller is
  kind,              \* the call each caller runs
  joined,            \* the refreshOp the call leads or waits for, 0 for none
  frame,             \* the other locals of the call, gone when it returns
  res,               \* error value in hand, and the result once pc is "idle"
  calls,             \* calls made so far
  minted,            \* tokens the appliance has issued
  valid,             \* tokens the appliance accepts
  zeroed             \* tokens whose bytes the client wiped

sessionVars   == <<connect, cell, closed, transportsClosed>>
refreshVars   == <<inflight, ops, nops>>
callVars      == <<kind, joined, calls>>
applianceVars == <<minted, valid, zeroed>>
vars == <<sessionVars, refreshVars, pc, res, frame, callVars, applianceVars>>

(***************************************************************************)
(* Values                                                                  *)
(***************************************************************************)
NoToken == 0
NoOp    == 0
Nil     == "nil"    \* the nil error

(* Error values and outcomes a call may end with. *)
Results == {Nil, "ok", "401", "transport", "login", "canceled", "ErrClosed",
            "ErrNotAuthenticated", "ErrNotRefreshable"}

Labels == {"idle", "check", "lifetime", "reenter", "load", "build",
           "dispatch", "flight", "classify", "enter", "wait", "login",
           "loginFlight", "publish", "cas", "settle", "done", "logout",
           "revoke", "revoking", "swap", "drain"}

(* A tokenState.  An anonymous session is one without a token: every       *)
(* constructor of tokenState sets anonymous exactly when it sets no token. *)
State(e, g, t, r) ==
  [epoch |-> e, generation |-> g, token |-> t, refreshable |-> r]

Fresh == State(1, 0, NoToken, FALSE)   \* newClient
Ended == State(0, 0, NoToken, FALSE)   \* Logout and Close

Anonymous(s) == s.token = NoToken
Version(s)   == [epoch |-> s.epoch, generation |-> s.generation]

(* The locals of a call: seen is the (epoch, generation) it loaded first,  *)
(* auth the tokenState its request took the Authorization header from,     *)
(* sent the number of requests it has put on the wire, fresh the token its *)
(* login returned, ctxDone whether its context is done.                    *)
EmptyFrame == [seen |-> Version(Fresh), auth |-> Fresh, sent |-> 0,
               fresh |-> NoToken, ctxDone |-> FALSE]

OpIds == 1..MaxCalls
UnusedOp == [generation |-> 0, err |-> Nil, done |-> FALSE]

(* Labels between a refreshOp's creation and the end of doRefresh, and     *)
(* those of the goroutine that leads the refresh.                          *)
RunningLabels == {"login", "loginFlight", "publish", "cas"}
LeaderLabels  == RunningLabels \cup {"settle"}

Replayable(c) == kind[c] # "upload"

(***************************************************************************)
(* Step vocabulary                                                         *)
(***************************************************************************)
Goto(c, l) ==
  /\ pc' = [pc EXCEPT ![c] = l]
  /\ UNCHANGED <<res, frame>>

GotoWith(c, l, f) ==
  /\ pc' = [pc EXCEPT ![c] = l]
  /\ frame' = [frame EXCEPT ![c] = f]
  /\ UNCHANGED res

Return(c, r) ==
  /\ pc' = [pc EXCEPT ![c] = "idle"]
  /\ res' = [res EXCEPT ![c] = r]
  /\ frame' = [frame EXCEPT ![c] = EmptyFrame]

Fail(c, err) ==    \* doRefresh returns err to its leader
  /\ pc' = [pc EXCEPT ![c] = "settle"]
  /\ res' = [res EXCEPT ![c] = err]
  /\ UNCHANGED frame

Init ==
  /\ connect = "establishing"
  /\ cell = Fresh
  /\ closed = FALSE
  /\ transportsClosed = FALSE
  /\ inflight = NoOp
  /\ ops = [i \in OpIds |-> UnusedOp]
  /\ nops = 0
  /\ pc = [c \in Callers |-> "idle"]
  /\ kind = [c \in Callers |-> "invoke"]
  /\ joined = [c \in Callers |-> NoOp]
  /\ frame = [c \in Callers |-> EmptyFrame]
  /\ res = [c \in Callers |-> Nil]
  /\ calls = 0
  /\ minted = 0
  /\ valid = {}
  /\ zeroed = {}

(***************************************************************************)
(* Connect.  The client is not shared until Connect returns, so a          *)
(* successful login with installSession, and a failed one with Close, are  *)
(* one step each.                                                          *)
(***************************************************************************)
ConnectWithToken ==
  /\ connect = "establishing"
  /\ connect' = "ready"
  /\ minted' = 1
  /\ valid' = {1}
  /\ \E r \in BOOLEAN : cell' = State(cell.epoch, cell.generation + 1, 1, r)
  /\ UNCHANGED <<closed, transportsClosed, refreshVars, pc, res, frame, callVars,
                 zeroed>>

ConnectAnonymous ==
  /\ connect = "establishing"
  /\ connect' = "ready"
  /\ cell' = State(cell.epoch, cell.generation + 1, NoToken, FALSE)
  /\ UNCHANGED <<closed, transportsClosed, refreshVars, pc, res, frame, callVars,
                 applianceVars>>

ConnectFails ==
  /\ connect = "establishing"
  /\ connect' = "failed"
  /\ closed' = TRUE
  /\ cell' = Ended
  /\ transportsClosed' = TRUE
  /\ UNCHANGED <<refreshVars, pc, res, frame, callVars, applianceVars>>

(***************************************************************************)
(* Starting a call: every entry point but Close returns ErrClosed on a     *)
(* closed client.                                                          *)
(***************************************************************************)
Entry(k) == CASE k \in {"invoke", "upload"} -> "load"
              [] k = "lifetime" -> "lifetime"
              [] k = "refresh"  -> "check"
              [] k = "logout"   -> "logout"
              [] k = "close"    -> "swap"

Start(c, l) ==
  /\ pc' = [pc EXCEPT ![c] = l]
  /\ res' = [res EXCEPT ![c] = Nil]
  /\ UNCHANGED frame

NewCall(c, k) ==
  /\ connect = "ready"
  /\ pc[c] = "idle"
  /\ calls < MaxCalls
  /\ calls' = calls + 1
  /\ kind' = [kind EXCEPT ![c] = k]
  /\ joined' = [joined EXCEPT ![c] = NoOp]

Begin(c, k) ==
  /\ k # "close"
  /\ NewCall(c, k)
  /\ IF closed THEN Return(c, "ErrClosed") ELSE Start(c, Entry(k))
  /\ UNCHANGED <<sessionVars, refreshVars, applianceVars>>

BeginClose(c) ==
  /\ "close" \in CallKinds
  /\ NewCall(c, "close")
  /\ closed' = TRUE
  /\ IF closed THEN Return(c, Nil) ELSE Start(c, Entry("close"))
  /\ UNCHANGED <<connect, cell, transportsClosed, refreshVars, applianceVars>>

(***************************************************************************)
(* TokenLifetimeRemaining: a first look at the session, then a GET.        *)
(***************************************************************************)
CheckLifetime(c) ==
  /\ pc[c] = "lifetime"
  /\ IF Anonymous(cell)
       THEN Return(c, "ErrNotAuthenticated")
       ELSE Goto(c, "reenter")
  /\ UNCHANGED <<sessionVars, refreshVars, callVars, applianceVars>>

ReenterInvoke(c) ==
  /\ pc[c] = "reenter"
  /\ IF closed THEN Return(c, "ErrClosed") ELSE Goto(c, "load")
  /\ UNCHANGED <<sessionVars, refreshVars, callVars, applianceVars>>

(***************************************************************************)
(* send: load the cell, build the request (which loads the cell again),    *)
(* look the transport up, wait for the answer, and replay at most once.    *)
(***************************************************************************)
LoadObserved(c) ==
  /\ pc[c] = "load"
  /\ GotoWith(c, "build", [frame[c] EXCEPT !.seen = Version(cell)])
  /\ UNCHANGED <<sessionVars, refreshVars, callVars, applianceVars>>

BuildRequest(c) ==
  /\ pc[c] = "build"
  /\ GotoWith(c, "dispatch", [frame[c] EXCEPT !.auth = cell])
  /\ UNCHANGED <<sessionVars, refreshVars, callVars, applianceVars>>

Dispatch(c) ==
  /\ pc[c] = "dispatch"
  /\ ~transportsClosed
  /\ ~frame[c].ctxDone
  /\ GotoWith(c, "flight", [frame[c] EXCEPT !.sent = @ + 1])
  /\ UNCHANGED <<sessionVars, refreshVars, callVars, applianceVars>>

DispatchFails(c) ==
  /\ pc[c] = "dispatch"
  /\ \/ transportsClosed  /\ Return(c, "ErrClosed")
     \/ ~transportsClosed /\ frame[c].ctxDone /\ Return(c, "transport")
  /\ UNCHANGED <<sessionVars, refreshVars, callVars, applianceVars>>

(* The appliance answers.  A request without a token may be welcome or not *)
(* (the Notification service is anonymous); one with a token is refused    *)
(* exactly when the appliance no longer accepts the token.                 *)
Answered(c) ==
  /\ pc[c] = "flight"
  /\ frame[c].auth.token \in valid \cup {NoToken}
  /\ Return(c, "ok")
  /\ UNCHANGED <<sessionVars, refreshVars, callVars, applianceVars>>

\* Mutant: the replay forgets that it is one.
UnauthorizedLoops(c) ==
  /\ pc[c] = "flight"
  /\ frame[c].auth.token \notin valid
  /\ IF Replayable(c) THEN Goto(c, "classify") ELSE Return(c, "401")
  /\ UNCHANGED <<sessionVars, refreshVars, callVars, applianceVars>>

Unauthorized(c) ==
  /\ pc[c] = "flight"
  /\ frame[c].auth.token \notin valid
  /\ IF Replayable(c) /\ frame[c].sent = 1
       THEN Goto(c, "classify")
       ELSE Return(c, "401")
  /\ UNCHANGED <<sessionVars, refreshVars, callVars, applianceVars>>

RequestFails(c) ==
  /\ pc[c] = "flight"
  /\ Return(c, "transport")
  /\ UNCHANGED <<sessionVars, refreshVars, callVars, applianceVars>>

\* Mutant: any change of the session surfaces the 401.
SurfaceStale(c) ==
  /\ pc[c] = "classify"
  /\ \/ Version(cell) # frame[c].seen
     \/ Anonymous(cell)
     \/ ~cell.refreshable
  /\ Return(c, "401")
  /\ UNCHANGED <<sessionVars, refreshVars, callVars, applianceVars>>

(* classify401 *)
SurfaceUnauthorized(c) ==
  /\ pc[c] = "classify"
  /\ \/ cell.epoch # frame[c].seen.epoch
     \/ Anonymous(cell)
     \/ cell.generation = frame[c].seen.generation /\ ~cell.refreshable
  /\ Return(c, "401")
  /\ UNCHANGED <<sessionVars, refreshVars, callVars, applianceVars>>

ReplaysWithoutRefresh(c) ==
  /\ pc[c] = "classify"
  /\ cell.epoch = frame[c].seen.epoch
  /\ ~Anonymous(cell)
  /\ cell.generation # frame[c].seen.generation

ReplayWithoutRefresh(c) ==
  /\ ReplaysWithoutRefresh(c)
  /\ Goto(c, "build")
  /\ UNCHANGED <<sessionVars, refreshVars, callVars, applianceVars>>

ReplayAfterRefresh(c) ==
  /\ pc[c] = "classify"
  /\ Version(cell) = frame[c].seen
  /\ ~Anonymous(cell)
  /\ cell.refreshable
  /\ Goto(c, "enter")
  /\ UNCHANGED <<sessionVars, refreshVars, callVars, applianceVars>>

(***************************************************************************)
(* RefreshToken, up to its call of refreshOnce.                            *)
(***************************************************************************)
CheckRefreshable(c) ==
  /\ pc[c] = "check"
  /\ IF ~Anonymous(cell) /\ cell.refreshable
       THEN GotoWith(c, "enter", [frame[c] EXCEPT !.seen = Version(cell)])
       ELSE Return(c, IF Anonymous(cell) THEN "ErrNotAuthenticated"
                                         ELSE "ErrNotRefreshable")
  /\ UNCHANGED <<sessionVars, refreshVars, callVars, applianceVars>>

(***************************************************************************)
(* refreshOnce.  Its critical section either joins the refresh in flight,  *)
(* finds the session has moved on, or makes the caller the leader.         *)
(***************************************************************************)
AfterRefresh(c, err) ==
  IF kind[c] = "refresh" \/ err # Nil
    THEN Return(c, err)
    ELSE Goto(c, "build")

JoinRefresh(c) ==
  /\ pc[c] = "enter"
  /\ inflight # NoOp
  /\ joined' = [joined EXCEPT ![c] = inflight]
  /\ Goto(c, "wait")
  /\ UNCHANGED <<sessionVars, refreshVars, kind, calls, applianceVars>>

FindAdvanced(c) ==
  /\ pc[c] = "enter"
  /\ inflight = NoOp
  /\ Version(cell) # frame[c].seen
  /\ AfterRefresh(c, Nil)
  /\ UNCHANGED <<sessionVars, refreshVars, callVars, applianceVars>>

\* Mutant: the leader does not look for a refresh in flight.
LeadRefreshUnlocked(c) ==
  /\ pc[c] = "enter"
  /\ Version(cell) = frame[c].seen
  /\ nops < MaxCalls
  /\ nops' = nops + 1
  /\ ops' = [ops EXCEPT ![nops + 1].generation = frame[c].seen.generation]
  /\ inflight' = nops + 1
  /\ joined' = [joined EXCEPT ![c] = nops + 1]
  /\ Goto(c, "login")
  /\ UNCHANGED <<sessionVars, kind, calls, applianceVars>>

\* Mutant: the leader does not check the session again under the lock.
LeadRefreshUnchecked(c) ==
  /\ pc[c] = "enter"
  /\ inflight = NoOp
  /\ nops < MaxCalls
  /\ nops' = nops + 1
  /\ ops' = [ops EXCEPT ![nops + 1].generation = frame[c].seen.generation]
  /\ inflight' = nops + 1
  /\ joined' = [joined EXCEPT ![c] = nops + 1]
  /\ Goto(c, "login")
  /\ UNCHANGED <<sessionVars, kind, calls, applianceVars>>

LeadRefresh(c) ==
  /\ pc[c] = "enter"
  /\ inflight = NoOp
  /\ Version(cell) = frame[c].seen
  /\ nops < MaxCalls
  /\ nops' = nops + 1
  /\ ops' = [ops EXCEPT ![nops + 1].generation = frame[c].seen.generation]
  /\ inflight' = nops + 1
  /\ joined' = [joined EXCEPT ![c] = nops + 1]
  /\ Goto(c, "login")
  /\ UNCHANGED <<sessionVars, kind, calls, applianceVars>>

\* Mutant: a waiter reads the outcome before done is closed.
JoinAtOnce(c) ==
  /\ pc[c] = "wait"
  /\ AfterRefresh(c, ops[joined[c]].err)
  /\ UNCHANGED <<sessionVars, refreshVars, callVars, applianceVars>>

(* A waiter's select: the operation is done, or its own context is.        *)
JoinDone(c) ==
  /\ pc[c] = "wait"
  /\ ops[joined[c]].done
  /\ AfterRefresh(c, ops[joined[c]].err)
  /\ UNCHANGED <<sessionVars, refreshVars, callVars, applianceVars>>

\* Mutant: the waiter looks at its context only after the operation.
ReturnCanceledLate(c) ==
  /\ pc[c] = "wait"
  /\ frame[c].ctxDone
  /\ ops[joined[c]].done
  /\ Return(c, "canceled")
  /\ UNCHANGED <<sessionVars, refreshVars, callVars, applianceVars>>

ReturnCanceled(c) ==
  /\ pc[c] = "wait"
  /\ frame[c].ctxDone
  /\ Return(c, "canceled")
  /\ UNCHANGED <<sessionVars, refreshVars, callVars, applianceVars>>

(***************************************************************************)
(* doRefresh: the credential's login on a context of its own, bounded by   *)
(* refreshTimeout, then a compare-and-swap on the cell.                    *)
(***************************************************************************)
StartLogin(c) ==
  /\ pc[c] = "login"
  /\ IF transportsClosed
       THEN Fail(c, "ErrClosed")
       ELSE Goto(c, "loginFlight")
  /\ UNCHANGED <<sessionVars, refreshVars, callVars, applianceVars>>

LoginSucceeds(c) ==
  /\ pc[c] = "loginFlight"
  /\ minted' = minted + 1
  /\ valid' = valid \cup {minted + 1}
  /\ GotoWith(c, "publish", [frame[c] EXCEPT !.fresh = minted + 1])
  /\ UNCHANGED <<sessionVars, refreshVars, callVars, zeroed>>

LoginFails(c) ==
  /\ pc[c] = "loginFlight"
  /\ Fail(c, "login")
  /\ UNCHANGED <<sessionVars, refreshVars, callVars, applianceVars>>

LoadToPublish(c) ==
  /\ pc[c] = "publish"
  /\ Version(cell) = frame[c].seen
  /\ Goto(c, "cas")
  /\ UNCHANGED <<sessionVars, refreshVars, callVars, applianceVars>>

DropSuperseded(c) ==
  /\ pc[c] = "publish"
  /\ Version(cell) # frame[c].seen
  /\ zeroed' = zeroed \cup {frame[c].fresh}
  /\ Goto(c, "settle")
  /\ UNCHANGED <<sessionVars, refreshVars, callVars, minted, valid>>

\* Mutant: the new state is stored, not compared and swapped.
PublishStore(c) ==
  /\ pc[c] = "cas"
  /\ cell' = State(frame[c].seen.epoch, frame[c].seen.generation + 1,
                   frame[c].fresh, TRUE)
  /\ Goto(c, "settle")
  /\ UNCHANGED <<connect, closed, transportsClosed, refreshVars, callVars,
                 applianceVars>>

\* Mutant: the generation is not bumped.
PublishSameGeneration(c) ==
  /\ pc[c] = "cas"
  /\ Version(cell) = frame[c].seen
  /\ cell' = State(cell.epoch, cell.generation, frame[c].fresh, TRUE)
  /\ Goto(c, "settle")
  /\ UNCHANGED <<connect, closed, transportsClosed, refreshVars, callVars,
                 applianceVars>>

\* Mutant: the displaced token is wiped.
PublishWiping(c) ==
  /\ pc[c] = "cas"
  /\ Version(cell) = frame[c].seen
  /\ cell' = State(cell.epoch, cell.generation + 1, frame[c].fresh, TRUE)
  /\ zeroed' = zeroed \cup {cell.token}
  /\ Goto(c, "settle")
  /\ UNCHANGED <<connect, closed, transportsClosed, refreshVars, callVars,
                 minted, valid>>

(* The compare-and-swap compares tokenState pointers.  A version is        *)
(* published once in the life of a live session, so the pointer is still   *)
(* the loaded one exactly when the version is.                             *)
Publish(c) ==
  /\ pc[c] = "cas"
  /\ Version(cell) = frame[c].seen
  /\ cell' = State(cell.epoch, cell.generation + 1, frame[c].fresh, TRUE)
  /\ Goto(c, "settle")
  /\ UNCHANGED <<connect, closed, transportsClosed, refreshVars, callVars,
                 applianceVars>>

PublishRaced(c) ==
  /\ pc[c] = "cas"
  /\ Version(cell) # frame[c].seen
  /\ Goto(c, "publish")
  /\ UNCHANGED <<sessionVars, refreshVars, callVars, applianceVars>>

(* The leader records the outcome and clears inflight under the lock, and  *)
(* only then closes done.                                                  *)
Settle(c) ==
  /\ pc[c] = "settle"
  /\ ops' = [ops EXCEPT ![joined[c]].err = res[c]]
  /\ inflight' = NoOp
  /\ Goto(c, "done")
  /\ UNCHANGED <<sessionVars, nops, callVars, applianceVars>>

\* Mutant: a failed refresh leaves done open.
CloseDoneOnSuccess(c) ==
  /\ pc[c] = "done"
  /\ ops' = [ops EXCEPT ![joined[c]].done = (res[c] = Nil)]
  /\ AfterRefresh(c, IF frame[c].ctxDone THEN "canceled" ELSE res[c])
  /\ UNCHANGED <<sessionVars, inflight, nops, callVars, applianceVars>>

CloseDone(c) ==
  /\ pc[c] = "done"
  /\ ops' = [ops EXCEPT ![joined[c]].done = TRUE]
  /\ AfterRefresh(c, IF frame[c].ctxDone THEN "canceled" ELSE res[c])
  /\ UNCHANGED <<sessionVars, inflight, nops, callVars, applianceVars>>

(***************************************************************************)
(* Logout and Close                                                        *)
(***************************************************************************)
LoadToRevoke(c) ==
  /\ pc[c] = "logout"
  /\ IF Anonymous(cell)
       THEN Goto(c, "swap")
       ELSE GotoWith(c, "revoke", [frame[c] EXCEPT !.auth = cell])
  /\ UNCHANGED <<sessionVars, refreshVars, callVars, applianceVars>>

SendRevoke(c) ==
  /\ pc[c] = "revoke"
  /\ IF transportsClosed \/ frame[c].ctxDone THEN Goto(c, "swap")
                                       ELSE Goto(c, "revoking")
  /\ UNCHANGED <<sessionVars, refreshVars, callVars, applianceVars>>

Revoked(c) ==
  /\ pc[c] = "revoking"
  /\ valid' = valid \ {frame[c].auth.token}
  /\ Goto(c, "swap")
  /\ UNCHANGED <<sessionVars, refreshVars, callVars, minted, zeroed>>

RevokeFails(c) ==
  /\ pc[c] = "revoking"
  /\ Goto(c, "swap")
  /\ UNCHANGED <<sessionVars, refreshVars, callVars, applianceVars>>

EndSession(c) ==
  /\ pc[c] = "swap"
  /\ cell' = Ended
  /\ IF kind[c] = "close" THEN Goto(c, "drain") ELSE Return(c, Nil)
  /\ UNCHANGED <<connect, closed, transportsClosed, refreshVars, callVars,
                 applianceVars>>

CloseTransports(c) ==
  /\ pc[c] = "drain"
  /\ transportsClosed' = TRUE
  /\ Return(c, Nil)
  /\ UNCHANGED <<connect, cell, closed, refreshVars, callVars, applianceVars>>

(***************************************************************************)
(* The environment: a context ends, the appliance drops a token.           *)
(***************************************************************************)
Cancel(c) ==
  /\ pc[c] # "idle"
  /\ ~frame[c].ctxDone
  /\ frame' = [frame EXCEPT ![c].ctxDone = TRUE]
  /\ UNCHANGED <<sessionVars, refreshVars, pc, res, callVars, applianceVars>>

Expire(t) ==
  /\ t \in Expirable
  /\ valid' = valid \ {t}
  /\ UNCHANGED <<sessionVars, refreshVars, pc, res, frame, callVars, minted, zeroed>>

(***************************************************************************)
(* Next-state relation                                                     *)
(***************************************************************************)
ConnectStep == ConnectWithToken \/ ConnectAnonymous \/ ConnectFails

(* Steps the goroutine takes by itself. *)
LocalStep(c) ==
  \/ CheckLifetime(c) \/ ReenterInvoke(c)
  \/ LoadObserved(c) \/ BuildRequest(c) \/ Dispatch(c) \/ DispatchFails(c)
  \/ SurfaceUnauthorized(c) \/ ReplayWithoutRefresh(c) \/ ReplayAfterRefresh(c)
  \/ CheckRefreshable(c)
  \/ JoinRefresh(c) \/ FindAdvanced(c) \/ LeadRefresh(c)
  \/ JoinDone(c) \/ ReturnCanceled(c)
  \/ StartLogin(c) \/ LoadToPublish(c) \/ DropSuperseded(c) \/ Publish(c)
  \/ PublishRaced(c) \/ Settle(c) \/ CloseDone(c)
  \/ LoadToRevoke(c) \/ SendRevoke(c) \/ EndSession(c) \/ CloseTransports(c)

(* Steps that wait for the appliance, a transport timeout or the refresh   *)
(* deadline.                                                               *)
NetworkStep(c) ==
  \/ Answered(c) \/ Unauthorized(c) \/ RequestFails(c)
  \/ LoginSucceeds(c) \/ LoginFails(c)
  \/ Revoked(c) \/ RevokeFails(c)

Next ==
  \/ ConnectStep
  \/ \E c \in Callers :
       \/ \E k \in CallKinds : Begin(c, k)
       \/ BeginClose(c)
       \/ LocalStep(c)
       \/ NetworkStep(c)
       \/ Cancel(c)
  \/ \E t \in valid : Expire(t)

Spec == Init /\ [][Next]_vars

(* Goroutines are scheduled; the appliance owes nothing. *)
FairSpec == Spec /\ \A c \in Callers : WF_vars(LocalStep(c))

(* Every exchange ends: an answer, a transport timeout, or the 60-second   *)
(* deadline of a refresh.                                                  *)
ExchangesEnd == \A c \in Callers : WF_vars(NetworkStep(c))

-----------------------------------------------------------------------------
(***************************************************************************)
(* Properties                                                              *)
(***************************************************************************)

States == [epoch : {0, 1}, generation : Nat, token : Nat,
           refreshable : BOOLEAN]

Frames == [seen : [epoch : {0, 1}, generation : Nat], auth : States,
           sent : 0..2, fresh : Nat, ctxDone : BOOLEAN]

(* Every variable stays in its range. *)
TypeOK ==
  /\ connect \in {"establishing", "ready", "failed"}
  /\ cell \in States
  /\ closed \in BOOLEAN
  /\ transportsClosed \in BOOLEAN
  /\ inflight \in 0..nops
  /\ ops \in [OpIds -> [generation : Nat, err : Results, done : BOOLEAN]]
  /\ nops \in 0..MaxCalls
  /\ pc \in [Callers -> Labels]
  /\ kind \in [Callers -> Kinds]
  /\ joined \in [Callers -> 0..nops]
  /\ frame \in [Callers -> Frames]
  /\ res \in [Callers -> Results]
  /\ calls \in 0..MaxCalls
  /\ minted \in Nat
  /\ valid \subseteq Nat
  /\ zeroed \subseteq Nat

(* The refresh is single flight (refresh.go:30-33): at most one goroutine  *)
(* runs doRefresh, and inflight names its operation for as long.           *)
SingleFlight ==
  /\ \A c, d \in Callers :
       pc[c] \in LeaderLabels /\ pc[d] \in LeaderLabels => c = d
  /\ \A c \in Callers : pc[c] \in LeaderLabels => joined[c] = inflight
  /\ inflight # NoOp => \E c \in Callers : pc[c] \in LeaderLabels

(* Callers that all observe the same stale token cause exactly one         *)
(* successful re-authentication (refresh.go:30-33): a later refresh is     *)
(* started for the same generation only when the earlier ones failed.      *)
OneLoginPerGeneration ==
  \A i, j \in 1..nops :
    i < j /\ ops[i].generation = ops[j].generation => ops[i].err # Nil

(* A caller that joined or led a refresh reports what that refresh ended   *)
(* with, never the zero error of an operation still running                *)
(* (refresh.go:39-41), unless its own context ended.                       *)
JoinersShareTheOutcome ==
  \A c \in Callers :
    /\ pc[c] = "idle"
    /\ kind[c] = "refresh"
    /\ joined[c] # NoOp
    /\ res[c] # "canceled"
    => ops[joined[c]].done /\ res[c] = ops[joined[c]].err

(* At most one network replay ever happens, and none for a request whose   *)
(* body cannot be rebuilt (refresh.go:168-174).                            *)
BoundedReplay ==
  \A c \in Callers : frame[c].sent <= (IF Replayable(c) THEN 2 ELSE 1)

(* A token whose bytes were wiped is never the session's, nor the one a    *)
(* request under way took its Authorization header from: the reason        *)
(* doRefresh, Logout and Close leave the displaced token alone             *)
(* (refresh.go:123-129, client.go:131-137).                                *)
WipedNeverUsed ==
  /\ cell.token \notin zeroed
  /\ \A c \in Callers :
       pc[c] \in {"dispatch", "flight", "revoke", "revoking"} =>
         frame[c].auth.token \notin zeroed

(* Renewal is transparent: while the session is live and refreshable and   *)
(* the appliance accepts every renewed token, a replayable call never ends *)
(* in 401, whatever races with it (invoke.go:42-48, refresh.go:168-174).   *)
TransparentRenewal ==
  \A c \in Callers :
    /\ pc[c] = "idle"
    /\ kind[c] \in {"invoke", "lifetime"}
    /\ res[c] = "401"
    => \/ cell.epoch = 0
       \/ ~cell.refreshable
       \/ \E t \in 2..minted : t \notin valid

(* An ended session is never resurrected: once Logout or Close has swapped *)
(* the cell, no late refresh puts a token back and no request built later  *)
(* carries one (client.go:131-133, refresh.go:91-95).                      *)
NeverResurrected ==
  [][cell.epoch = 0 =>
       /\ cell' = cell
       /\ \A c \in Callers :
            frame'[c].auth # frame[c].auth => frame'[c].auth.token = NoToken]_vars

(* Within a live session the generation only moves forward, one published  *)
(* token at a time, and no token is published twice (token.go:33-34).      *)
OneTokenPerGeneration ==
  [][cell' # cell /\ cell'.epoch = 1 /\ connect = "ready" =>
       /\ cell'.generation = cell.generation + 1
       /\ cell'.token > cell.token]_vars

(* Every call returns, when every exchange ends: no waiter is left behind  *)
(* by a leader that fails, is superseded or was cancelled.                 *)
CallsReturn ==
  ExchangesEnd => \A c \in Callers : pc[c] # "idle" ~> pc[c] = "idle"

(* A waiter whose context ends leaves even when the login it joined never  *)
(* answers (refresh.go:57-62).                                             *)
CanceledWaiterLeaves ==
  \A c \in Callers : pc[c] = "wait" /\ frame[c].ctxDone ~> pc[c] # "wait"

(* Module Session keeps the promise of module SessionPromise.              *)
Phase == CASE connect = "establishing" -> "new"
           [] connect # "establishing" /\ cell.epoch = 1 -> "live"
           [] connect # "establishing" /\ cell.epoch = 0 -> "ended"

Promise == INSTANCE SessionPromise WITH
  phase <- Phase,
  generation <- cell.generation,
  renewing <- IF \E c \in Callers : pc[c] \in RunningLabels
                THEN ops[inflight].generation ELSE 0

ImplementsPromise == Promise!Spec

(* To the listeners of the client the session is one of module             *)
(* EventSession: it ends, closes, and never lives again (events.go:359-373,*)
(* 382-384).                                                               *)
SeenByListeners == IF closed THEN "closed"
                   ELSE IF Phase = "ended" THEN "ended" ELSE "live"

Listened == INSTANCE EventSession WITH session <- SeenByListeners

ImplementsEventSession == Listened!Spec

(***************************************************************************)
(* A statement of the comments that the code does not keep.                *)
(***************************************************************************)

(* refresh.go:50-52: "The caller's context only governs how long this      *)
(* caller waits": a caller inside refreshOnce whose context is done can    *)
(* return by itself.                                                       *)
ContextGovernsTheWait ==
  \A c \in Callers :
    pc[c] \in {"wait", "loginFlight"} /\ frame[c].ctxDone => ENABLED ReturnCanceled(c)
=============================================================================
