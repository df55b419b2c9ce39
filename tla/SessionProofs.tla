--------------------------- MODULE SessionProofs ---------------------------
(***************************************************************************)
(* The theorems of module Session, for every set of callers, every number  *)
(* of calls and every set of tokens that may lapse.                        *)
(*                                                                         *)
(* Part 1: type correctness and the inductive invariant IInv.  The steps   *)
(* fall into three families: those of a goroutine outside doRefresh        *)
(* (Quiet), those of the leader inside it (Leading), and the few that      *)
(* create or settle an operation or end the session.                       *)
(*                                                                         *)
(* Part 2: what the calls end with, and what the session does from one     *)
(* step to the next: the action properties of the cell, the outcome a      *)
(* refresh hands to its waiters, the bound on replays, the transparency of *)
(* a renewal (all from the second inductive invariant, CallInv), and the   *)
(* refinement of SessionPromise.                                           *)
(***************************************************************************)
EXTENDS Session, TLAPS

(***************************************************************************)
(* The inductive invariant behind the safety properties.                   *)
(***************************************************************************)

(* The cell before Connect returns and after the session ends, and the     *)
(* token it holds: issued, and never wiped.                                *)
CellInv ==
  /\ connect = "establishing" => cell = Fresh /\ nops = 0 /\ minted = 0
  /\ cell.epoch = 0 => cell = Ended
  /\ cell.token <= minted
  /\ cell.token \notin zeroed
  /\ zeroed \subseteq 1..minted

(* A call in refreshOnce saw a live session, and one no newer than the     *)
(* current; the token of its request was once the cell's.                  *)
CallerInv(c) ==
  /\ connect # "ready" => pc[c] = "idle"
  /\ pc[c] # "flight" => frame[c].sent \in 0..1
  /\ pc[c] \in {"enter"} \cup LeaderLabels => frame[c].seen.epoch = 1
  /\ frame[c].seen.epoch = 1 /\ cell.epoch = 1
       => frame[c].seen.generation <= cell.generation
  /\ frame[c].auth.token <= minted
  /\ frame[c].auth.token \notin zeroed
  /\ pc[c] \in {"wait", "done"} \cup LeaderLabels => joined[c] \in 1..nops

(* The leader works on the operation in flight; the token it is about to   *)
(* publish is in nobody else's hands; once it is through without an error  *)
(* the session has moved past the generation it saw.                       *)
LeaderInv(c) ==
  pc[c] \in LeaderLabels =>
    /\ joined[c] = inflight
    /\ ops[inflight].generation = frame[c].seen.generation
    /\ pc[c] \in {"publish", "cas"} =>
         /\ frame[c].fresh \in (cell.token + 1)..minted
         /\ frame[c].fresh \notin zeroed
         /\ \A d \in Callers : frame[d].auth.token < frame[c].fresh
    /\ pc[c] = "settle" /\ res[c] = Nil /\ cell.epoch = 1
         => frame[c].seen.generation < cell.generation

(* Only the latest operation is ever in flight, and the session has moved  *)
(* past the generation of every other one that succeeded.                  *)
OpsInv ==
  /\ inflight # NoOp => inflight = nops
  /\ \A i \in 1..nops :
       i # inflight /\ ops[i].err = Nil /\ cell.epoch = 1
         => ops[i].generation < cell.generation

IInv ==
  /\ TypeOK
  /\ CellInv
  /\ \A c \in Callers : CallerInv(c) /\ LeaderInv(c)
  /\ SingleFlight
  /\ OpsInv
  /\ OneLoginPerGeneration

(***************************************************************************)
(* What the outcome of a call rests on, beside IInv.                       *)
(***************************************************************************)

(* RefreshToken never sends a request and joins or leads at most once; an  *)
(* upload never reaches the classification of a 401; a call that has not   *)
(* yet built a request has sent none; no call ends before Connect has.     *)
KindInv(c) ==
  /\ connect = "establishing" => res[c] = Nil
  /\ kind[c] = "refresh" =>
       pc[c] \in {"idle", "check", "enter", "wait", "done"} \cup LeaderLabels
  /\ kind[c] = "refresh" /\ pc[c] \in {"check", "enter"} => joined[c] = NoOp
  /\ kind[c] = "upload" =>
       /\ pc[c] \in {"idle", "load", "build", "dispatch", "flight"}
       /\ pc[c] # "flight" => frame[c].sent = 0
       /\ frame[c].sent <= 1
  /\ pc[c] \in {"idle", "check", "lifetime", "reenter", "load"} =>
       frame[c].sent = 0
  /\ pc[c] = "flight" => frame[c].sent >= 1

(* What doRefresh may end with. *)
RefreshOutcomes == {Nil, "ErrClosed", "login"}

(* An operation is done only after it was settled, and a settled one keeps *)
(* its outcome: the leader between the two still holds it in res.          *)
OutcomeInv ==
  /\ \A i \in OpIds :
       /\ ops[i].done => i \in 1..nops /\ i # inflight
       /\ ops[i].err \in RefreshOutcomes
  /\ \A c \in Callers :
       /\ pc[c] # "idle" => res[c] \in RefreshOutcomes
       /\ pc[c] = "done" => joined[c] # inflight /\ res[c] = ops[joined[c]].err
  /\ JoinersShareTheOutcome

(* A live session has a generation, a refreshable one has a token, and the *)
(* first renewal is the second token.                                      *)
RenewedInv ==
  /\ connect = "ready" /\ cell.epoch = 1 => cell.generation >= 1
  /\ cell.refreshable => cell.token >= 1
  /\ cell.generation >= 2 => cell.token >= 2
  /\ \A i \in 1..nops : ops[i].generation >= 1

(* What a call saw of a session that has since ended, was not renewed, or  *)
(* was: a replay is built from a renewed session, or from an ended one.    *)
ReplayInv(c) ==
  /\ frame[c].seen.epoch = 0 => cell.epoch = 0
  /\ pc[c] \in {"build", "dispatch", "flight", "classify", "enter", "wait", "done"}
               \cup LeaderLabels
     /\ frame[c].seen.epoch = 1
       => frame[c].seen.generation >= 1
  /\ pc[c] \in {"enter"} \cup LeaderLabels /\ Version(cell) = frame[c].seen
       => cell.refreshable
  /\ pc[c] = "build" /\ frame[c].sent = 1
       => cell.epoch = 0 \/ cell.generation >= 2
  /\ <<pc[c], frame[c].sent>> \in {<<"dispatch", 1>>, <<"flight", 2>>}
       => cell.epoch = 0 \/ frame[c].auth.token >= 2

CallInv ==
  /\ OutcomeInv
  /\ RenewedInv
  /\ \A c \in Callers : KindInv(c) /\ ReplayInv(c)
  /\ TransparentRenewal

(***************************************************************************)
(* Type correctness.  The range of "sent" is not inductive by itself: a    *)
(* request is only put on the wire by a call that has sent at most one.    *)
(***************************************************************************)
SentOK == \A c \in Callers : pc[c] # "flight" => frame[c].sent \in 0..1

LocalsOK ==
  /\ pc \in [Callers -> Labels]
  /\ res \in [Callers -> Results]
  /\ frame \in [Callers -> Frames]
  /\ SentOK

RestOK ==
  /\ connect \in {"establishing", "ready", "failed"}
  /\ cell \in States
  /\ closed \in BOOLEAN
  /\ transportsClosed \in BOOLEAN
  /\ inflight \in 0..nops
  /\ ops \in [OpIds -> [generation : Nat, err : Results, done : BOOLEAN]]
  /\ nops \in 0..MaxCalls
  /\ kind \in [Callers -> Kinds]
  /\ joined \in [Callers -> 0..nops]
  /\ calls \in 0..MaxCalls
  /\ minted \in Nat
  /\ valid \subseteq Nat
  /\ zeroed \subseteq Nat

TypeInv == LocalsOK /\ RestOK

LEMMA EmptyFrameOK == EmptyFrame \in Frames /\ EmptyFrame.sent = 0
BY DEF EmptyFrame, Frames, Version, Fresh, State, States, NoToken

LEMMA CellOK ==
  ASSUME cell \in States
  PROVE  Version(cell) \in [epoch : {0, 1}, generation : Nat]
BY DEF States, Version

(* The steps of a call keep its locals in range. *)
LEMMA GotoOK ==
  ASSUME LocalsOK, NEW c \in Callers, NEW l \in Labels, Goto(c, l),
         l # "flight" => frame[c].sent \in 0..1
  PROVE  LocalsOK'
BY DEF LocalsOK, SentOK, Goto

LEMMA GotoWithOK ==
  ASSUME LocalsOK, NEW c \in Callers, NEW l \in Labels, NEW f \in Frames,
         GotoWith(c, l, f), l # "flight" => f.sent \in 0..1
  PROVE  LocalsOK'
BY DEF LocalsOK, SentOK, GotoWith

LEMMA ReturnOK ==
  ASSUME LocalsOK, NEW c \in Callers, NEW r \in Results, Return(c, r)
  PROVE  LocalsOK'
BY EmptyFrameOK DEF LocalsOK, SentOK, Return, Labels

LEMMA FailOK ==
  ASSUME LocalsOK, NEW c \in Callers, NEW r \in Results, Fail(c, r),
         frame[c].sent \in 0..1
  PROVE  LocalsOK'
BY DEF LocalsOK, SentOK, Fail, Labels

LEMMA AfterRefreshOK ==
  ASSUME LocalsOK, NEW c \in Callers, NEW r \in Results, AfterRefresh(c, r),
         frame[c].sent \in 0..1
  PROVE  LocalsOK'
<1>1. CASE Return(c, r)
  BY <1>1, ReturnOK
<1>2. CASE Goto(c, "build")
  BY <1>2, GotoOK DEF Labels
<1>3. QED
  BY <1>1, <1>2 DEF AfterRefresh

USE DEF sessionVars, refreshVars, callVars, applianceVars

LEMMA InitType == Init => TypeInv
<1> SUFFICES ASSUME Init PROVE TypeInv
  OBVIOUS
<1>1. LocalsOK
  BY EmptyFrameOK DEF Init, LocalsOK, SentOK, Labels, Results, Nil
<1>2. RestOK
  <2>1. cell \in States
    BY DEF Init, Fresh, State, States, NoToken
  <2>2. ops \in [OpIds -> [generation : Nat, err : Results, done : BOOLEAN]]
    BY DEF Init, UnusedOp, Nil, Results
  <2>3. nops \in 0..MaxCalls /\ calls \in 0..MaxCalls
    BY MaxCallsAssumption DEF Init
  <2>4. inflight \in 0..nops /\ joined \in [Callers -> 0..nops]
    BY DEF Init, NoOp
  <2>5. kind \in [Callers -> Kinds]
    BY DEF Init, Kinds
  <2>6. QED
    BY <2>1, <2>2, <2>3, <2>4, <2>5 DEF Init, RestOK
<1>3. QED
  BY <1>1, <1>2 DEF TypeInv

LEMMA ConnectType == ASSUME TypeInv, ConnectStep PROVE TypeInv'
<1>1. LocalsOK'
  BY DEF TypeInv, ConnectStep, ConnectWithToken, ConnectAnonymous,
     ConnectFails, LocalsOK, SentOK
<1>2. CASE ConnectWithToken
  <2>1. cell' \in States
    BY <1>2 DEF TypeInv, RestOK, ConnectWithToken, State, States
  <2>2. QED
    BY <1>1, <1>2, <2>1 DEF TypeInv, RestOK, ConnectWithToken
<1>3. CASE ConnectAnonymous
  BY <1>1, <1>3 DEF TypeInv, RestOK, ConnectAnonymous, State, States, NoToken
<1>4. CASE ConnectFails
  BY <1>1, <1>4 DEF TypeInv, RestOK, ConnectFails, Ended, State, States, NoToken
<1>5. QED
  BY <1>2, <1>3, <1>4 DEF ConnectStep

(* A new call resets its slot of joined and kind and starts or returns.    *)
LEMMA CallType ==
  ASSUME TypeInv, NEW c \in Callers,
         (\E k \in CallKinds : Begin(c, k)) \/ BeginClose(c)
  PROVE  TypeInv'
<1>1. ASSUME NEW k \in Kinds, NewCall(c, k),
             UNCHANGED <<connect, cell, transportsClosed, refreshVars, applianceVars>>,
             closed' \in BOOLEAN
      PROVE  RestOK'
  BY <1>1, MaxCallsAssumption DEF NewCall, TypeInv, RestOK, NoOp
<1>2. ASSUME NEW k \in Kinds, Start(c, Entry(k)), pc[c] = "idle"
      PROVE  LocalsOK'
  <2>1. Entry(k) \in Labels /\ Entry(k) # "flight"
    BY DEF Entry, Kinds, Labels
  <2>2. QED
    BY <1>2, <2>1 DEF Start, TypeInv, LocalsOK, SentOK, Results, Nil
<1>3. ASSUME NEW k \in CallKinds, Begin(c, k) PROVE TypeInv'
  <2>0. k \in Kinds
    BY CallKindsAssumption
  <2>1. RestOK'
    BY <1>1, <1>3, <2>0 DEF Begin, TypeInv, RestOK
  <2>2. CASE closed
    BY <1>3, <2>1, <2>2, ReturnOK DEF Begin, TypeInv, Results
  <2>3. CASE ~closed
    BY <1>2, <1>3, <2>0, <2>1, <2>3 DEF Begin, NewCall, TypeInv
  <2>4. QED
    BY <2>2, <2>3
<1>4. ASSUME BeginClose(c) PROVE TypeInv'
  <2>0. "close" \in Kinds
    BY DEF Kinds
  <2>1. RestOK'
    BY <1>1, <1>4, <2>0 DEF BeginClose
  <2>2. CASE closed
    BY <1>4, <2>1, <2>2, ReturnOK DEF BeginClose, TypeInv, Results, Nil
  <2>3. CASE ~closed
    BY <1>2, <1>4, <2>0, <2>1, <2>3 DEF BeginClose, NewCall, TypeInv
  <2>4. QED
    BY <2>2, <2>3
<1>5. QED
  BY <1>3, <1>4

(* Most steps of a call touch nothing but its locals.                      *)
LEMMA RestKept ==
  ASSUME RestOK,
         UNCHANGED <<sessionVars, refreshVars, callVars, applianceVars>>
  PROVE  RestOK'
BY DEF RestOK

(* A step that loads the cell into a local.                                *)
LEMMA LoadOK ==
  ASSUME TypeInv, NEW c \in Callers, frame[c].sent \in 0..1
  PROVE  /\ [frame[c] EXCEPT !.seen = Version(cell)] \in Frames
         /\ [frame[c] EXCEPT !.seen = Version(cell)].sent \in 0..1
         /\ [frame[c] EXCEPT !.auth = cell] \in Frames
         /\ [frame[c] EXCEPT !.auth = cell].sent \in 0..1
<1>1. frame[c] \in Frames /\ cell \in States
  BY DEF TypeInv, LocalsOK, RestOK
<1>2. QED
  BY <1>1, CellOK DEF Frames

LEMMA SendType ==
  ASSUME TypeInv, NEW c \in Callers,
         \/ CheckLifetime(c) \/ ReenterInvoke(c) \/ LoadObserved(c)
         \/ BuildRequest(c) \/ Dispatch(c) \/ DispatchFails(c)
         \/ SurfaceUnauthorized(c) \/ ReplayWithoutRefresh(c)
         \/ ReplayAfterRefresh(c) \/ CheckRefreshable(c)
         \/ Answered(c) \/ Unauthorized(c) \/ RequestFails(c)
  PROVE  TypeInv'
<1>1. RestOK'
  BY RestKept DEF TypeInv, CheckLifetime, ReenterInvoke, LoadObserved,
     BuildRequest, Dispatch, DispatchFails, SurfaceUnauthorized,
     ReplayWithoutRefresh, ReplayAfterRefresh, CheckRefreshable, Answered,
     Unauthorized, RequestFails
<1> SUFFICES LocalsOK'
  BY <1>1 DEF TypeInv
<1>2. pc[c] # "flight" => frame[c].sent \in 0..1
  BY DEF TypeInv, LocalsOK, SentOK
<1>3. LocalsOK /\ frame[c] \in Frames
  BY DEF TypeInv, LocalsOK
<1>4. CASE CheckLifetime(c)
  <2>1. CASE Return(c, "ErrNotAuthenticated")
    BY <2>1, <1>3, ReturnOK DEF Results
  <2>2. CASE Goto(c, "reenter")
    BY <2>2, <1>2, <1>3, <1>4, GotoOK DEF CheckLifetime, Labels
  <2>3. QED
    BY <1>4, <2>1, <2>2 DEF CheckLifetime
<1>5. CASE ReenterInvoke(c)
  <2>1. CASE Return(c, "ErrClosed")
    BY <2>1, <1>3, ReturnOK DEF Results
  <2>2. CASE Goto(c, "load")
    BY <2>2, <1>2, <1>3, <1>5, GotoOK DEF ReenterInvoke, Labels
  <2>3. QED
    BY <1>5, <2>1, <2>2 DEF ReenterInvoke
<1>6. CASE LoadObserved(c)
  BY <1>2, <1>3, <1>6, LoadOK, GotoWithOK DEF LoadObserved, Labels
<1>7. CASE BuildRequest(c)
  BY <1>2, <1>3, <1>7, LoadOK, GotoWithOK DEF BuildRequest, Labels
<1>8. CASE Dispatch(c)
  <2>1. [frame[c] EXCEPT !.sent = @ + 1] \in Frames
    BY <1>2, <1>3, <1>8 DEF Dispatch, Frames
  <2>2. QED
    BY <1>3, <1>8, <2>1, GotoWithOK DEF Dispatch, Labels
<1>9. CASE DispatchFails(c)
  BY <1>3, <1>9, ReturnOK DEF DispatchFails, Results
<1>10. CASE SurfaceUnauthorized(c)
  BY <1>3, <1>10, ReturnOK DEF SurfaceUnauthorized, Results
<1>11. CASE ReplayWithoutRefresh(c)
  BY <1>2, <1>3, <1>11, GotoOK
     DEF ReplayWithoutRefresh, ReplaysWithoutRefresh, Labels
<1>12. CASE ReplayAfterRefresh(c)
  BY <1>2, <1>3, <1>12, GotoOK DEF ReplayAfterRefresh, Labels
<1>13. CASE CheckRefreshable(c)
  <2>1. CASE GotoWith(c, "enter", [frame[c] EXCEPT !.seen = Version(cell)])
    BY <1>2, <1>3, <1>13, <2>1, LoadOK, GotoWithOK DEF CheckRefreshable, Labels
  <2>2. CASE \E r \in Results : Return(c, r)
    BY <2>2, <1>3, ReturnOK
  <2>3. QED
    BY <1>13, <2>1, <2>2 DEF CheckRefreshable, Results
<1>14. CASE Answered(c) \/ RequestFails(c)
  BY <1>3, <1>14, ReturnOK DEF Answered, RequestFails, Results
<1>15. CASE Unauthorized(c)
  <2>1. CASE Goto(c, "classify") /\ frame[c].sent = 1
    BY <1>3, <2>1, GotoOK DEF Labels
  <2>2. CASE Return(c, "401")
    BY <1>3, <2>2, ReturnOK DEF Results
  <2>3. QED
    BY <1>15, <2>1, <2>2 DEF Unauthorized
<1>16. QED
  BY <1>4, <1>5, <1>6, <1>7, <1>8, <1>9, <1>10, <1>11, <1>12, <1>13, <1>14,
     <1>15

(* The waiter's operation exists: the only use of the stronger invariant.  *)
LEMMA RefreshType ==
  ASSUME TypeInv, NEW c \in Callers, pc[c] = "wait" => joined[c] # NoOp,
         \/ JoinRefresh(c) \/ FindAdvanced(c) \/ LeadRefresh(c)
         \/ JoinDone(c) \/ ReturnCanceled(c) \/ Settle(c) \/ CloseDone(c)
  PROVE  TypeInv'
<1>1. pc[c] # "flight" => frame[c].sent \in 0..1
  BY DEF TypeInv, LocalsOK, SentOK
<1>2. LocalsOK /\ RestOK /\ Nil \in Results
  BY DEF TypeInv, Results
<1>3. CASE JoinRefresh(c)
  <2>1. RestOK'
    BY <1>2, <1>3 DEF JoinRefresh, RestOK
  <2>2. QED
    BY <1>1, <1>2, <1>3, <2>1, GotoOK DEF JoinRefresh, Labels, TypeInv
<1>4. CASE FindAdvanced(c)
  BY <1>1, <1>2, <1>4, RestKept, AfterRefreshOK DEF FindAdvanced, TypeInv
<1>5. CASE LeadRefresh(c)
  <2>1. /\ nops' \in 0..MaxCalls
        /\ nops + 1 \in 0..nops'
        /\ 0..nops \subseteq 0..nops'
    BY <1>2, <1>5, MaxCallsAssumption DEF LeadRefresh, RestOK
  <2>2. joined' \in [Callers -> 0..nops'] /\ inflight' \in 0..nops'
    BY <1>2, <1>5, <2>1 DEF LeadRefresh, RestOK
  <2>3. frame[c].seen.generation \in Nat
    BY <1>2 DEF LocalsOK, Frames
  <2>4. ops' \in [OpIds -> [generation : Nat, err : Results, done : BOOLEAN]]
    BY <1>2, <1>5, <2>3 DEF LeadRefresh, RestOK
  <2>5. RestOK'
    BY <1>2, <1>5, <2>1, <2>2, <2>4 DEF LeadRefresh, RestOK
  <2>6. QED
    BY <1>1, <1>2, <1>5, <2>5, GotoOK DEF LeadRefresh, Labels, TypeInv
<1>6. CASE JoinDone(c)
  <2>1. joined[c] \in OpIds
    BY <1>2, <1>6, MaxCallsAssumption DEF JoinDone, RestOK, OpIds, NoOp
  <2>2. ops[joined[c]].err \in Results
    BY <1>2, <2>1 DEF RestOK
  <2>3. QED
    BY <1>1, <1>2, <1>6, <2>2, RestKept, AfterRefreshOK DEF JoinDone, TypeInv
<1>7. CASE ReturnCanceled(c)
  BY <1>2, <1>7, RestKept, ReturnOK DEF ReturnCanceled, Results, TypeInv
<1>8. CASE Settle(c)
  <2>1. res[c] \in Results
    BY <1>2 DEF LocalsOK
  <2>2. ops' \in [OpIds -> [generation : Nat, err : Results, done : BOOLEAN]]
    BY <1>2, <1>8, <2>1 DEF Settle, RestOK
  <2>3. inflight' \in 0..nops'
    BY <1>2, <1>8 DEF Settle, RestOK, NoOp
  <2>4. RestOK'
    BY <1>2, <1>8, <2>2, <2>3 DEF Settle, RestOK
  <2>5. QED
    BY <1>1, <1>2, <1>8, <2>4, GotoOK DEF Settle, Labels, TypeInv
<1>9. CASE CloseDone(c)
  <2>1. RestOK'
    BY <1>2, <1>9 DEF CloseDone, RestOK
  <2>2. res[c] \in Results /\ "canceled" \in Results
    BY <1>2 DEF LocalsOK, Results
  <2>3. QED
    BY <1>1, <1>2, <1>9, <2>1, <2>2, AfterRefreshOK DEF CloseDone, TypeInv
<1>10. QED
  BY <1>3, <1>4, <1>5, <1>6, <1>7, <1>8, <1>9

LEMMA LoginType ==
  ASSUME TypeInv, NEW c \in Callers,
         \/ StartLogin(c) \/ LoginSucceeds(c) \/ LoginFails(c)
         \/ LoadToPublish(c) \/ DropSuperseded(c) \/ Publish(c)
         \/ PublishRaced(c)
  PROVE  TypeInv'
<1>1. frame[c].sent \in 0..1
  BY DEF TypeInv, LocalsOK, SentOK, StartLogin, LoginSucceeds, LoginFails,
     LoadToPublish, DropSuperseded, Publish, PublishRaced
<1>2. LocalsOK /\ RestOK /\ frame[c] \in Frames
  BY DEF TypeInv, LocalsOK
<1>3. CASE StartLogin(c)
  <2>1. CASE Fail(c, "ErrClosed")
    BY <1>1, <1>2, <1>3, <2>1, FailOK, RestKept DEF StartLogin, Results, TypeInv
  <2>2. CASE Goto(c, "loginFlight")
    BY <1>1, <1>2, <1>3, <2>2, GotoOK, RestKept DEF StartLogin, Labels, TypeInv
  <2>3. QED
    BY <1>3, <2>1, <2>2 DEF StartLogin
<1>4. CASE LoginSucceeds(c)
  <2>1. RestOK'
    BY <1>2, <1>4 DEF LoginSucceeds, RestOK
  <2>2. /\ [frame[c] EXCEPT !.fresh = minted + 1] \in Frames
        /\ [frame[c] EXCEPT !.fresh = minted + 1].sent = frame[c].sent
    BY <1>2 DEF Frames, RestOK
  <2>3. QED
    BY <1>1, <1>2, <1>4, <2>1, <2>2, GotoWithOK DEF LoginSucceeds, Labels, TypeInv
<1>5. CASE LoginFails(c)
  BY <1>1, <1>2, <1>5, FailOK, RestKept DEF LoginFails, Results, TypeInv
<1>6. CASE LoadToPublish(c) \/ PublishRaced(c)
  BY <1>1, <1>2, <1>6, GotoOK, RestKept DEF LoadToPublish, PublishRaced, Labels, TypeInv
<1>7. CASE DropSuperseded(c)
  <2>1. frame[c].fresh \in Nat
    BY <1>2 DEF Frames
  <2>2. RestOK'
    BY <1>2, <1>7, <2>1 DEF DropSuperseded, RestOK
  <2>3. QED
    BY <1>1, <1>2, <1>7, <2>2, GotoOK DEF DropSuperseded, Labels, TypeInv
<1>8. CASE Publish(c)
  <2>1. cell' \in States
    BY <1>2, <1>8 DEF Publish, RestOK, Frames, State, States
  <2>2. RestOK'
    BY <1>2, <1>8, <2>1 DEF Publish, RestOK
  <2>3. QED
    BY <1>1, <1>2, <1>8, <2>2, GotoOK DEF Publish, Labels, TypeInv
<1>9. QED
  BY <1>3, <1>4, <1>5, <1>6, <1>7, <1>8

LEMMA EndType ==
  ASSUME TypeInv, NEW c \in Callers,
         \/ LoadToRevoke(c) \/ SendRevoke(c) \/ Revoked(c) \/ RevokeFails(c)
         \/ EndSession(c) \/ CloseTransports(c) \/ Cancel(c)
  PROVE  TypeInv'
<1>1. pc[c] # "flight" => frame[c].sent \in 0..1
  BY DEF TypeInv, LocalsOK, SentOK
<1>2. LocalsOK /\ RestOK /\ frame[c] \in Frames
  BY DEF TypeInv, LocalsOK
<1>3. CASE LoadToRevoke(c)
  <2>1. RestOK'
    BY <1>2, <1>3, RestKept DEF LoadToRevoke
  <2>2. CASE Goto(c, "swap")
    BY <1>1, <1>2, <1>3, <2>1, <2>2, GotoOK DEF LoadToRevoke, Labels, TypeInv
  <2>3. CASE GotoWith(c, "revoke", [frame[c] EXCEPT !.auth = cell])
    BY <1>1, <1>2, <1>3, <2>1, <2>3, LoadOK, GotoWithOK DEF LoadToRevoke, Labels, TypeInv
  <2>4. QED
    BY <1>3, <2>2, <2>3 DEF LoadToRevoke
<1>4. CASE SendRevoke(c) \/ RevokeFails(c)
  <2>1. RestOK' /\ pc[c] # "flight"
    BY <1>2, <1>4, RestKept DEF SendRevoke, RevokeFails
  <2>2. \E l \in {"swap", "revoking"} : Goto(c, l)
    BY <1>4 DEF SendRevoke, RevokeFails
  <2>3. QED
    BY <1>1, <1>2, <2>1, <2>2, GotoOK DEF Labels, TypeInv
<1>5. CASE Revoked(c)
  <2>1. RestOK'
    BY <1>2, <1>5 DEF Revoked, RestOK
  <2>2. QED
    BY <1>1, <1>2, <1>5, <2>1, GotoOK DEF Revoked, Labels, TypeInv
<1>6. CASE EndSession(c)
  <2>1. Ended \in States
    BY DEF Ended, State, States, NoToken
  <2>2. RestOK'
    BY <1>2, <1>6, <2>1 DEF EndSession, RestOK
  <2>3. CASE Goto(c, "drain")
    BY <1>1, <1>2, <1>6, <2>2, <2>3, GotoOK DEF EndSession, Labels, TypeInv
  <2>4. CASE Return(c, Nil)
    BY <1>2, <2>2, <2>4, ReturnOK DEF Results, TypeInv
  <2>5. QED
    BY <1>6, <2>3, <2>4 DEF EndSession
<1>7. CASE CloseTransports(c)
  <2>1. RestOK'
    BY <1>2, <1>7 DEF CloseTransports, RestOK
  <2>2. QED
    BY <1>2, <1>7, <2>1, ReturnOK DEF CloseTransports, Results, TypeInv
<1>8. CASE Cancel(c)
  <2>1. RestOK'
    BY <1>2, <1>8 DEF Cancel, RestOK
  <2>2. LocalsOK'
    BY <1>2, <1>8 DEF Cancel, LocalsOK, SentOK, Frames
  <2>3. QED
    BY <2>1, <2>2 DEF TypeInv
<1>9. QED
  BY <1>3, <1>4, <1>5, <1>6, <1>7, <1>8

(* Every step keeps the types, given the waiters' part of CallerInv.       *)
LEMMA NextType ==
  ASSUME TypeInv, [Next]_vars,
         \A c \in Callers : pc[c] = "wait" => joined[c] # NoOp
  PROVE  TypeInv'
<1>1. CASE ConnectStep
  BY <1>1, ConnectType
<1>2. ASSUME NEW c \in Callers,
             \/ \E k \in CallKinds : Begin(c, k)
             \/ BeginClose(c) \/ LocalStep(c) \/ NetworkStep(c) \/ Cancel(c)
      PROVE  TypeInv'
  BY <1>2, CallType, SendType, RefreshType, LoginType, EndType
     DEF LocalStep, NetworkStep
<1>3. ASSUME NEW t \in valid, Expire(t) PROVE TypeInv'
  BY <1>3 DEF Expire, TypeInv, LocalsOK, SentOK, RestOK
<1>4. CASE UNCHANGED vars
  BY <1>4 DEF vars, TypeInv, LocalsOK, SentOK, RestOK
<1>5. QED
  BY <1>1, <1>2, <1>3, <1>4 DEF Next

-----------------------------------------------------------------------------
(***************************************************************************)
(* The inductive invariant.                                                *)
(***************************************************************************)
LEMMA IInvType == IInv => TypeInv
BY DEF IInv, TypeOK, TypeInv, LocalsOK, RestOK, SentOK, CallerInv

LEMMA TypeInvOK == TypeInv => TypeOK
BY DEF TypeOK, TypeInv, LocalsOK, RestOK

LEMMA InitIInv == Init => IInv
<1> SUFFICES ASSUME Init PROVE IInv
  OBVIOUS
<1>1. TypeOK
  BY InitType, TypeInvOK
<1>2. CellInv
  BY DEF Init, CellInv, Fresh, State, NoToken
<1>3. ASSUME NEW c \in Callers PROVE CallerInv(c) /\ LeaderInv(c)
  BY DEF Init, CallerInv, LeaderInv, EmptyFrame, Fresh, State, Version,
     NoToken, LeaderLabels, RunningLabels
<1>4. SingleFlight
  BY DEF Init, SingleFlight, LeaderLabels, RunningLabels
<1>5. OpsInv /\ OneLoginPerGeneration
  BY DEF Init, OpsInv, OneLoginPerGeneration
<1>6. QED
  BY <1>1, <1>2, <1>3, <1>4, <1>5 DEF IInv

(* A step of a goroutine that is outside doRefresh before and after, and   *)
(* leaves the cell and the outcome of every operation alone.               *)
LEMMA Quiet ==
  ASSUME IInv, TypeOK', NEW c \in Callers, NEW l, NEW f, NEW r, NEW j,
         UNCHANGED <<connect, cell, inflight, nops, minted, zeroed>>,
         \A i \in OpIds : /\ ops'[i].generation = ops[i].generation
                          /\ ops'[i].err = ops[i].err,
         pc' = [pc EXCEPT ![c] = l],
         frame' = [frame EXCEPT ![c] = f],
         res' = [res EXCEPT ![c] = r],
         joined' = [joined EXCEPT ![c] = j],
         pc[c] \notin LeaderLabels, l \notin LeaderLabels,
         f.auth.token \in {frame[c].auth.token, cell.token, NoToken},
         CallerInv(c)'
  PROVE  IInv'
<1>0. TypeOK /\ nops \in 0..MaxCalls /\ inflight \in 0..nops /\ MaxCalls \in Nat
  BY MaxCallsAssumption DEF IInv, TypeOK
<1>1. CellInv'
  BY DEF IInv, CellInv
<1>2. ASSUME NEW d \in Callers PROVE CallerInv(d)'
  BY <1>0 DEF IInv, TypeOK, CallerInv
<1>3. pc'[c] \notin LeaderLabels
  BY <1>0 DEF TypeOK
<1>4. ASSUME NEW d \in Callers, pc'[d] \in LeaderLabels
      PROVE  /\ d # c /\ pc'[d] = pc[d] /\ frame'[d] = frame[d]
             /\ res'[d] = res[d] /\ joined'[d] = joined[d]
             /\ pc[d] \in LeaderLabels /\ LeaderInv(d)
  BY <1>0, <1>3, <1>4 DEF IInv, TypeOK
<1>5. ASSUME NEW d \in Callers PROVE LeaderInv(d)'
  <2> SUFFICES ASSUME pc'[d] \in LeaderLabels PROVE LeaderInv(d)'
    BY DEF LeaderInv
  <2>1. joined[d] \in 1..nops
    BY <1>4 DEF IInv, CallerInv
  <2>2. ops'[inflight].generation = ops[inflight].generation
    BY <1>0, <1>4, <2>1 DEF LeaderInv, OpIds
  <2>3. ASSUME pc[d] \in {"publish", "cas"}, NEW e \in Callers
        PROVE  frame'[e].auth.token < frame[d].fresh
    <3>1. frame[d].fresh \in (cell.token + 1)..minted
          /\ \A x \in Callers : frame[x].auth.token < frame[d].fresh
      BY <1>4, <2>3 DEF LeaderInv
    <3>2. cell.token \in Nat /\ minted \in Nat
      BY <1>0 DEF TypeOK, States
    <3>3. frame'[e].auth.token \in {frame[e].auth.token, cell.token, NoToken}
      BY <1>0 DEF TypeOK
    <3>4. QED
      BY <3>1, <3>2, <3>3 DEF NoToken
  <2>4. QED
    BY <1>4, <2>2, <2>3 DEF LeaderInv
<1>6. SingleFlight'
  <2>1. ASSUME NEW d \in Callers, pc[d] \in LeaderLabels
        PROVE  pc'[d] \in LeaderLabels
    BY <1>0, <2>1 DEF TypeOK
  <2>2. QED
    BY <1>4, <2>1 DEF IInv, SingleFlight
<1>7. OpsInv' /\ OneLoginPerGeneration'
  BY <1>0 DEF IInv, OpsInv, OneLoginPerGeneration, OpIds
<1>8. QED
  BY <1>1, <1>2, <1>5, <1>6, <1>7 DEF IInv

(* A step of the leader inside doRefresh: it may mint a token, wipe its    *)
(* own, and move the cell forward.                                         *)
LEMMA Leading ==
  ASSUME IInv, TypeOK', NEW c \in Callers, NEW l, NEW f, NEW r,
         UNCHANGED <<connect, inflight, ops, nops, joined>>,
         pc' = [pc EXCEPT ![c] = l],
         frame' = [frame EXCEPT ![c] = f],
         res' = [res EXCEPT ![c] = r],
         pc[c] \in LeaderLabels, l \in LeaderLabels,
         f.auth = frame[c].auth, f.seen = frame[c].seen,
         f.sent = frame[c].sent,
         minted <= minted',
         \A d \in Callers : frame[d].auth.token \notin zeroed',
         cell'.epoch = cell.epoch, cell.generation <= cell'.generation,
         CellInv', LeaderInv(c)'
  PROVE  IInv'
<1>0. /\ TypeOK /\ nops \in 0..MaxCalls /\ inflight \in 0..nops
      /\ MaxCalls \in Nat /\ minted \in Nat /\ cell \in States /\ minted' \in Nat
      /\ cell' \in States
  BY MaxCallsAssumption DEF IInv, TypeOK
<1>1. pc'[c] = l /\ frame'[c] = f /\ c \in DOMAIN pc
  BY <1>0 DEF TypeOK
<1>2. ASSUME NEW d \in Callers
      PROVE  /\ pc'[d] \in LeaderLabels <=> pc[d] \in LeaderLabels
             /\ d # c => pc[d] \notin LeaderLabels /\ pc'[d] = pc[d]
             /\ frame'[d].auth = frame[d].auth
             /\ frame'[d].seen = frame[d].seen
             /\ frame'[d].sent = frame[d].sent
  BY <1>0, <1>1 DEF IInv, TypeOK, SingleFlight
<1>3. ASSUME NEW d \in Callers PROVE CallerInv(d)'
  <2>1. /\ frame[d] \in Frames /\ CallerInv(d) /\ CallerInv(c)
    BY <1>0 DEF IInv, TypeOK
  <2>2. /\ connect = "ready"
        /\ frame[c].sent \in 0..1
        /\ frame[c].seen.epoch = 1
        /\ joined[c] \in 1..nops
    BY <2>1 DEF CallerInv, LeaderLabels, RunningLabels
  <2>3. frame[d].auth.token <= minted'
    BY <1>0, <2>1 DEF CallerInv, Frames, States
  <2>4. frame[d].seen.epoch = 1 /\ cell'.epoch = 1
          => frame[d].seen.generation <= cell'.generation
    BY <1>0, <2>1 DEF CallerInv, Frames, States
  <2>5. CASE d = c
    BY <1>1, <1>2, <2>2, <2>3, <2>4, <2>5 DEF CallerInv, LeaderLabels, RunningLabels
  <2>6. CASE d # c
    BY <1>1, <1>2, <2>1, <2>2, <2>3, <2>4, <2>6 DEF CallerInv
  <2>7. QED
    BY <2>5, <2>6
<1>4. ASSUME NEW d \in Callers PROVE LeaderInv(d)'
  BY <1>2 DEF LeaderInv
<1>5. SingleFlight'
  BY <1>2 DEF IInv, SingleFlight
<1>6. OpsInv'
  <2>1. ASSUME NEW i \in 1..nops, i # inflight, ops[i].err = Nil, cell'.epoch = 1
        PROVE  ops[i].generation < cell'.generation
    <3>1. ops[i].generation < cell.generation /\ i \in OpIds
      BY <1>0, <2>1 DEF IInv, OpsInv, OpIds
    <3>2. ops[i].generation \in Nat
      BY <1>0, <3>1 DEF TypeOK
    <3>3. QED
      BY <1>0, <3>1, <3>2 DEF States
  <2>2. QED
    BY <2>1 DEF IInv, OpsInv
<1>7. OneLoginPerGeneration'
  BY DEF IInv, OneLoginPerGeneration
<1>8. QED
  BY <1>3, <1>4, <1>5, <1>6, <1>7 DEF IInv

(* The end of the session drops every obligation about its generation.     *)
LEMMA EndIInv ==
  ASSUME IInv, TypeOK', NEW c \in Callers, EndSession(c)
  PROVE  IInv'
<1>0. /\ TypeOK /\ minted \in Nat /\ cell \in States /\ frame \in [Callers -> Frames]
  BY DEF IInv, TypeOK
<1>1. cell'.epoch = 0 /\ cell'.token = 0 /\ cell' = Ended
  BY DEF EndSession, Ended, State, NoToken
<1>2. 0 \notin zeroed
  BY DEF IInv, CellInv
<1>3. connect = "ready" /\ pc[c] = "swap"
  BY DEF IInv, CallerInv, EndSession
<1>4. CellInv'
  BY <1>0, <1>1, <1>2, <1>3 DEF EndSession, IInv, CellInv
<1>5. pc[c] \notin LeaderLabels /\ pc'[c] \in {"idle", "drain"}
  BY <1>0, <1>3 DEF EndSession, LeaderLabels, RunningLabels, Goto, Return, TypeOK
<1>6. ASSUME NEW d \in Callers, d # c
      PROVE  pc'[d] = pc[d] /\ frame'[d] = frame[d] /\ res'[d] = res[d]
  BY <1>0, <1>6 DEF EndSession, Goto, Return, TypeOK
<1>7. frame'[c] \in {frame[c], EmptyFrame}
  BY <1>0 DEF EndSession, Goto, Return
<1>8. ASSUME NEW d \in Callers
      PROVE  /\ frame'[d].auth.token \in {frame[d].auth.token, 0}
             /\ frame'[d].sent \in {frame[d].sent, 0}
  BY <1>6, <1>7 DEF EmptyFrame, Fresh, State, NoToken
<1>9. ASSUME NEW d \in Callers PROVE CallerInv(d)'
  <2>1. CallerInv(d)
    BY DEF IInv
  <2>2. CASE d = c
    BY <1>0, <1>1, <1>2, <1>3, <1>5, <1>8, <2>1, <2>2
       DEF CallerInv, EndSession, LeaderLabels, RunningLabels
  <2>3. CASE d # c
    BY <1>1, <1>6, <2>1, <2>3 DEF CallerInv, EndSession
  <2>4. QED
    BY <2>2, <2>3
<1>10. ASSUME NEW d \in Callers PROVE LeaderInv(d)'
  <2> SUFFICES ASSUME pc'[d] \in LeaderLabels PROVE LeaderInv(d)'
    BY DEF LeaderInv
  <2>1. d # c
    BY <1>5 DEF LeaderLabels, RunningLabels
  <2>2. LeaderInv(d) /\ pc'[d] = pc[d] /\ frame'[d] = frame[d]
    BY <1>6, <2>1 DEF IInv
  <2>3. ASSUME pc[d] \in {"publish", "cas"}
        PROVE  /\ frame[d].fresh \in 1..minted
               /\ \A e \in Callers : frame'[e].auth.token < frame[d].fresh
    <3>1. /\ frame[d].fresh \in (cell.token + 1)..minted
          /\ \A e \in Callers : frame[e].auth.token < frame[d].fresh
      BY <2>2, <2>3 DEF LeaderInv, LeaderLabels, RunningLabels
    <3>2. frame[d].fresh \in 1..minted
      BY <1>0, <3>1 DEF States
    <3>3. QED
      BY <1>8, <3>1, <3>2
  <2>4. QED
    BY <1>1, <2>2, <2>3 DEF LeaderInv, EndSession
<1>11. SingleFlight'
  <2>1. ASSUME NEW d \in Callers
        PROVE  pc'[d] \in LeaderLabels <=> pc[d] \in LeaderLabels
    BY <1>5, <1>6 DEF LeaderLabels, RunningLabels
  <2>2. QED
    BY <2>1 DEF IInv, SingleFlight, EndSession
<1>12. OpsInv' /\ OneLoginPerGeneration'
  BY <1>1 DEF IInv, OpsInv, OneLoginPerGeneration, EndSession
<1>13. QED
  BY <1>4, <1>9, <1>10, <1>11, <1>12 DEF IInv

(* What a quiet step must leave alone.                                     *)
CoreKept ==
  /\ UNCHANGED <<connect, cell, inflight, nops, minted, zeroed>>
  /\ \A i \in OpIds : /\ ops'[i].generation = ops[i].generation
                      /\ ops'[i].err = ops[i].err

LEMMA QuietReturn ==
  ASSUME IInv, TypeOK', NEW c \in Callers, NEW r, CoreKept,
         pc[c] \notin LeaderLabels, joined' = joined, Return(c, r)
  PROVE  IInv'
<1>0. TypeOK /\ cell \in States /\ minted \in Nat /\ 0 \notin zeroed
  BY DEF IInv, TypeOK, CellInv
<1>1. /\ pc' = [pc EXCEPT ![c] = "idle"]
      /\ frame' = [frame EXCEPT ![c] = EmptyFrame]
      /\ res' = [res EXCEPT ![c] = r]
      /\ joined' = [joined EXCEPT ![c] = joined[c]]
  BY <1>0 DEF Return, TypeOK
<1>2. EmptyFrame.auth.token = NoToken /\ EmptyFrame.seen.generation = 0
      /\ EmptyFrame.sent = 0
  BY DEF EmptyFrame, Fresh, State, Version
<1>3. pc'[c] = "idle" /\ frame'[c] = EmptyFrame
  BY <1>0, <1>1 DEF TypeOK
<1>4. CallerInv(c)'
  BY <1>0, <1>2, <1>3 DEF CallerInv, CoreKept, States, NoToken,
     LeaderLabels, RunningLabels
<1>5. QED
  BY <1>1, <1>2, <1>4, Quiet DEF CoreKept, LeaderLabels, RunningLabels

LEMMA QuietGoto ==
  ASSUME IInv, TypeOK', NEW c \in Callers, NEW l, NEW j, CoreKept,
         pc[c] \notin LeaderLabels \cup {"idle", "flight"},
         l \notin LeaderLabels, Goto(c, l),
         l = "enter" => frame[c].seen.epoch = 1,
         joined' = [joined EXCEPT ![c] = j],
         l \in {"wait", "done"} => j \in 1..nops
  PROVE  IInv'
<1>0. TypeOK /\ CallerInv(c)
  BY DEF IInv
<1>1. /\ pc' = [pc EXCEPT ![c] = l]
      /\ frame' = [frame EXCEPT ![c] = frame[c]]
      /\ res' = [res EXCEPT ![c] = res[c]]
  BY <1>0 DEF Goto, TypeOK
<1>2. pc'[c] = l /\ frame'[c] = frame[c] /\ joined'[c] = j
  BY <1>0, <1>1 DEF TypeOK
<1>3. CallerInv(c)'
  BY <1>0, <1>2 DEF CallerInv, CoreKept
<1>4. QED
  BY <1>1, <1>3, Quiet DEF CoreKept

LEMMA QuietLoad ==
  ASSUME IInv, TypeOK', NEW c \in Callers, NEW l, NEW f, CoreKept,
         pc[c] \notin LeaderLabels \cup {"idle", "flight"},
         l \notin LeaderLabels \cup {"wait", "done"}, GotoWith(c, l, f),
         joined' = joined,
         \/ f = [frame[c] EXCEPT !.seen = Version(cell)]
         \/ f = [frame[c] EXCEPT !.auth = cell] /\ l # "enter"
         \/ f = [frame[c] EXCEPT !.sent = @ + 1] /\ l = "flight",
         l = "enter" => cell.epoch = 1
  PROVE  IInv'
<1>0. TypeOK /\ CallerInv(c) /\ frame[c] \in Frames /\ cell \in States
  BY DEF IInv, TypeOK
<1>1. /\ pc' = [pc EXCEPT ![c] = l]
      /\ frame' = [frame EXCEPT ![c] = f]
      /\ res' = [res EXCEPT ![c] = res[c]]
      /\ joined' = [joined EXCEPT ![c] = joined[c]]
  BY <1>0 DEF GotoWith, TypeOK
<1>2. pc'[c] = l /\ frame'[c] = f
  BY <1>0, <1>1 DEF TypeOK
<1>3. cell.token <= minted /\ cell.token \notin zeroed
  BY DEF IInv, CellInv
<1>4. /\ f.seen \in {frame[c].seen, Version(cell)}
      /\ l = "enter" => f.seen = Version(cell)
      /\ f.auth \in {frame[c].auth, cell}
      /\ l # "flight" => f.sent = frame[c].sent
  BY <1>0 DEF Frames
<1>5. f.seen.epoch = 1 /\ cell.epoch = 1 => f.seen.generation <= cell.generation
  BY <1>0, <1>4 DEF CallerInv, Version, States
<1>6. l = "enter" => f.seen.epoch = 1
  BY <1>4 DEF Version
<1>7. CallerInv(c)'
  BY <1>0, <1>2, <1>3, <1>4, <1>5, <1>6 DEF CallerInv, CoreKept
<1>8. f.auth.token \in {frame[c].auth.token, cell.token, NoToken}
  BY <1>4
<1>9. QED
  BY <1>1, <1>7, <1>8, Quiet DEF CoreKept

LEMMA KeptCore ==
  ASSUME UNCHANGED <<connect, cell, inflight, nops, ops, minted, zeroed>>
  PROVE  CoreKept
BY DEF CoreKept

LEMMA AfterRefreshIInv ==
  ASSUME IInv, TypeOK', NEW c \in Callers, NEW r, CoreKept,
         pc[c] \in {"enter", "wait", "done"}, joined' = joined,
         AfterRefresh(c, r)
  PROVE  IInv'
<1>0. pc[c] \notin LeaderLabels \cup {"idle", "flight"}
  BY DEF LeaderLabels, RunningLabels
<1>1. joined' = [joined EXCEPT ![c] = joined[c]]
  BY DEF IInv, TypeOK
<1>2. CASE Return(c, r)
  BY <1>0, <1>2, QuietReturn
<1>3. CASE Goto(c, "build")
  BY <1>0, <1>1, <1>3, QuietGoto DEF LeaderLabels, RunningLabels
<1>4. QED
  BY <1>2, <1>3 DEF AfterRefresh

(***************************************************************************)
(* The steps outside doRefresh, each an instance of Quiet.                 *)
(***************************************************************************)
LEMMA NewCallIInv ==
  ASSUME IInv, TypeOK', NEW c \in Callers,
         (\E k \in CallKinds : Begin(c, k)) \/ BeginClose(c)
  PROVE  IInv'
<1>1. PICK k \in Kinds :
        /\ NewCall(c, k)
        /\ \E r : Return(c, r) \/ Start(c, Entry(k))
        /\ UNCHANGED <<connect, cell, refreshVars, applianceVars>>
  <2>1. CASE BeginClose(c)
    <3>1. "close" \in Kinds /\ NewCall(c, "close")
          /\ UNCHANGED <<connect, cell, refreshVars, applianceVars>>
      BY <2>1 DEF BeginClose, Kinds
    <3>2. Return(c, Nil) \/ Start(c, Entry("close"))
      BY <2>1 DEF BeginClose
    <3>3. QED
      BY <3>1, <3>2
  <2>2. CASE \E k \in CallKinds : Begin(c, k)
    <3>1. PICK k \in CallKinds : Begin(c, k)
      BY <2>2
    <3>2. k \in Kinds /\ NewCall(c, k)
          /\ UNCHANGED <<connect, cell, refreshVars, applianceVars>>
      BY <3>1, CallKindsAssumption DEF Begin
    <3>3. Return(c, "ErrClosed") \/ Start(c, Entry(k))
      BY <3>1 DEF Begin
    <3>4. QED
      BY <3>2, <3>3
  <2>3. QED
    BY <2>1, <2>2
<1>2. /\ TypeOK /\ cell \in States /\ frame[c] \in Frames /\ pc[c] = "idle"
      /\ minted \in Nat /\ connect = "ready" /\ connect' = connect /\ 0 \notin zeroed
  BY <1>1 DEF IInv, TypeOK, NewCall, CellInv
<1>3. CallerInv(c)
  BY DEF IInv
<1>4. Entry(k) \in Labels \ ({"flight", "wait", "done", "enter"} \cup LeaderLabels)
  BY DEF Entry, Kinds, Labels, LeaderLabels, RunningLabels
<1>5. /\ EmptyFrame.auth.token = NoToken /\ EmptyFrame.seen.generation = 0
      /\ EmptyFrame.sent = 0
  BY DEF EmptyFrame, Fresh, State, Version
<1>6. PICK l, f, r :
        /\ pc' = [pc EXCEPT ![c] = l] /\ frame' = [frame EXCEPT ![c] = f]
        /\ res' = [res EXCEPT ![c] = r]
        /\ l \in {"idle", Entry(k)} /\ f \in {frame[c], EmptyFrame}
  <2>1. CASE Start(c, Entry(k))
    <3>1. frame' = [frame EXCEPT ![c] = frame[c]]
      BY <1>2, <2>1 DEF Start, TypeOK
    <3>2. QED
      BY <2>1, <3>1 DEF Start
  <2>2. CASE \E r : Return(c, r)
    BY <2>2 DEF Return
  <2>3. QED
    BY <1>1, <2>1, <2>2
<1>7. /\ f.auth.token \in {frame[c].auth.token, NoToken}
      /\ f.sent \in 0..1
      /\ f.seen.epoch = 1 /\ cell.epoch = 1 => f.seen.generation <= cell.generation
  BY <1>2, <1>3, <1>5, <1>6 DEF CallerInv, States
<1>8. pc'[c] = l /\ frame'[c] = f
  BY <1>2, <1>6 DEF TypeOK
<1>9. l \notin {"flight", "wait", "done", "enter"} \cup LeaderLabels
  BY <1>4, <1>6 DEF LeaderLabels, RunningLabels
<1>10. f.auth.token <= minted /\ f.auth.token \notin zeroed
  BY <1>2, <1>3, <1>7 DEF CallerInv, NoToken
<1>11. CallerInv(c)'
  BY <1>1, <1>2, <1>7, <1>8, <1>9, <1>10 DEF CallerInv
<1>12. joined' = [joined EXCEPT ![c] = NoOp]
  BY <1>1 DEF NewCall
<1>13. pc[c] \notin LeaderLabels /\ ops' = ops
  BY <1>1, <1>2 DEF LeaderLabels, RunningLabels
<1>14. QED
  BY <1>1, <1>2, <1>6, <1>7, <1>9, <1>11, <1>12, <1>13, Quiet

LEMMA SendIInv ==
  ASSUME IInv, TypeOK', NEW c \in Callers,
         \/ CheckLifetime(c) \/ ReenterInvoke(c) \/ LoadObserved(c)
         \/ BuildRequest(c) \/ Dispatch(c) \/ DispatchFails(c)
         \/ SurfaceUnauthorized(c) \/ ReplayWithoutRefresh(c)
         \/ ReplayAfterRefresh(c) \/ CheckRefreshable(c)
         \/ Answered(c) \/ RequestFails(c)
  PROVE  IInv'
<1>1. CoreKept /\ joined' = joined
  BY KeptCore DEF CheckLifetime, ReenterInvoke, LoadObserved, BuildRequest,
     Dispatch, DispatchFails, SurfaceUnauthorized, ReplayWithoutRefresh,
     ReplayAfterRefresh, CheckRefreshable, Answered, RequestFails
<1>2. /\ pc[c] \notin LeaderLabels \cup {"idle"}
      /\ Answered(c) \/ RequestFails(c) \/ pc[c] # "flight"
  BY DEF LeaderLabels, RunningLabels, CheckLifetime, ReenterInvoke,
     LoadObserved, BuildRequest, Dispatch, DispatchFails, SurfaceUnauthorized,
     ReplayWithoutRefresh, ReplaysWithoutRefresh, ReplayAfterRefresh,
     CheckRefreshable, Answered, RequestFails
<1>3. joined' = [joined EXCEPT ![c] = joined[c]] /\ cell \in States
  BY <1>1 DEF IInv, TypeOK
<1>4. CASE \E r : Return(c, r)
  BY <1>1, <1>2, <1>4, QuietReturn
<1>5. ASSUME NEW l \in {"reenter", "load", "build"}, Goto(c, l), pc[c] # "flight"
      PROVE  IInv'
  BY <1>1, <1>2, <1>3, <1>5, QuietGoto DEF LeaderLabels, RunningLabels
<1>6. CASE LoadObserved(c) \/ BuildRequest(c) \/ Dispatch(c)
  <2>1. PICK l, f :
          /\ GotoWith(c, l, f) /\ l \in {"build", "dispatch", "flight"}
          /\ \/ f = [frame[c] EXCEPT !.seen = Version(cell)]
             \/ f = [frame[c] EXCEPT !.auth = cell] /\ l # "enter"
             \/ f = [frame[c] EXCEPT !.sent = @ + 1] /\ l = "flight"
    <3>1. CASE LoadObserved(c)
      BY <3>1 DEF LoadObserved
    <3>2. CASE BuildRequest(c)
      BY <3>2 DEF BuildRequest
    <3>3. CASE Dispatch(c)
      BY <3>3 DEF Dispatch
    <3>4. QED
      BY <1>6, <3>1, <3>2, <3>3
  <2>2. pc[c] # "flight"
    BY <1>6 DEF LoadObserved, BuildRequest, Dispatch
  <2>3. QED
    BY <1>1, <1>2, <2>1, <2>2, QuietLoad DEF LeaderLabels, RunningLabels
<1>7. CASE ReplayAfterRefresh(c)
  <2>1. cell.epoch = 1
    BY <1>3, <1>7 DEF IInv, CellInv, ReplayAfterRefresh, Anonymous, Ended,
       State, States
  <2>2. frame[c].seen.epoch = 1
    BY <1>7, <2>1 DEF ReplayAfterRefresh, Version
  <2>3. pc[c] # "flight" /\ Goto(c, "enter")
    BY <1>7 DEF ReplayAfterRefresh
  <2>4. QED
    BY <1>1, <1>2, <1>3, <2>2, <2>3, QuietGoto DEF LeaderLabels, RunningLabels
<1>8. CASE CheckRefreshable(c) /\ ~Anonymous(cell) /\ cell.refreshable
  <2>1. cell.epoch = 1
    BY <1>3, <1>8 DEF IInv, CellInv, Anonymous, Ended, State, States
  <2>2. /\ pc[c] # "flight"
        /\ GotoWith(c, "enter", [frame[c] EXCEPT !.seen = Version(cell)])
    BY <1>8 DEF CheckRefreshable
  <2>3. QED
    BY <1>1, <1>2, <2>1, <2>2, QuietLoad DEF LeaderLabels, RunningLabels
<1>9. QED
  BY <1>4, <1>5, <1>6, <1>7, <1>8 DEF CheckLifetime, ReenterInvoke,
     DispatchFails, SurfaceUnauthorized, ReplayWithoutRefresh,
     ReplaysWithoutRefresh, CheckRefreshable, Answered, RequestFails

(* A 401 leaves "flight" for the classification only after one request.    *)
LEMMA UnauthorizedIInv ==
  ASSUME IInv, TypeOK', NEW c \in Callers, Unauthorized(c)
  PROVE  IInv'
<1>1. CoreKept /\ joined' = joined /\ pc[c] = "flight"
  BY KeptCore DEF Unauthorized
<1>2. pc[c] \notin LeaderLabels
  BY <1>1 DEF LeaderLabels, RunningLabels
<1>3. CASE Return(c, "401")
  BY <1>1, <1>2, <1>3, QuietReturn
<1>4. CASE Goto(c, "classify") /\ frame[c].sent = 1
  <2>1. /\ pc' = [pc EXCEPT ![c] = "classify"]
        /\ frame' = [frame EXCEPT ![c] = frame[c]]
        /\ res' = [res EXCEPT ![c] = res[c]]
        /\ joined' = [joined EXCEPT ![c] = joined[c]]
        /\ pc'[c] = "classify" /\ frame'[c] = frame[c]
    BY <1>1, <1>4 DEF Goto, IInv, TypeOK
  <2>2. CallerInv(c)'
    BY <1>1, <1>4, <2>1 DEF IInv, CallerInv, CoreKept, LeaderLabels, RunningLabels
  <2>3. QED
    BY <1>1, <1>2, <2>1, <2>2, Quiet DEF CoreKept, LeaderLabels, RunningLabels
<1>5. QED
  BY <1>3, <1>4 DEF Unauthorized

LEMMA WaitIInv ==
  ASSUME IInv, TypeOK', NEW c \in Callers,
         \/ JoinRefresh(c) \/ FindAdvanced(c) \/ JoinDone(c)
         \/ ReturnCanceled(c) \/ CloseDone(c)
  PROVE  IInv'
<1>1. CASE JoinRefresh(c)
  <2>1. inflight \in 1..nops
    BY <1>1 DEF JoinRefresh, IInv, TypeOK, NoOp
  <2>2. CoreKept /\ pc[c] = "enter" /\ Goto(c, "wait")
        /\ joined' = [joined EXCEPT ![c] = inflight]
    BY <1>1, KeptCore DEF JoinRefresh
  <2>3. QED
    BY <2>1, <2>2, QuietGoto DEF LeaderLabels, RunningLabels
<1>2. CASE FindAdvanced(c) \/ JoinDone(c)
  <2>1. CoreKept /\ joined' = joined /\ pc[c] \in {"enter", "wait"}
    BY <1>2, KeptCore DEF FindAdvanced, JoinDone
  <2>2. \E r : AfterRefresh(c, r)
    BY <1>2 DEF FindAdvanced, JoinDone
  <2>3. QED
    BY <2>1, <2>2, AfterRefreshIInv
<1>3. CASE ReturnCanceled(c)
  BY <1>3, KeptCore, QuietReturn DEF ReturnCanceled, LeaderLabels, RunningLabels
<1>4. CASE CloseDone(c)
  <2>1. ops' = [ops EXCEPT ![joined[c]].done = TRUE] /\ TypeOK
    BY <1>4 DEF CloseDone, IInv
  <2>2. CoreKept
    BY <1>4, <2>1 DEF CloseDone, CoreKept, TypeOK
  <2>3. joined' = joined /\ pc[c] = "done" /\ \E r : AfterRefresh(c, r)
    BY <1>4 DEF CloseDone
  <2>4. QED
    BY <2>2, <2>3, AfterRefreshIInv
<1>5. QED
  BY <1>1, <1>2, <1>3, <1>4

LEMMA LogoutIInv ==
  ASSUME IInv, TypeOK', NEW c \in Callers,
         \/ LoadToRevoke(c) \/ SendRevoke(c) \/ Revoked(c) \/ RevokeFails(c)
         \/ CloseTransports(c)
  PROVE  IInv'
<1>1. CoreKept /\ joined' = joined
  BY KeptCore DEF LoadToRevoke, SendRevoke, Revoked, RevokeFails, CloseTransports
<1>2. pc[c] \notin LeaderLabels \cup {"idle", "flight"}
  BY DEF LeaderLabels, RunningLabels, LoadToRevoke, SendRevoke, Revoked,
     RevokeFails, CloseTransports
<1>3. joined' = [joined EXCEPT ![c] = joined[c]]
  BY <1>1 DEF IInv, TypeOK
<1>4. CASE \E l \in {"swap", "revoking"} : Goto(c, l)
  BY <1>1, <1>2, <1>3, <1>4, QuietGoto DEF LeaderLabels, RunningLabels
<1>5. CASE GotoWith(c, "revoke", [frame[c] EXCEPT !.auth = cell])
  BY <1>1, <1>2, <1>5, QuietLoad DEF LeaderLabels, RunningLabels
<1>6. CASE Return(c, Nil)
  BY <1>1, <1>2, <1>6, QuietReturn
<1>7. QED
  BY <1>4, <1>5, <1>6 DEF LoadToRevoke, SendRevoke, Revoked, RevokeFails,
     CloseTransports

(***************************************************************************)
(* The steps of the leader inside doRefresh, each an instance of Leading.  *)
(***************************************************************************)
LEMMA LeaderFacts ==
  ASSUME IInv, NEW c \in Callers, pc[c] \in LeaderLabels
  PROVE  /\ TypeOK /\ CellInv /\ CallerInv(c) /\ LeaderInv(c)
         /\ frame[c] \in Frames /\ cell \in States /\ minted \in Nat
         /\ connect = "ready" /\ frame[c].seen.epoch = 1
         /\ frame[c].sent \in 0..1
         /\ \A d \in Callers : /\ frame[d].auth.token \in Nat
                               /\ frame[d].auth.token <= minted
                               /\ frame[d].auth.token \notin zeroed
<1>1. TypeOK /\ CellInv /\ CallerInv(c) /\ LeaderInv(c)
  BY DEF IInv
<1>2. ASSUME NEW d \in Callers
      PROVE  /\ frame[d].auth.token \in Nat
             /\ frame[d].auth.token <= minted
             /\ frame[d].auth.token \notin zeroed
  BY <1>1 DEF IInv, CallerInv, TypeOK, Frames, States
<1>3. QED
  BY <1>1, <1>2 DEF TypeOK, CallerInv, LeaderLabels, RunningLabels

(* A leader that moves between labels, or gives up with an error.          *)
LEMMA LeaderMoves ==
  ASSUME IInv, TypeOK', NEW c \in Callers, pc[c] \in LeaderLabels,
         UNCHANGED <<connect, cell, inflight, ops, nops, joined, minted, zeroed>>,
         \/ \E e \in Results \ {Nil} : Fail(c, e)
         \/ Goto(c, "loginFlight")
         \/ Goto(c, "cas") /\ pc[c] = "publish"
         \/ Goto(c, "publish") /\ pc[c] = "cas"
  PROVE  IInv'
<1> DEFINE Move(l, r) ==
        /\ pc' = [pc EXCEPT ![c] = l] /\ res' = [res EXCEPT ![c] = r]
        /\ frame' = [frame EXCEPT ![c] = frame[c]]
        /\ l \in LeaderLabels
        /\ l = "settle" => r # Nil
        /\ l \in {"publish", "cas"} => pc[c] \in {"publish", "cas"}
<1>0. /\ frame = [frame EXCEPT ![c] = frame[c]]
      /\ res = [res EXCEPT ![c] = res[c]]
  BY DEF IInv, TypeOK
<1>1. \E l, r : Move(l, r)
  <2>1. CASE \E e \in Results \ {Nil} : Fail(c, e)
    <3>1. PICK e \in Results \ {Nil} : Fail(c, e)
      BY <2>1
    <3>2. Move("settle", e)
      BY <1>0, <3>1 DEF Fail, LeaderLabels
    <3>3. QED
      BY <3>2
  <2>2. CASE Goto(c, "loginFlight")
    <3>1. Move("loginFlight", res[c])
      BY <1>0, <2>2 DEF Goto, LeaderLabels, RunningLabels
    <3>2. QED
      BY <3>1
  <2>3. CASE Goto(c, "cas") /\ pc[c] = "publish"
    <3>1. Move("cas", res[c])
      BY <1>0, <2>3 DEF Goto, LeaderLabels, RunningLabels
    <3>2. QED
      BY <3>1
  <2>4. CASE Goto(c, "publish") /\ pc[c] = "cas"
    <3>1. Move("publish", res[c])
      BY <1>0, <2>4 DEF Goto, LeaderLabels, RunningLabels
    <3>2. QED
      BY <3>1
  <2>5. QED
    BY <2>1, <2>2, <2>3, <2>4
<1>1a. PICK l, r : Move(l, r)
  BY <1>1
<1>2. pc'[c] = l /\ res'[c] = r /\ frame' = frame
  BY <1>1a DEF IInv, TypeOK
<1>3. CellInv'
  BY DEF IInv, CellInv
<1>4. LeaderInv(c)'
  BY <1>1a, <1>2, LeaderFacts DEF LeaderInv
<1>5. \A d \in Callers : frame[d].auth.token \notin zeroed'
  BY LeaderFacts
<1>6. minted <= minted' /\ cell'.epoch = cell.epoch
      /\ cell.generation <= cell'.generation
  BY LeaderFacts DEF States
<1>7. QED
  BY <1>1a, <1>3, <1>4, <1>5, <1>6, Leading

LEMMA LoginIInv ==
  ASSUME IInv, TypeOK', NEW c \in Callers,
         \/ StartLogin(c) \/ LoginSucceeds(c) \/ LoginFails(c)
         \/ LoadToPublish(c) \/ DropSuperseded(c) \/ Publish(c)
         \/ PublishRaced(c)
  PROVE  IInv'
<1>1. /\ pc[c] \in LeaderLabels
      /\ UNCHANGED <<connect, inflight, ops, nops, joined>>
  BY DEF LeaderLabels, RunningLabels, StartLogin, LoginSucceeds, LoginFails,
     LoadToPublish, DropSuperseded, Publish, PublishRaced
<1>2. CASE StartLogin(c) \/ LoginFails(c) \/ LoadToPublish(c) \/ PublishRaced(c)
  BY <1>1, <1>2, LeaderMoves DEF StartLogin, LoginFails, LoadToPublish,
     PublishRaced, Results, Nil
<1>3. CASE LoginSucceeds(c)
  <2> DEFINE f == [frame[c] EXCEPT !.fresh = minted + 1]
  <2>1. /\ frame[c] \in Frames /\ cell \in States /\ minted \in Nat /\ CellInv
        /\ LeaderInv(c)
    BY <1>1, LeaderFacts
  <2>2. /\ f.auth = frame[c].auth /\ f.seen = frame[c].seen
        /\ f.sent = frame[c].sent /\ f.fresh = minted + 1
    BY <2>1 DEF Frames
  <2>3. /\ pc' = [pc EXCEPT ![c] = "publish"] /\ frame' = [frame EXCEPT ![c] = f]
        /\ res' = [res EXCEPT ![c] = res[c]]
        /\ minted' = minted + 1 /\ zeroed' = zeroed /\ cell' = cell
    BY <1>3 DEF LoginSucceeds, GotoWith, IInv, TypeOK
  <2>4. pc'[c] = "publish" /\ frame'[c] = f
    BY <2>3 DEF IInv, TypeOK
  <2>5. CellInv'
    BY <1>1, <2>1, <2>3, LeaderFacts DEF CellInv, States
  <2>6. /\ f.fresh \in (cell.token + 1)..minted' /\ f.fresh \notin zeroed
    BY <2>1, <2>2, <2>3 DEF CellInv, States
  <2>7. ASSUME NEW d \in Callers PROVE frame'[d].auth.token < f.fresh
    <3>1. frame'[d].auth = frame[d].auth
      BY <2>2, <2>3 DEF IInv, TypeOK
    <3>2. QED
      BY <1>1, <2>1, <2>2, <3>1, LeaderFacts
  <2>8. LeaderInv(c)'
    <3>1. joined[c] = inflight /\ ops[inflight].generation = f.seen.generation
      BY <1>1, <2>1, <2>2 DEF LeaderInv
    <3>2. f.fresh \notin zeroed' /\ f.fresh \in (cell'.token + 1)..minted'
      BY <2>3, <2>6
    <3>3. QED
      BY <1>1, <2>4, <2>7, <3>1, <3>2 DEF LeaderInv
  <2>9. minted <= minted' /\ cell'.epoch = cell.epoch
        /\ cell.generation <= cell'.generation
    BY <2>1, <2>3 DEF States
  <2>10. \A d \in Callers : frame[d].auth.token \notin zeroed'
    BY <1>1, <2>3, LeaderFacts
  <2> HIDE DEF f
  <2>11. QED
    BY <1>1, <2>2, <2>3, <2>5, <2>8, <2>9, <2>10, Leading
       DEF LeaderLabels, RunningLabels
<1>4. CASE DropSuperseded(c) \/ Publish(c)
  <2>1. /\ frame[c] \in Frames /\ cell \in States /\ minted \in Nat /\ CellInv
        /\ LeaderInv(c) /\ CallerInv(c) /\ frame[c].seen.epoch = 1
    BY <1>1, LeaderFacts
  <2>2. /\ frame[c].fresh \in (cell.token + 1)..minted
        /\ frame[c].fresh \notin zeroed
        /\ \A d \in Callers : frame[d].auth.token < frame[c].fresh
    BY <1>1, <1>4, <2>1 DEF LeaderInv, DropSuperseded, Publish
  <2>3. /\ pc' = [pc EXCEPT ![c] = "settle"]
        /\ frame' = [frame EXCEPT ![c] = frame[c]]
        /\ res' = [res EXCEPT ![c] = res[c]]
        /\ minted' = minted /\ zeroed' \in {zeroed, zeroed \cup {frame[c].fresh}}
    BY <1>4 DEF DropSuperseded, Publish, Goto, IInv, TypeOK
  <2>4. pc'[c] = "settle" /\ frame'[c] = frame[c]
    BY <2>3 DEF IInv, TypeOK
  <2>5. CASE DropSuperseded(c)
    <3>1. cell' = cell /\ Version(cell) # frame[c].seen
          /\ zeroed' = zeroed \cup {frame[c].fresh}
      BY <2>5 DEF DropSuperseded
    <3>2. cell.epoch = 1 => frame[c].seen.generation < cell.generation
      BY <2>1, <3>1 DEF CallerInv, Version, Frames, States
    <3>3. CellInv'
      BY <1>1, <2>1, <2>2, <2>3, <3>1, LeaderFacts DEF CellInv, States
    <3>4. LeaderInv(c)'
      BY <1>1, <2>1, <2>4, <3>1, <3>2 DEF LeaderInv
    <3>5. \A d \in Callers : frame[d].auth.token \notin zeroed'
      BY <1>1, <2>1, <2>2, <3>1, LeaderFacts
    <3>6. minted <= minted' /\ cell.generation <= cell'.generation
      BY <2>1, <2>3, <3>1 DEF States
    <3>7. QED
      BY <1>1, <2>3, <3>1, <3>3, <3>4, <3>5, <3>6, Leading
         DEF LeaderLabels, RunningLabels
  <2>6. CASE Publish(c)
    <3>1. /\ Version(cell) = frame[c].seen /\ zeroed' = zeroed
          /\ cell' = State(cell.epoch, cell.generation + 1, frame[c].fresh, TRUE)
      BY <2>6 DEF Publish
    <3>2. /\ cell'.epoch = cell.epoch /\ cell.epoch = 1
          /\ cell'.generation = cell.generation + 1
          /\ cell'.token = frame[c].fresh
          /\ frame[c].seen.generation = cell.generation
      BY <2>1, <3>1 DEF Version, State
    <3>3. CellInv'
      <4>1. connect' = "ready" /\ cell'.epoch = 1
        BY <1>1, <3>2, LeaderFacts
      <4>2. cell'.token <= minted' /\ cell'.token \notin zeroed'
        <5>1. frame[c].fresh \in Nat /\ frame[c].fresh <= minted
          BY <2>1, <2>2 DEF Frames
        <5>2. QED
          BY <2>2, <2>3, <3>1, <3>2, <5>1
      <4>3. zeroed' \subseteq 1..minted'
        BY <2>1, <2>3, <3>1 DEF CellInv
      <4>4. QED
        BY <4>1, <4>2, <4>3 DEF CellInv
    <3>4. LeaderInv(c)'
      BY <1>1, <2>1, <2>4, <3>2 DEF LeaderInv, States
    <3>5. \A d \in Callers : frame[d].auth.token \notin zeroed'
      BY <1>1, <3>1, LeaderFacts
    <3>6. minted <= minted' /\ cell.generation <= cell'.generation
      BY <2>1, <2>3, <3>2 DEF States
    <3>7. QED
      BY <1>1, <2>3, <3>2, <3>3, <3>4, <3>5, <3>6, Leading
         DEF LeaderLabels, RunningLabels
  <2>7. QED
    BY <1>4, <2>5, <2>6
<1>5. QED
  BY <1>2, <1>3, <1>4

(***************************************************************************)
(* The steps that create and settle an operation.                          *)
(***************************************************************************)
LEMMA LeadIInv ==
  ASSUME IInv, TypeOK', NEW c \in Callers, LeadRefresh(c)
  PROVE  IInv'
<1>0. /\ TypeOK /\ MaxCalls \in Nat /\ nops \in 0..MaxCalls /\ nops + 1 \in OpIds
      /\ pc \in [Callers -> Labels] /\ joined \in [Callers -> 0..nops]
      /\ ops \in [OpIds -> [generation : Nat, err : Results, done : BOOLEAN]]
      /\ cell \in States /\ frame[c] \in Frames
  BY MaxCallsAssumption DEF IInv, TypeOK, LeadRefresh, OpIds
<1>1. /\ UNCHANGED <<connect, cell, minted, zeroed, frame, res>>
      /\ pc' = [pc EXCEPT ![c] = "login"] /\ pc[c] = "enter" /\ pc'[c] = "login"
      /\ joined' = [joined EXCEPT ![c] = nops + 1] /\ joined'[c] = nops + 1
      /\ nops' = nops + 1 /\ inflight' = nops + 1 /\ inflight = NoOp
      /\ ops' = [ops EXCEPT ![nops + 1].generation = frame[c].seen.generation]
  BY <1>0 DEF LeadRefresh, Goto
<1>2. ASSUME NEW d \in Callers PROVE pc[d] \notin LeaderLabels
  BY <1>0, <1>1 DEF IInv, SingleFlight, CallerInv, NoOp
<1>3. ASSUME NEW d \in Callers, d # c
      PROVE  pc'[d] = pc[d] /\ joined'[d] = joined[d] /\ pc'[d] \notin LeaderLabels
  BY <1>0, <1>1, <1>2, <1>3
<1>4. frame[c].seen.epoch = 1 /\ cell.epoch = 1
      /\ frame[c].seen.generation = cell.generation /\ CallerInv(c)
  BY <1>1 DEF IInv, CallerInv, LeadRefresh, Version
<1>5. CellInv'
  <2>1. connect = "ready"
    BY <1>1, <1>4 DEF CallerInv
  <2>2. QED
    BY <1>1, <2>1 DEF IInv, CellInv
<1>6. ASSUME NEW d \in Callers PROVE CallerInv(d)'
  <2>1. CASE d = c
    <3>1. nops + 1 \in 1..(nops + 1)
      BY <1>0
    <3>2. QED
      BY <1>1, <1>4, <2>1, <3>1 DEF CallerInv, LeaderLabels, RunningLabels
  <2>2. CASE d # c
    <3>1. joined[d] \in 1..nops => joined[d] \in 1..(nops + 1)
      BY <1>0
    <3>2. QED
      BY <1>1, <1>2, <1>3, <2>2, <3>1 DEF IInv, CallerInv
  <2>3. QED
    BY <2>1, <2>2
<1>7. ASSUME NEW d \in Callers PROVE LeaderInv(d)'
  <2>1. ops'[nops + 1].generation = frame[c].seen.generation
    BY <1>0, <1>1
  <2>2. QED
    BY <1>1, <1>3, <2>1 DEF LeaderInv
<1>8. SingleFlight'
  BY <1>1, <1>3 DEF SingleFlight, LeaderLabels, RunningLabels
<1>9. ASSUME NEW i \in 1..nops
      PROVE  i \in OpIds /\ ops'[i] = ops[i] /\ i # inflight
  BY <1>0, <1>1 DEF OpIds, NoOp
<1>10. OpsInv'
  BY <1>0, <1>1, <1>9 DEF IInv, OpsInv
<1>11. OneLoginPerGeneration'
  <2> SUFFICES ASSUME NEW i \in 1..(nops + 1), NEW j \in 1..(nops + 1), i < j,
                      ops'[i].generation = ops'[j].generation
               PROVE  ops'[i].err # Nil
    BY <1>1 DEF OneLoginPerGeneration
  <2>1. i \in 1..nops
    BY <1>0
  <2>2. CASE j \in 1..nops
    BY <1>9, <2>1, <2>2 DEF IInv, OneLoginPerGeneration
  <2>3. CASE j = nops + 1
    <3>1. ops[i].generation = cell.generation
      BY <1>0, <1>1, <1>4, <1>9, <2>1, <2>3
    <3>2. ~(ops[i].generation < cell.generation)
      BY <1>0, <3>1 DEF States
    <3>3. QED
      BY <1>4, <1>9, <2>1, <3>2 DEF IInv, OpsInv
  <2>4. QED
    BY <1>0, <2>2, <2>3
<1>12. QED
  BY <1>5, <1>6, <1>7, <1>8, <1>10, <1>11 DEF IInv

LEMMA SettleIInv ==
  ASSUME IInv, TypeOK', NEW c \in Callers, Settle(c)
  PROVE  IInv'
<1>0. /\ TypeOK /\ MaxCalls \in Nat /\ nops \in 0..MaxCalls
      /\ ops \in [OpIds -> [generation : Nat, err : Results, done : BOOLEAN]]
  BY MaxCallsAssumption DEF IInv, TypeOK
<1>1. /\ UNCHANGED <<connect, cell, minted, zeroed, frame, res, nops, joined>>
      /\ pc' = [pc EXCEPT ![c] = "done"] /\ pc[c] = "settle" /\ pc'[c] = "done"
      /\ inflight' = NoOp /\ ops' = [ops EXCEPT ![joined[c]].err = res[c]]
  BY <1>0 DEF Settle, Goto, TypeOK
<1>2. /\ CallerInv(c) /\ LeaderInv(c) /\ pc[c] \in LeaderLabels
      /\ joined[c] = inflight /\ inflight \in 1..nops /\ inflight = nops
      /\ nops \in OpIds
  BY <1>0, <1>1 DEF IInv, CallerInv, LeaderInv, OpsInv, OpIds, NoOp,
     LeaderLabels, RunningLabels
<1>3. ASSUME NEW d \in Callers, d # c
      PROVE  pc'[d] = pc[d] /\ pc'[d] \notin LeaderLabels
  BY <1>0, <1>1, <1>2, <1>3 DEF IInv, SingleFlight, TypeOK
<1>4. pc'[c] \notin LeaderLabels
  BY <1>1 DEF LeaderLabels, RunningLabels
<1>5. CellInv'
  BY <1>1 DEF IInv, CellInv
<1>6. ASSUME NEW d \in Callers PROVE CallerInv(d)'
  <2>1. CASE d = c
    BY <1>1, <1>2, <2>1 DEF CallerInv, LeaderLabels, RunningLabels
  <2>2. CASE d # c
    BY <1>1, <1>3, <2>2 DEF IInv, CallerInv
  <2>3. QED
    BY <2>1, <2>2
<1>7. ASSUME NEW d \in Callers PROVE LeaderInv(d)'
  BY <1>3, <1>4 DEF LeaderInv
<1>8. SingleFlight'
  BY <1>1, <1>3, <1>4 DEF SingleFlight
<1>9. ASSUME NEW i \in 1..nops
      PROVE  /\ i \in OpIds /\ ops'[i].generation = ops[i].generation
             /\ i # nops => ops'[i].err = ops[i].err
             /\ i = nops => ops'[i].err = res[c]
  BY <1>0, <1>1, <1>2 DEF OpIds
<1>10. OpsInv'
  <2> SUFFICES ASSUME NEW i \in 1..nops, ops'[i].err = Nil, cell.epoch = 1
               PROVE  ops'[i].generation < cell.generation
    BY <1>1 DEF OpsInv
  <2>1. CASE i = nops
    BY <1>1, <1>2, <1>9, <2>1 DEF LeaderInv
  <2>2. CASE i # nops
    BY <1>2, <1>9, <2>2 DEF IInv, OpsInv
  <2>3. QED
    BY <2>1, <2>2
<1>11. OneLoginPerGeneration'
  <2> SUFFICES ASSUME NEW i \in 1..nops, NEW j \in 1..nops, i < j,
                      ops'[i].generation = ops'[j].generation
               PROVE  ops'[i].err # Nil
    BY <1>1 DEF OneLoginPerGeneration
  <2>1. i # nops
    BY <1>0
  <2>2. QED
    BY <1>9, <2>1 DEF IInv, OneLoginPerGeneration
<1>12. QED
  BY <1>5, <1>6, <1>7, <1>8, <1>10, <1>11 DEF IInv

(***************************************************************************)
(* The rest: Connect, and the environment.                                 *)
(***************************************************************************)
LEMMA ConnectIInv ==
  ASSUME IInv, TypeOK', ConnectStep
  PROVE  IInv'
<1>1. /\ connect = "establishing" /\ cell = Fresh /\ nops = 0 /\ minted = 0
      /\ CellInv
  BY DEF IInv, CellInv, ConnectStep, ConnectWithToken, ConnectAnonymous, ConnectFails
<1>2. /\ UNCHANGED <<refreshVars, pc, res, frame, callVars, zeroed>>
      /\ minted' \in {0, 1} /\ connect' \in {"ready", "failed"}
  BY <1>1 DEF ConnectStep, ConnectWithToken, ConnectAnonymous, ConnectFails
<1>3. ASSUME NEW c \in Callers
      PROVE  /\ pc[c] = "idle" /\ pc[c] \notin LeaderLabels /\ CallerInv(c)
             /\ frame[c] \in Frames
  BY <1>1 DEF IInv, CallerInv, LeaderLabels, RunningLabels, TypeOK
<1>4. zeroed = {} /\ cell.generation = 0
  BY <1>1 DEF CellInv, Fresh, State
<1>5. /\ cell'.token \in {0, minted'}
      /\ cell'.epoch = 0 => cell' = Ended
      /\ cell'.epoch = 1 => cell'.generation = 1
  BY <1>1 DEF ConnectStep, ConnectWithToken, ConnectAnonymous, ConnectFails,
     State, Fresh, Ended, NoToken
<1>6. CellInv'
  BY <1>2, <1>4, <1>5 DEF CellInv
<1>7. ASSUME NEW c \in Callers PROVE CallerInv(c)' /\ LeaderInv(c)'
  <2>1. /\ frame[c].auth.token \in Nat /\ frame[c].auth.token <= 0
        /\ frame[c].seen.epoch \in {0, 1} /\ frame[c].seen.generation \in Nat
        /\ frame[c].sent \in 0..1
    BY <1>1, <1>3 DEF CallerInv, Frames, States
  <2>2. frame[c].auth.token <= minted'
    BY <1>2, <2>1
  <2>3. frame[c].seen.epoch = 1 => frame[c].seen.generation = 0
    BY <1>1, <1>3, <1>4, <2>1 DEF CallerInv, Fresh, State
  <2>4. LeaderInv(c)'
    BY <1>2, <1>3 DEF LeaderInv
  <2>5. QED
    BY <1>2, <1>3, <1>4, <1>5, <2>1, <2>2, <2>3, <2>4
       DEF CallerInv, LeaderLabels, RunningLabels
<1>8. SingleFlight'
  BY <1>2, <1>3 DEF IInv, SingleFlight
<1>9. OpsInv' /\ OneLoginPerGeneration'
  BY <1>1, <1>2 DEF IInv, OpsInv, OneLoginPerGeneration
<1>10. QED
  BY <1>6, <1>7, <1>8, <1>9 DEF IInv

LEMMA CancelIInv ==
  ASSUME IInv, TypeOK', NEW c \in Callers, Cancel(c)
  PROVE  IInv'
<1>1. ASSUME NEW d \in Callers
      PROVE  /\ frame'[d].auth = frame[d].auth /\ frame'[d].seen = frame[d].seen
             /\ frame'[d].sent = frame[d].sent /\ frame'[d].fresh = frame[d].fresh
  BY DEF Cancel, IInv, TypeOK, Frames
<1>2. UNCHANGED <<connect, cell, inflight, ops, nops, pc, res, joined, minted, zeroed>>
  BY DEF Cancel
<1>3. CellInv' /\ SingleFlight' /\ OpsInv' /\ OneLoginPerGeneration'
  BY <1>2 DEF IInv, CellInv, SingleFlight, OpsInv, OneLoginPerGeneration
<1>4. ASSUME NEW d \in Callers PROVE CallerInv(d)'
  BY <1>1, <1>2 DEF IInv, CallerInv
<1>5. ASSUME NEW d \in Callers PROVE LeaderInv(d)'
  BY <1>1, <1>2 DEF IInv, LeaderInv
<1>6. QED
  BY <1>3, <1>4, <1>5 DEF IInv

(* Steps that move nothing the invariant speaks of.                        *)
LEMMA StillIInv ==
  ASSUME IInv, TypeOK',
         UNCHANGED <<connect, cell, inflight, ops, nops, pc, res, frame, joined,
                     minted, zeroed>>
  PROVE  IInv'
BY DEF IInv, CellInv, CallerInv, LeaderInv, SingleFlight, OpsInv,
   OneLoginPerGeneration

LEMMA NextIInv == ASSUME IInv, [Next]_vars PROVE IInv'
<1>1. TypeOK'
  <2>1. \A c \in Callers : pc[c] = "wait" => joined[c] # NoOp
    BY DEF IInv, CallerInv, NoOp
  <2>2. TypeInv'
    BY <2>1, IInvType, NextType
  <2>3. QED
    BY <2>2 DEF TypeOK, TypeInv, LocalsOK, RestOK
<1>2. CASE ConnectStep
  BY <1>1, <1>2, ConnectIInv
<1>3. ASSUME NEW c \in Callers,
             \/ \E k \in CallKinds : Begin(c, k)
             \/ BeginClose(c) \/ LocalStep(c) \/ NetworkStep(c) \/ Cancel(c)
      PROVE  IInv'
  BY <1>1, <1>3, NewCallIInv, SendIInv, UnauthorizedIInv, WaitIInv, LeadIInv,
     SettleIInv, LoginIInv, LogoutIInv, EndIInv, CancelIInv
     DEF LocalStep, NetworkStep
<1>4. ASSUME NEW t \in valid, Expire(t) PROVE IInv'
  BY <1>1, <1>4, StillIInv DEF Expire
<1>5. CASE UNCHANGED vars
  BY <1>1, <1>5, StillIInv DEF vars
<1>6. QED
  BY <1>2, <1>3, <1>4, <1>5 DEF Next

(***************************************************************************)
(* Theorems                                                                *)
(***************************************************************************)

(* The inductive invariant holds in every reachable state: the leader and  *)
(* its operation, the session's generation and the tokens in use stay      *)
(* consistent through every interleaving of refresh.go with Logout and     *)
(* Close.                                                                  *)
THEOREM Invariance == Spec => []IInv
<1>1. Init => IInv
  BY InitIInv
<1>2. IInv /\ [Next]_vars => IInv'
  BY NextIInv
<1>3. QED
  BY <1>1, <1>2, PTL DEF Spec

(* Every variable stays in its range; in particular no call puts more than *)
(* two requests on the wire (refresh.go:168-174).                          *)
THEOREM TypeCorrect == Spec => []TypeOK
<1>1. IInv => TypeOK
  BY DEF IInv
<1>2. QED
  BY <1>1, Invariance, PTL

(* At most one goroutine runs doRefresh at any time, and inflight names    *)
(* its operation (refresh.go:30-33), for any number of callers.            *)
THEOREM RefreshIsSingleFlight == Spec => []SingleFlight
<1>1. IInv => SingleFlight
  BY DEF IInv
<1>2. QED
  BY <1>1, Invariance, PTL

(* No two logins succeed for the same generation of a session              *)
(* (refresh.go:30-33, 65-71).                                              *)
THEOREM OneSuccessPerGeneration == Spec => []OneLoginPerGeneration
<1>1. IInv => OneLoginPerGeneration
  BY DEF IInv
<1>2. QED
  BY <1>1, Invariance, PTL

(* The bytes of a token are never wiped while the session or a request     *)
(* still uses them (refresh.go:108-131, client.go:131-137).                *)
THEOREM WipedTokensAreUnused == Spec => []WipedNeverUsed
<1>1. IInv => WipedNeverUsed
  BY DEF IInv, CellInv, CallerInv, WipedNeverUsed
<1>2. QED
  BY <1>1, Invariance, PTL

-----------------------------------------------------------------------------
(***************************************************************************)
(* Part 2: outcomes and refinement.                                        *)
(***************************************************************************)

(***************************************************************************)
(* The steps of the cell, from IInv alone.                                 *)
(***************************************************************************)
Connects ==
  /\ connect = "establishing" /\ connect' = "ready"
  /\ cell'.epoch = 1 /\ cell'.generation = 1
  /\ cell'.token = 1 \/ ~cell'.refreshable

Ends == cell' = Ended /\ connect' # "establishing"

Renews ==
  /\ connect = "ready" /\ connect' = connect
  /\ cell.epoch = 1 /\ cell'.epoch = 1
  /\ cell'.generation = cell.generation + 1
  /\ cell'.token > cell.token
  /\ cell'.refreshable
  /\ \E c \in Callers : pc[c] = "cas" /\ Version(cell) = frame[c].seen

CellStep == UNCHANGED <<cell, connect>> \/ Connects \/ Ends \/ Renews

LEMMA ConnectCell == ASSUME IInv, ConnectStep PROVE Connects \/ Ends
BY DEF IInv, CellInv, ConnectStep, ConnectWithToken, ConnectAnonymous,
   ConnectFails, Connects, Ends, Fresh, State, NoToken

LEMMA PublishCell == ASSUME IInv, NEW c \in Callers, Publish(c) PROVE Renews
<1>1. pc[c] = "cas" /\ pc[c] \in LeaderLabels
  BY DEF Publish, LeaderLabels, RunningLabels
<1>2. /\ cell \in States /\ connect = "ready" /\ frame[c].seen.epoch = 1
      /\ frame[c].fresh \in (cell.token + 1)..minted /\ minted \in Nat
      /\ frame[c] \in Frames
  BY <1>1, LeaderFacts DEF LeaderInv
<1>3. /\ Version(cell) = frame[c].seen /\ connect' = connect
      /\ cell' = State(cell.epoch, cell.generation + 1, frame[c].fresh, TRUE)
  BY DEF Publish
<1>4. cell.epoch = 1
  BY <1>2, <1>3 DEF Version
<1>5. frame[c].fresh > cell.token
  BY <1>2 DEF States
<1>6. QED
  BY <1>1, <1>2, <1>3, <1>4, <1>5 DEF Renews, State

LEMMA CellSteps == ASSUME IInv, [Next]_vars PROVE CellStep
<1>1. CASE ConnectStep
  BY <1>1, ConnectCell DEF CellStep
<1>2. ASSUME NEW c \in Callers, LocalStep(c) PROVE CellStep
  <2>1. CASE Publish(c)
    BY <2>1, PublishCell DEF CellStep
  <2>2. CASE EndSession(c)
    BY <2>2 DEF CellStep, Ends, EndSession, IInv, CallerInv
  <2>3. CASE ~Publish(c) /\ ~EndSession(c)
    BY <1>2, <2>3 DEF LocalStep, CellStep, CheckLifetime, ReenterInvoke,
       LoadObserved, BuildRequest, Dispatch, DispatchFails, SurfaceUnauthorized,
       ReplayWithoutRefresh, ReplayAfterRefresh, CheckRefreshable, JoinRefresh,
       FindAdvanced, LeadRefresh, JoinDone, ReturnCanceled, StartLogin,
       LoadToPublish, DropSuperseded, PublishRaced, Settle, CloseDone,
       LoadToRevoke, SendRevoke, CloseTransports
  <2>4. QED
    BY <2>1, <2>2, <2>3
<1>3. ASSUME NEW c \in Callers, NetworkStep(c) PROVE CellStep
  BY <1>3 DEF NetworkStep, CellStep, Answered, Unauthorized, RequestFails,
     LoginSucceeds, LoginFails, Revoked, RevokeFails
<1>4. ASSUME NEW c \in Callers,
             (\E k \in CallKinds : Begin(c, k)) \/ BeginClose(c) \/ Cancel(c)
      PROVE  CellStep
  BY <1>4 DEF CellStep, Begin, BeginClose, Cancel
<1>5. CASE (\E t \in valid : Expire(t)) \/ UNCHANGED vars
  BY <1>5 DEF CellStep, Expire, vars
<1>6. QED
  BY <1>1, <1>2, <1>3, <1>4, <1>5 DEF Next

(* The steps that load the cell into a request load the current one.       *)
LEMMA AuthSteps ==
  ASSUME IInv, [Next]_vars, NEW c \in Callers,
         frame'[c].auth # frame[c].auth
  PROVE  frame'[c].auth.token = NoToken \/ frame'[c].auth = cell
<1>0. frame \in [Callers -> Frames] /\ EmptyFrame.auth.token = NoToken
  BY DEF IInv, TypeOK, EmptyFrame, Fresh, State
<1> DEFINE OK(f) == \/ f.auth = frame[c].auth \/ f.auth = cell
                    \/ f.auth.token = NoToken
<1>1. ASSUME NEW d \in Callers, NEW f, frame' = [frame EXCEPT ![d] = f], OK(f)
      PROVE  OK(frame'[c])
  BY <1>0, <1>1
<1>2. ASSUME NEW d \in Callers, NEW r, Return(d, r) PROVE OK(frame'[c])
  BY <1>0, <1>2 DEF Return
<1>3. ASSUME frame' = frame PROVE OK(frame'[c])
  BY <1>3
<1>4. ASSUME NEW d \in Callers, LocalStep(d) PROVE OK(frame'[c])
  <2>1. CASE LoadObserved(d)
    BY <1>0, <2>1 DEF LoadObserved, GotoWith, Frames
  <2>2. CASE BuildRequest(d) \/ LoadToRevoke(d)
    BY <1>0, <2>2 DEF BuildRequest, LoadToRevoke, GotoWith, Goto, Frames
  <2>3. CASE Dispatch(d)
    BY <1>0, <2>3 DEF Dispatch, GotoWith, Frames
  <2>4. CASE CheckRefreshable(d)
    BY <1>0, <1>2, <2>4 DEF CheckRefreshable, GotoWith, Frames
  <2>5. CASE /\ ~LoadObserved(d) /\ ~BuildRequest(d) /\ ~LoadToRevoke(d)
             /\ ~Dispatch(d) /\ ~CheckRefreshable(d)
    <3>1. frame' = frame \/ \E r : Return(d, r)
      BY <1>4, <2>5 DEF LocalStep, CheckLifetime, ReenterInvoke, DispatchFails,
         SurfaceUnauthorized, ReplayWithoutRefresh, ReplayAfterRefresh,
         JoinRefresh, FindAdvanced, LeadRefresh, JoinDone, ReturnCanceled,
         StartLogin, LoadToPublish, DropSuperseded, Publish, PublishRaced,
         Settle, CloseDone, SendRevoke, EndSession, CloseTransports, Goto,
         Fail, AfterRefresh
    <3>2. QED
      BY <1>2, <1>3, <3>1
  <2>6. QED
    BY <2>1, <2>2, <2>3, <2>4, <2>5
<1>5. ASSUME NEW d \in Callers, NetworkStep(d) PROVE OK(frame'[c])
  <2>1. CASE LoginSucceeds(d)
    BY <1>0, <2>1 DEF LoginSucceeds, GotoWith, Frames
  <2>2. CASE ~LoginSucceeds(d)
    <3>1. frame' = frame \/ \E r : Return(d, r)
      BY <1>5, <2>2 DEF NetworkStep, Answered, Unauthorized, RequestFails,
         LoginFails, Revoked, RevokeFails, Goto, Fail
    <3>2. QED
      BY <1>2, <1>3, <3>1
  <2>3. QED
    BY <2>1, <2>2
<1>6. ASSUME NEW d \in Callers,
             (\E k \in CallKinds : Begin(d, k)) \/ BeginClose(d)
      PROVE  OK(frame'[c])
  <2>1. frame' = frame \/ \E r : Return(d, r)
    BY <1>6 DEF Begin, BeginClose, Start
  <2>2. QED
    BY <1>2, <1>3, <2>1
<1>7. ASSUME NEW d \in Callers, Cancel(d) PROVE OK(frame'[c])
  BY <1>0, <1>7 DEF Cancel, Frames
<1>8. CASE ConnectStep \/ (\E t \in valid : Expire(t)) \/ UNCHANGED vars
  BY <1>3, <1>8 DEF ConnectStep, ConnectWithToken, ConnectAnonymous,
     ConnectFails, Expire, vars
<1>9. QED
  BY <1>4, <1>5, <1>6, <1>7, <1>8 DEF Next

(* Once Logout or Close has swapped the cell, nothing puts a token back    *)
(* and no request built later carries one (client.go:131-133,              *)
(* refresh.go:91-95), whatever login is still running.                     *)
THEOREM EndedStaysEnded == Spec => NeverResurrected
<1>1. ASSUME IInv, [Next]_vars, cell.epoch = 0
      PROVE  /\ cell' = cell
             /\ \A c \in Callers :
                  frame'[c].auth # frame[c].auth => frame'[c].auth.token = NoToken
  <2>1. cell = Ended /\ cell.token = NoToken /\ connect # "establishing"
    BY <1>1 DEF IInv, CellInv, Ended, Fresh, State
  <2>2. cell' = cell
    BY <1>1, <2>1, CellSteps DEF CellStep, Connects, Ends, Renews
  <2>3. QED
    BY <1>1, <2>1, <2>2, AuthSteps
<1>2. QED
  BY <1>1, Invariance, PTL DEF Spec, NeverResurrected

(* A live session moves forward one generation and one newer token at a    *)
(* time (token.go:33-34).                                                  *)
THEOREM GenerationsAdvance == Spec => OneTokenPerGeneration
<1>1. ASSUME IInv, [Next]_vars, cell' # cell, cell'.epoch = 1, connect = "ready"
      PROVE  /\ cell'.generation = cell.generation + 1
             /\ cell'.token > cell.token
  BY <1>1, CellSteps DEF CellStep, Connects, Ends, Renews, Ended, State
<1>2. QED
  BY <1>1, Invariance, PTL DEF Spec, OneTokenPerGeneration

(***************************************************************************)
(* The invariant of the calls, taken apart: what one call owes, what the   *)
(* operations owe, and when a 401 may be reported after all.               *)
(***************************************************************************)
Excuse ==
  \/ cell.epoch = 0
  \/ ~cell.refreshable
  \/ \E t \in 2..minted : t \notin valid

HoldsOutcome(c) ==
  /\ pc[c] # "idle" => res[c] \in RefreshOutcomes
  /\ pc[c] = "done" => joined[c] # inflight /\ res[c] = ops[joined[c]].err

SharesOutcome(c) ==
  pc[c] = "idle" /\ kind[c] = "refresh" /\ joined[c] # NoOp /\ res[c] # "canceled"
    => ops[joined[c]].done /\ res[c] = ops[joined[c]].err

Excused(c) ==
  pc[c] = "idle" /\ kind[c] \in {"invoke", "lifetime"} /\ res[c] = "401" => Excuse

Mine(c) ==
  KindInv(c) /\ ReplayInv(c) /\ HoldsOutcome(c) /\ SharesOutcome(c) /\ Excused(c)

SettledOps ==
  \A i \in OpIds : /\ ops[i].done => i \in 1..nops /\ i # inflight
                   /\ ops[i].err \in RefreshOutcomes

LEMMA CallInvParts ==
  CallInv <=> SettledOps /\ RenewedInv /\ \A c \in Callers : Mine(c)
BY DEF CallInv, OutcomeInv, JoinersShareTheOutcome, TransparentRenewal,
   SettledOps, Mine, HoldsOutcome, SharesOutcome, Excused, Excuse

LEMMA InitCallInv == Init => CallInv
<1> SUFFICES ASSUME Init PROVE CallInv
  OBVIOUS
<1>1. SettledOps /\ RenewedInv
  BY DEF Init, SettledOps, RefreshOutcomes, RenewedInv, UnusedOp, Fresh, State, NoToken
<1>2. ASSUME NEW c \in Callers PROVE Mine(c)
  BY DEF Init, Mine, KindInv, ReplayInv, HoldsOutcome, SharesOutcome, Excused,
     EmptyFrame, Version, Fresh, State, Nil, LeaderLabels, RunningLabels
<1>3. QED
  BY <1>1, <1>2, CallInvParts

(* The cell, as the calls see it move.                                     *)
LEMMA CellOrder ==
  ASSUME IInv, IInv', CallInv, CellStep
  PROVE  /\ cell.epoch = 0 => cell'.epoch = 0
         /\ connect # "establishing" =>
              /\ cell'.epoch = 0 \/ cell.generation <= cell'.generation
              /\ \/ cell' = cell
                 \/ cell'.epoch = 0
                 \/ cell.refreshable /\ cell'.refreshable
         /\ cell'.refreshable => cell'.token >= 1
         /\ cell'.generation >= 2 => cell'.token >= 2
         /\ connect' = "ready" /\ cell'.epoch = 1 => cell'.generation >= 1
<1>1. cell \in States /\ cell' \in States
  BY DEF IInv, TypeOK
<1>1a. RenewedInv /\ \A c \in Callers : ReplayInv(c)
  BY DEF CallInv
<1>2. CASE cell' = cell /\ connect' = connect
  BY <1>1, <1>1a, <1>2 DEF States, RenewedInv
<1>3. CASE Connects
  BY <1>1, <1>3 DEF States, Connects, IInv, CellInv, Fresh, State
<1>4. CASE Ends
  BY <1>1, <1>4 DEF States, Ends, Ended, State, NoToken
<1>5. CASE Renews
  <2>1. /\ cell.generation \in Nat /\ cell.token \in Nat /\ cell'.token \in Nat
        /\ cell'.generation = cell.generation + 1 /\ cell'.token > cell.token
        /\ cell'.epoch = 1 /\ cell.epoch = 1 /\ connect = "ready" /\ cell'.refreshable
    BY <1>1, <1>5 DEF States, Renews
  <2>2. cell.generation >= 1
    BY <1>1a, <2>1 DEF RenewedInv
  <2>3. cell.refreshable
    BY <1>1a, <1>5 DEF Renews, ReplayInv, LeaderLabels, RunningLabels
  <2>4. cell.token >= 1
    BY <1>1a, <2>3 DEF RenewedInv
  <2>5. QED
    BY <1>5, <2>1, <2>2, <2>3, <2>4 DEF Renews
<1>6. QED
  BY <1>2, <1>3, <1>4, <1>5 DEF CellStep

(* A settled operation keeps its outcome, and what is done stays done.     *)
OpsKept ==
  \A i \in 1..nops : i # inflight =>
    /\ i # inflight'
    /\ ops'[i].err = ops[i].err
    /\ ops[i].done => ops'[i].done

OpsStep ==
  OpsKept /\ SettledOps' /\ \A i \in 1..nops' : ops'[i].generation >= 1

LEMMA OpsUntouched ==
  ASSUME CallInv, UNCHANGED refreshVars
  PROVE  OpsStep
BY DEF CallInv, OutcomeInv, RenewedInv, OpsStep, OpsKept, SettledOps

LEMMA OpsBase ==
  ASSUME IInv, CallInv
  PROVE  /\ MaxCalls \in Nat /\ nops \in 0..MaxCalls /\ inflight \in 0..nops
         /\ ops \in [OpIds -> [generation : Nat, err : Results, done : BOOLEAN]]
         /\ SettledOps /\ RenewedInv
         /\ \A c \in Callers : Mine(c) /\ CallerInv(c) /\ LeaderInv(c)
BY MaxCallsAssumption, CallInvParts DEF IInv, TypeOK

LEMMA LeadOps ==
  ASSUME IInv, CallInv, NEW c \in Callers, LeadRefresh(c)
  PROVE  OpsStep
<1>1. /\ MaxCalls \in Nat /\ nops \in Nat /\ nops + 1 \in OpIds /\ nops' = nops + 1
      /\ ops \in [OpIds -> [generation : Nat, err : Results, done : BOOLEAN]]
      /\ inflight' = nops + 1 /\ inflight = NoOp
      /\ ops' = [ops EXCEPT ![nops + 1].generation = frame[c].seen.generation]
      /\ \A i \in 1..nops : i \in OpIds /\ i # nops + 1
  BY OpsBase DEF LeadRefresh, OpIds
<1>2. frame[c].seen.generation >= 1
  BY OpsBase DEF LeadRefresh, Mine, ReplayInv, CallerInv
<1>3. /\ \A i \in 1..nops : ops'[i] = ops[i]
      /\ \A i \in OpIds : ops'[i].done = ops[i].done
      /\ ops'[nops + 1].generation >= 1
  BY <1>1, <1>2
<1>4. OpsKept
  BY <1>1, <1>3 DEF OpsKept
<1>5. SettledOps'
  BY <1>1, <1>3, OpsBase DEF SettledOps
<1>6. \A i \in 1..nops' : ops'[i].generation >= 1
  BY <1>1, <1>3, OpsBase DEF RenewedInv
<1>7. QED
  BY <1>4, <1>5, <1>6 DEF OpsStep

LEMMA SettleOps ==
  ASSUME IInv, CallInv, NEW c \in Callers, Settle(c)
  PROVE  /\ OpsStep /\ joined[c] \in 1..nops /\ joined[c] = inflight
         /\ inflight' = NoOp /\ nops' = nops /\ ops'[joined[c]].err = res[c]
<1>1. joined[c] \in 1..nops /\ joined[c] = inflight
  BY OpsBase DEF Settle, CallerInv, LeaderInv, LeaderLabels, RunningLabels
<1>2. /\ inflight' = NoOp /\ nops' = nops
      /\ ops' = [ops EXCEPT ![joined[c]].err = res[c]]
      /\ \A i \in 1..nops : i \in OpIds
  BY OpsBase DEF Settle, OpIds
<1>3. /\ \A i \in 1..nops : i # inflight => ops'[i].err = ops[i].err
      /\ \A i \in OpIds : ops'[i].done = ops[i].done
      /\ \A i \in OpIds : ops'[i].generation = ops[i].generation
      /\ ops'[joined[c]].err = res[c]
  BY <1>1, <1>2, OpsBase
<1>4. OpsKept
  BY <1>2, <1>3 DEF OpsKept, NoOp
<1>5. SettledOps'
  <2>1. res[c] \in RefreshOutcomes
    BY OpsBase DEF Mine, HoldsOutcome, Settle
  <2>2. QED
    BY <1>2, <1>3, <2>1, OpsBase DEF SettledOps, NoOp
<1>6. \A i \in 1..nops' : ops'[i].generation >= 1
  BY <1>2, <1>3, OpsBase DEF RenewedInv
<1>7. QED
  BY <1>1, <1>2, <1>3, <1>4, <1>5, <1>6 DEF OpsStep

LEMMA CloseOps ==
  ASSUME IInv, CallInv, NEW c \in Callers, CloseDone(c)
  PROVE  /\ OpsStep /\ joined[c] \in 1..nops /\ joined[c] # inflight
         /\ inflight' = inflight /\ nops' = nops
         /\ ops'[joined[c]].done /\ ops'[joined[c]].err = ops[joined[c]].err
<1>1. joined[c] \in 1..nops /\ joined[c] # inflight
  BY OpsBase DEF CloseDone, CallerInv, Mine, HoldsOutcome
<1>2. /\ inflight' = inflight /\ nops' = nops
      /\ ops' = [ops EXCEPT ![joined[c]].done = TRUE]
      /\ \A i \in 1..nops : i \in OpIds
  BY OpsBase DEF CloseDone, OpIds
<1>3. /\ \A i \in OpIds : ops'[i].err = ops[i].err
      /\ \A i \in OpIds : ops'[i].generation = ops[i].generation
      /\ \A i \in OpIds : ops'[i].done <=> ops[i].done \/ i = joined[c]
  BY <1>1, <1>2, OpsBase
<1>4. OpsKept
  BY <1>2, <1>3 DEF OpsKept
<1>5. SettledOps'
  BY <1>1, <1>2, <1>3, OpsBase DEF SettledOps
<1>6. \A i \in 1..nops' : ops'[i].generation >= 1
  BY <1>2, <1>3, OpsBase DEF RenewedInv
<1>7. QED
  BY <1>1, <1>2, <1>3, <1>4, <1>5, <1>6 DEF OpsStep

LEMMA OpsSteps ==
  ASSUME IInv, CallInv, [Next]_vars
  PROVE  OpsStep
<1>1. ASSUME NEW c \in Callers, LocalStep(c) PROVE OpsStep
  <2>1. CASE LeadRefresh(c) \/ Settle(c) \/ CloseDone(c)
    BY <2>1, LeadOps, SettleOps, CloseOps
  <2>2. CASE ~LeadRefresh(c) /\ ~Settle(c) /\ ~CloseDone(c)
    BY <1>1, <2>2, OpsUntouched DEF LocalStep, CheckLifetime, ReenterInvoke,
       LoadObserved, BuildRequest, Dispatch, DispatchFails, SurfaceUnauthorized,
       ReplayWithoutRefresh, ReplayAfterRefresh, CheckRefreshable, JoinRefresh,
       FindAdvanced, JoinDone, ReturnCanceled, StartLogin,
       LoadToPublish, DropSuperseded, Publish, PublishRaced,
       LoadToRevoke, SendRevoke, EndSession, CloseTransports
  <2>3. QED
    BY <2>1, <2>2
<1>2. CASE ~\E c \in Callers : LocalStep(c)
  BY <1>2, OpsUntouched DEF Next, vars, ConnectStep, ConnectWithToken,
     ConnectAnonymous, ConnectFails, Begin, BeginClose, NetworkStep, Answered,
     Unauthorized, RequestFails, LoginSucceeds, LoginFails, Revoked,
     RevokeFails, Cancel, Expire
<1>3. QED
  BY <1>1, <1>2

(* The appliance mints new tokens and never takes a lapsed one back.       *)
ApplianceStep ==
  minted <= minted' /\ \A t \in 2..minted : t \notin valid => t \notin valid'

LEMMA ApplianceSteps ==
  ASSUME IInv, [Next]_vars
  PROVE  ApplianceStep
<1>0. minted \in Nat /\ (connect = "establishing" => minted = 0)
  BY DEF IInv, TypeOK, CellInv
<1>1. CASE ConnectStep
  <2>1. connect = "establishing" /\ minted' \in {1, minted}
    BY <1>1 DEF ConnectStep, ConnectWithToken, ConnectAnonymous, ConnectFails
  <2>2. minted = 0 /\ \A t \in 2..minted : FALSE
    BY <1>0, <2>1
  <2>3. QED
    BY <2>1, <2>2 DEF ApplianceStep
<1>2. CASE \E c \in Callers : LoginSucceeds(c)
  BY <1>0, <1>2 DEF ApplianceStep, LoginSucceeds
<1>3. CASE \E c \in Callers : Revoked(c)
  BY <1>0, <1>3 DEF ApplianceStep, Revoked
<1>4. ASSUME NEW c \in Callers, LocalStep(c) PROVE ApplianceStep
  <2>1. minted' = minted /\ valid' = valid
    BY <1>4 DEF LocalStep, CheckLifetime, ReenterInvoke,
       LoadObserved, BuildRequest, Dispatch, DispatchFails, SurfaceUnauthorized,
       ReplayWithoutRefresh, ReplayAfterRefresh, CheckRefreshable, JoinRefresh,
       FindAdvanced, LeadRefresh, JoinDone, ReturnCanceled, StartLogin,
       LoadToPublish, DropSuperseded, Publish, PublishRaced, Settle, CloseDone,
       LoadToRevoke, SendRevoke, EndSession, CloseTransports
  <2>2. QED
    BY <1>0, <2>1 DEF ApplianceStep
<1>5. CASE /\ ~ConnectStep
           /\ ~\E c \in Callers : LoginSucceeds(c) \/ Revoked(c) \/ LocalStep(c)
  <2>1. minted' = minted /\ valid' \subseteq valid
    BY <1>5 DEF Next, vars, Begin, BeginClose, NetworkStep, Answered,
       Unauthorized, RequestFails, LoginFails, RevokeFails, Cancel, Expire
  <2>2. QED
    BY <1>0, <2>1 DEF ApplianceStep
<1>6. QED
  BY <1>1, <1>2, <1>3, <1>4, <1>5

(* What any step does to the cell, the operations and the appliance.       *)
LEMMA WorldStep ==
  ASSUME IInv, IInv', CallInv, [Next]_vars
  PROVE  /\ cell.epoch = 0 => cell'.epoch = 0
         /\ connect # "establishing" =>
              /\ connect' = connect
              /\ cell'.epoch = 0 \/ cell.generation <= cell'.generation
              /\ \/ cell' = cell
                 \/ cell'.epoch = 0
                 \/ cell.refreshable /\ cell'.refreshable
         /\ cell \in States /\ cell' \in States
         /\ OpsStep /\ ApplianceStep /\ RenewedInv'
<1>1. CellStep /\ OpsStep /\ ApplianceStep
  BY CellSteps, OpsSteps, ApplianceSteps
<1>2. cell \in States /\ cell' \in States
  BY DEF IInv, TypeOK
<1>3. connect # "establishing" => connect' = connect
  BY DEF Next, vars, ConnectStep, ConnectWithToken, ConnectAnonymous,
     ConnectFails, Begin, BeginClose, NewCall, LocalStep, CheckLifetime,
     ReenterInvoke, LoadObserved, BuildRequest, Dispatch, DispatchFails,
     SurfaceUnauthorized, ReplayWithoutRefresh, ReplayAfterRefresh,
     CheckRefreshable, JoinRefresh, FindAdvanced, LeadRefresh, JoinDone,
     ReturnCanceled, StartLogin, LoadToPublish, DropSuperseded, Publish,
     PublishRaced, Settle, CloseDone, LoadToRevoke, SendRevoke, EndSession,
     CloseTransports, NetworkStep, Answered, Unauthorized, RequestFails,
     LoginSucceeds, LoginFails, Revoked, RevokeFails, Cancel, Expire
<1>4. RenewedInv'
  BY <1>1, CellOrder DEF RenewedInv, OpsStep
<1>5. QED
  BY <1>1, <1>2, <1>3, <1>4, CellOrder

LEMMA ExcuseKept ==
  ASSUME IInv, IInv', CallInv, [Next]_vars, connect # "establishing", Excuse
  PROVE  Excuse'
<1>1. minted \in Nat /\ minted' \in Nat
  BY DEF IInv, TypeOK
<1>2. CASE cell.epoch = 0 \/ ~cell.refreshable
  BY <1>2, WorldStep DEF Excuse
<1>3. CASE \E t \in 2..minted : t \notin valid
  <2>1. PICK t \in 2..minted : t \notin valid
    BY <1>3
  <2>2. t \in 2..minted' /\ t \notin valid'
    BY <1>1, <2>1, WorldStep DEF ApplianceStep
  <2>3. QED
    BY <2>2 DEF Excuse
<1>4. QED
  BY <1>2, <1>3 DEF Excuse

(* What a call saw stays behind the cell, whoever moves it.                *)
Bound ==
  {"build", "dispatch", "flight", "classify", "enter", "wait", "done"}
    \cup LeaderLabels
Renewing == {"enter"} \cup LeaderLabels

LEMMA SeenKept ==
  ASSUME IInv, IInv', CallInv, [Next]_vars, NEW c \in Callers
  PROVE  /\ frame[c].seen.epoch = 0 => cell'.epoch = 0
         /\ pc[c] \in Bound /\ frame[c].seen.epoch = 1
              => frame[c].seen.generation >= 1
         /\ pc[c] \in Renewing /\ Version(cell)' = frame[c].seen
              => cell'.refreshable
         /\ connect = "ready" /\ (cell.epoch = 0 \/ cell.generation >= 2)
              => cell'.epoch = 0 \/ cell'.generation >= 2
<1>1. ReplayInv(c) /\ CallerInv(c)
  BY OpsBase DEF Mine
<1>2. CASE pc[c] \in Renewing /\ Version(cell)' = frame[c].seen
  <2>1. frame[c].seen.epoch = 1 /\ connect = "ready"
    BY <1>1, <1>2 DEF CallerInv, Renewing, LeaderLabels, RunningLabels
  <2>2. cell'.epoch = 1
    BY <1>2, <2>1 DEF Version
  <2>3. cell' = cell => cell.refreshable
    BY <1>1, <1>2 DEF ReplayInv, Renewing, Version
  <2>4. cell'.refreshable
    BY <2>1, <2>2, <2>3, WorldStep
  <2>5. QED
    BY <1>1, <2>1, <2>4, WorldStep DEF ReplayInv, Bound, States
<1>3. QED
  BY <1>1, <1>2, WorldStep DEF ReplayInv, Bound, States

(* A caller that does not move.                                            *)
LEMMA OtherMine ==
  ASSUME IInv, IInv', CallInv, [Next]_vars, NEW c \in Callers,
         pc'[c] = pc[c], frame'[c] = frame[c], res'[c] = res[c],
         kind'[c] = kind[c], joined'[c] = joined[c]
  PROVE  Mine(c)'
<1>1. Mine(c) /\ CallerInv(c) /\ SettledOps /\ joined \in [Callers -> 0..nops]
      /\ MaxCalls \in Nat /\ nops \in 0..MaxCalls
  BY OpsBase DEF IInv, TypeOK
<1>2. connect = "ready" \/ pc[c] = "idle"
  BY <1>1 DEF CallerInv
<1>3. KindInv(c)'
  <2>1. connect' = "establishing" => connect = "establishing"
    BY WorldStep
  <2>2. QED
    BY <1>1, <2>1 DEF Mine, KindInv
<1>4. ReplayInv(c)'
  BY <1>1, <1>2, SeenKept, WorldStep DEF Mine, ReplayInv, Bound, Renewing,
     LeaderLabels, RunningLabels
<1>5. HoldsOutcome(c)'
  BY <1>1, WorldStep DEF Mine, HoldsOutcome, OpsStep, OpsKept, CallerInv
<1>6. SharesOutcome(c)'
  <2>1. joined[c] # NoOp => joined[c] \in 1..nops /\ joined[c] \in OpIds
    BY <1>1 DEF NoOp, OpIds
  <2>2. QED
    BY <1>1, <2>1, WorldStep
       DEF Mine, SharesOutcome, OpsStep, OpsKept, SettledOps
<1>7. Excused(c)'
  BY <1>1, ExcuseKept DEF Mine, Excused, KindInv, Nil
<1>8. QED
  BY <1>3, <1>4, <1>5, <1>6, <1>7 DEF Mine

(* A caller that moves on inside its call.                                 *)
LEMMA MovesMine ==
  ASSUME IInv, IInv', CallInv, [Next]_vars, NEW c \in Callers, NEW l,
         pc'[c] = l, frame'[c] = frame[c], res'[c] \in RefreshOutcomes,
         l \notin {"idle", "done", "dispatch", "flight"},
         l \in Bound => pc[c] \in Bound,
         l \in Renewing => pc[c] \in Renewing \/ cell'.refreshable,
         l = "build" => cell'.epoch = 0 \/ cell'.generation >= 2,
         KindInv(c)'
  PROVE  Mine(c)'
<1>1. ReplayInv(c)'
  BY SeenKept DEF ReplayInv, Bound, Renewing, LeaderLabels, RunningLabels
<1>2. QED
  BY <1>1 DEF Mine, HoldsOutcome, SharesOutcome, Excused

(* A caller that returns.                                                  *)
LEMMA ReturnMine ==
  ASSUME IInv, IInv', CallInv, [Next]_vars, NEW c \in Callers, NEW r,
         Return(c, r), connect = "ready",
         kind'[c] = "refresh" /\ joined'[c] # NoOp /\ r # "canceled"
           => ops'[joined'[c]].done /\ r = ops'[joined'[c]].err,
         kind'[c] \in {"invoke", "lifetime"} /\ r = "401" => Excuse'
  PROVE  Mine(c)'
<1>1. pc'[c] = "idle" /\ frame'[c] = EmptyFrame /\ res'[c] = r /\ connect' = "ready"
  BY WorldStep DEF Return, IInv, TypeOK
<1>2. EmptyFrame.sent = 0 /\ EmptyFrame.seen.epoch = 1
  BY DEF EmptyFrame, Version, Fresh, State
<1>3. KindInv(c)' /\ ReplayInv(c)'
  BY <1>1, <1>2 DEF KindInv, ReplayInv, LeaderLabels, RunningLabels
<1>4. QED
  BY <1>1, <1>3 DEF Mine, HoldsOutcome, SharesOutcome, Excused

LEMMA GotoFacts ==
  ASSUME IInv, NEW c \in Callers, NEW l, Goto(c, l)
  PROVE  pc'[c] = l /\ frame'[c] = frame[c] /\ res'[c] = res[c]
BY DEF Goto, IInv, TypeOK

LEMMA GotoWithFacts ==
  ASSUME IInv, NEW c \in Callers, NEW l, NEW f, GotoWith(c, l, f)
  PROVE  pc'[c] = l /\ frame'[c] = f /\ res'[c] = res[c]
BY DEF GotoWith, IInv, TypeOK

LEMMA Acting ==
  ASSUME IInv, IInv', CallInv, [Next]_vars, NEW c \in Callers, pc[c] # "idle"
  PROVE  /\ connect = "ready" /\ connect' = "ready"
         /\ Mine(c) /\ CallerInv(c) /\ frame[c] \in Frames
BY OpsBase, WorldStep DEF CallerInv, IInv, TypeOK

LEMMA NewCallMine ==
  ASSUME IInv, IInv', CallInv, [Next]_vars, NEW c \in Callers,
         (\E k \in CallKinds : Begin(c, k)) \/ BeginClose(c)
  PROVE  Mine(c)'
<1>1. PICK k \in Kinds : NewCall(c, k) /\
        \/ \E r \in {"ErrClosed", Nil} : Return(c, r)
        \/ Start(c, Entry(k))
  BY CallKindsAssumption DEF Begin, BeginClose, Kinds
<1>2. /\ connect = "ready" /\ pc[c] = "idle" /\ kind'[c] = k /\ joined'[c] = NoOp
      /\ Mine(c)
  BY <1>1, OpsBase DEF NewCall, IInv, TypeOK
<1>3. CASE \E r \in {"ErrClosed", Nil} : Return(c, r)
  BY <1>2, <1>3, ReturnMine DEF Nil
<1>4. CASE Start(c, Entry(k))
  <2>1. pc'[c] = Entry(k) /\ frame'[c] = frame[c] /\ res'[c] = Nil
    BY <1>4 DEF Start, IInv, TypeOK
  <2>2. /\ k = "refresh" => Entry(k) = "check"
        /\ k = "upload" => Entry(k) = "load"
        /\ Entry(k) \in {"load", "lifetime", "check", "logout", "swap"}
    BY DEF Entry, Kinds
  <2>3. frame[c].sent = 0
    BY <1>2 DEF Mine, KindInv
  <2>4. KindInv(c)'
    BY <1>2, <2>1, <2>2, <2>3 DEF KindInv
  <2>5. Entry(k) \notin {"idle", "done", "dispatch", "flight", "build"}
                        \cup Bound \cup Renewing
    BY <2>2 DEF Bound, Renewing, LeaderLabels, RunningLabels
  <2> HIDE DEF Entry
  <2>6. Nil \in RefreshOutcomes
    BY DEF RefreshOutcomes
  <2>7. QED
    BY <1>2, <2>1, <2>4, <2>5, <2>6, MovesMine
<1>5. QED
  BY <1>1, <1>3, <1>4

(* The first request and its replay.                                       *)
LEMMA RequestMine ==
  ASSUME IInv, IInv', CallInv, [Next]_vars, NEW c \in Callers,
         \/ LoadObserved(c) \/ BuildRequest(c) \/ Dispatch(c)
  PROVE  Mine(c)'
<1>1. pc[c] \in {"load", "build", "dispatch"} /\ pc[c] # "idle"
  BY DEF LoadObserved, BuildRequest, Dispatch
<1>2. /\ connect = "ready" /\ connect' = "ready" /\ Mine(c) /\ frame[c] \in Frames
      /\ CallerInv(c)
  BY <1>1, Acting
<1>3. cell' = cell /\ kind' = kind /\ joined' = joined /\ cell \in States
  BY DEF LoadObserved, BuildRequest, Dispatch, IInv, TypeOK
<1>4. CASE LoadObserved(c)
  <2> DEFINE f == [frame[c] EXCEPT !.seen = Version(cell)]
  <2>1. pc'[c] = "build" /\ frame'[c] = f /\ res'[c] = res[c]
    BY <1>4, GotoWithFacts DEF LoadObserved
  <2>2. f.seen = Version(cell) /\ f.sent = frame[c].sent /\ frame[c].sent = 0
    BY <1>2, <1>4 DEF Frames, Mine, KindInv, LoadObserved
  <2>3. cell.epoch = 1 => cell.generation >= 1
    BY <1>2, OpsBase DEF RenewedInv
  <2> HIDE DEF f
  <2>4. ReplayInv(c)'
    BY <1>3, <2>1, <2>2, <2>3 DEF ReplayInv, Version, LeaderLabels, RunningLabels
  <2>5. KindInv(c)'
    BY <1>2, <1>3, <1>4, <2>1, <2>2 DEF Mine, KindInv, LoadObserved,
       LeaderLabels, RunningLabels
  <2>6. QED
    BY <1>1, <1>2, <2>1, <2>4, <2>5 DEF Mine, HoldsOutcome, SharesOutcome, Excused
<1>5. CASE BuildRequest(c)
  <2> DEFINE f == [frame[c] EXCEPT !.auth = cell]
  <2>1. pc'[c] = "dispatch" /\ frame'[c] = f /\ res'[c] = res[c] /\ pc[c] = "build"
    BY <1>5, GotoWithFacts DEF BuildRequest
  <2>2. f.seen = frame[c].seen /\ f.sent = frame[c].sent /\ f.auth = cell
    BY <1>2 DEF Frames
  <2>3. frame[c].sent = 1 => cell.epoch = 0 \/ cell.token >= 2
    BY <1>2, <2>1, OpsBase DEF Mine, ReplayInv, RenewedInv
  <2> HIDE DEF f
  <2>4. ReplayInv(c)'
    BY <1>2, <1>3, <2>1, <2>2, <2>3 DEF Mine, ReplayInv, LeaderLabels, RunningLabels
  <2>5. KindInv(c)'
    BY <1>2, <1>3, <2>1, <2>2 DEF Mine, KindInv, LeaderLabels, RunningLabels
  <2>6. QED
    BY <1>1, <1>2, <2>1, <2>4, <2>5 DEF Mine, HoldsOutcome, SharesOutcome, Excused
<1>6. CASE Dispatch(c)
  <2> DEFINE f == [frame[c] EXCEPT !.sent = @ + 1]
  <2>1. pc'[c] = "flight" /\ frame'[c] = f /\ res'[c] = res[c] /\ pc[c] = "dispatch"
    BY <1>6, GotoWithFacts DEF Dispatch
  <2>2. /\ f.seen = frame[c].seen /\ f.sent = frame[c].sent + 1
        /\ f.auth = frame[c].auth /\ frame[c].sent \in 0..1
    BY <1>2, <2>1 DEF Frames, CallerInv
  <2> HIDE DEF f
  <2>2a. f.sent = 2 => frame[c].sent = 1
    BY <2>2
  <2>3. ReplayInv(c)'
    BY <1>2, <1>3, <2>1, <2>2, <2>2a DEF Mine, ReplayInv, LeaderLabels, RunningLabels
  <2>4. kind[c] # "refresh" /\ (kind[c] = "upload" => frame[c].sent = 0)
    BY <1>2, <2>1 DEF Mine, KindInv, LeaderLabels, RunningLabels
  <2>5. f.sent >= 1 /\ (kind[c] = "upload" => f.sent <= 1)
    BY <2>2, <2>4
  <2>6. KindInv(c)'
    BY <1>2, <1>3, <2>1, <2>4, <2>5 DEF KindInv
  <2>7. QED
    BY <1>1, <1>2, <2>1, <2>3, <2>6 DEF Mine, HoldsOutcome, SharesOutcome, Excused
<1>7. QED
  BY <1>4, <1>5, <1>6

(* The steps that answer the request, and a 401 before the replay.         *)
LEMMA AnswerMine ==
  ASSUME IInv, IInv', CallInv, [Next]_vars, NEW c \in Callers,
         \/ CheckLifetime(c) \/ ReenterInvoke(c) \/ DispatchFails(c)
         \/ Answered(c) \/ RequestFails(c) \/ Unauthorized(c)
  PROVE  Mine(c)'
<1>1. pc[c] \in {"lifetime", "reenter", "dispatch", "flight"} /\ pc[c] # "idle"
  BY DEF CheckLifetime, ReenterInvoke, DispatchFails, Answered, RequestFails,
     Unauthorized
<1>2. /\ connect = "ready" /\ connect' = "ready" /\ Mine(c) /\ frame[c] \in Frames
      /\ CallerInv(c) /\ kind[c] # "refresh" /\ res[c] \in RefreshOutcomes
  BY <1>1, Acting DEF Mine, KindInv, HoldsOutcome, LeaderLabels, RunningLabels
<1>3. /\ cell' = cell /\ kind' = kind /\ joined' = joined
      /\ valid' = valid /\ minted' = minted /\ cell \in States
  BY DEF CheckLifetime, ReenterInvoke, DispatchFails, Answered, RequestFails,
     Unauthorized, IInv, TypeOK
<1>4. ASSUME NEW r, Return(c, r), r # "401" PROVE Mine(c)'
  BY <1>2, <1>3, <1>4, ReturnMine
<1>5. CASE Unauthorized(c) /\ ~(Replayable(c) /\ frame[c].sent = 1)
  <2>1. Return(c, "401") /\ pc[c] = "flight" /\ frame[c].auth.token \notin valid
    BY <1>5 DEF Unauthorized
  <2>2. ASSUME kind[c] \in {"invoke", "lifetime"} PROVE Excuse
    <3>1. frame[c].sent = 2
      BY <1>2, <1>5, <2>1, <2>2 DEF Replayable, Frames, Mine, KindInv
    <3>2. cell.epoch = 0 \/ frame[c].auth.token >= 2
      BY <1>2, <2>1, <3>1 DEF Mine, ReplayInv
    <3>3. frame[c].auth.token \in Nat /\ frame[c].auth.token <= minted
      BY <1>2 DEF CallerInv, Frames, States
    <3>4. cell.epoch = 0 \/ frame[c].auth.token \in 2..minted
      BY <3>2, <3>3, OpsBase DEF IInv, TypeOK
    <3>5. QED
      BY <2>1, <3>4 DEF Excuse
  <2>3. QED
    BY <1>2, <1>3, <2>1, <2>2, ReturnMine DEF Excuse
<1>6. CASE Unauthorized(c) /\ Replayable(c) /\ frame[c].sent = 1
  <2>1. pc'[c] = "classify" /\ frame'[c] = frame[c] /\ pc[c] = "flight"
        /\ kind[c] # "upload" /\ res'[c] = res[c]
    BY <1>6, GotoFacts DEF Unauthorized, Replayable
  <2>2. KindInv(c)'
    BY <1>2, <1>3, <2>1 DEF KindInv
  <2>3. QED
    BY <1>2, <1>3, <2>1, <2>2, MovesMine DEF Bound, Renewing, LeaderLabels, RunningLabels
<1>7. CASE \E l \in {"reenter", "load"} : Goto(c, l) /\ pc[c] \in {"lifetime", "reenter"}
  <2>1. PICK l \in {"reenter", "load"} : Goto(c, l)
    BY <1>7
  <2>2. pc'[c] = l /\ frame'[c] = frame[c] /\ res'[c] = res[c]
    BY <2>1, GotoFacts
  <2>3. KindInv(c)'
    BY <1>2, <1>3, <1>7, <2>2 DEF Mine, KindInv
  <2>4. QED
    BY <1>2, <1>3, <2>2, <2>3, MovesMine DEF Bound, Renewing, LeaderLabels, RunningLabels
<1>8. QED
  BY <1>4, <1>5, <1>6, <1>7 DEF CheckLifetime, ReenterInvoke, DispatchFails,
     Answered, RequestFails

(* classify401 and the check of RefreshToken: what is renewed was          *)
(* refreshable, and a 401 is surfaced only when there is an excuse.        *)
LEMMA ClassifyMine ==
  ASSUME IInv, IInv', CallInv, [Next]_vars, NEW c \in Callers,
         \/ SurfaceUnauthorized(c) \/ ReplayWithoutRefresh(c)
         \/ ReplayAfterRefresh(c) \/ CheckRefreshable(c)
  PROVE  Mine(c)'
<1>1. pc[c] \in {"classify", "check"} /\ pc[c] # "idle"
  BY DEF SurfaceUnauthorized, ReplayWithoutRefresh, ReplaysWithoutRefresh,
     ReplayAfterRefresh, CheckRefreshable
<1>2. /\ connect = "ready" /\ connect' = "ready" /\ Mine(c) /\ frame[c] \in Frames
      /\ CallerInv(c) /\ res[c] \in RefreshOutcomes
      /\ KindInv(c) /\ ReplayInv(c)
  BY <1>1, Acting DEF Mine, HoldsOutcome
<1>3. /\ cell' = cell /\ kind' = kind /\ joined' = joined
      /\ valid' = valid /\ minted' = minted /\ cell \in States
  BY DEF SurfaceUnauthorized, ReplayWithoutRefresh, ReplayAfterRefresh,
     CheckRefreshable, IInv, TypeOK
<1>4. CASE SurfaceUnauthorized(c)
  <2>1. Return(c, "401") /\ kind[c] # "refresh"
    BY <1>2, <1>4 DEF SurfaceUnauthorized, KindInv, LeaderLabels, RunningLabels
  <2>2. CASE cell.epoch # frame[c].seen.epoch
    <3>1. cell.epoch = 0
      BY <1>2, <1>3, <2>2 DEF ReplayInv, States, Frames
    <3>2. QED
      BY <1>2, <1>3, <2>1, <3>1, ReturnMine DEF Excuse
  <2>3. CASE Anonymous(cell)
    <3>1. ~cell.refreshable
      BY <1>2, <2>3, OpsBase DEF RenewedInv, Anonymous, NoToken
    <3>2. QED
      BY <1>2, <1>3, <2>1, <3>1, ReturnMine DEF Excuse
  <2>4. CASE ~cell.refreshable
    BY <1>2, <1>3, <2>1, <2>4, ReturnMine DEF Excuse
  <2>5. QED
    BY <1>4, <2>2, <2>3, <2>4 DEF SurfaceUnauthorized
<1>5. CASE ReplayWithoutRefresh(c)
  <2>1. /\ pc[c] = "classify" /\ cell.epoch = frame[c].seen.epoch
        /\ cell.generation # frame[c].seen.generation /\ Goto(c, "build")
    BY <1>5 DEF ReplayWithoutRefresh, ReplaysWithoutRefresh
  <2>2. pc'[c] = "build" /\ frame'[c] = frame[c] /\ res'[c] = res[c]
    BY <2>1, GotoFacts
  <2>3. cell.epoch = 0 \/ cell.generation >= 2
    BY <1>2, <1>3, <2>1 DEF ReplayInv, CallerInv, States, Frames
  <2>4. KindInv(c)'
    BY <1>2, <1>3, <2>1, <2>2 DEF KindInv, LeaderLabels, RunningLabels
  <2>5. QED
    BY <1>2, <1>3, <2>1, <2>2, <2>3, <2>4, MovesMine
       DEF Bound, Renewing, LeaderLabels, RunningLabels
<1>6. CASE ReplayAfterRefresh(c)
  <2>1. pc[c] = "classify" /\ cell.refreshable /\ Goto(c, "enter")
    BY <1>6 DEF ReplayAfterRefresh
  <2>2. pc'[c] = "enter" /\ frame'[c] = frame[c] /\ res'[c] = res[c]
    BY <2>1, GotoFacts
  <2>3. KindInv(c)'
    BY <1>2, <1>3, <2>1, <2>2 DEF KindInv, LeaderLabels, RunningLabels
  <2>4. QED
    BY <1>2, <1>3, <2>1, <2>2, <2>3, MovesMine
       DEF Bound, Renewing, LeaderLabels, RunningLabels
<1>7. CASE CheckRefreshable(c) /\ ~Anonymous(cell) /\ cell.refreshable
  <2> DEFINE f == [frame[c] EXCEPT !.seen = Version(cell)]
  <2>1. pc'[c] = "enter" /\ frame'[c] = f /\ res'[c] = res[c] /\ pc[c] = "check"
    BY <1>7, GotoWithFacts DEF CheckRefreshable
  <2>2. f.seen = Version(cell) /\ f.sent = frame[c].sent
    BY <1>2 DEF Frames
  <2>3. cell.epoch = 1 => cell.generation >= 1
    BY <1>2, OpsBase DEF RenewedInv
  <2> HIDE DEF f
  <2>4. ReplayInv(c)'
    BY <1>3, <1>7, <2>1, <2>2, <2>3 DEF ReplayInv, Version, LeaderLabels,
       RunningLabels
  <2>5. KindInv(c)'
    BY <1>2, <1>3, <2>1, <2>2 DEF KindInv, LeaderLabels, RunningLabels
  <2>6. QED
    BY <1>2, <2>1, <2>4, <2>5 DEF Mine, HoldsOutcome, SharesOutcome, Excused
<1>8. CASE CheckRefreshable(c) /\ ~(~Anonymous(cell) /\ cell.refreshable)
  <2>1. PICK r \in {"ErrNotAuthenticated", "ErrNotRefreshable"} : Return(c, r)
    BY <1>8 DEF CheckRefreshable
  <2>2. pc[c] = "check"
    BY <1>8 DEF CheckRefreshable
  <2>3. kind[c] = "refresh" => joined[c] = NoOp
    BY <1>2, <2>2 DEF KindInv
  <2>4. QED
    BY <1>2, <1>3, <2>1, <2>3, ReturnMine
<1>9. QED
  BY <1>4, <1>5, <1>6, <1>7, <1>8

(* refreshOnce returns: to RefreshToken with the outcome of the operation, *)
(* to send with a session that was renewed or has ended.                   *)
LEMMA AfterRefreshMine ==
  ASSUME IInv, IInv', CallInv, [Next]_vars, NEW c \in Callers, NEW r,
         AfterRefresh(c, r), pc[c] \in {"enter", "wait", "done"},
         kind' = kind, joined' = joined, r # "401",
         kind[c] = "refresh" /\ joined[c] # NoOp /\ r # "canceled"
           => ops'[joined[c]].done /\ r = ops'[joined[c]].err,
         r = Nil => cell.epoch = 0 \/ cell.generation >= 2
  PROVE  Mine(c)'
<1>1. /\ connect = "ready" /\ Mine(c) /\ KindInv(c) /\ res[c] \in RefreshOutcomes
  BY Acting DEF Mine, HoldsOutcome
<1>2. CASE Return(c, r)
  BY <1>1, <1>2, ReturnMine
<1>3. CASE Goto(c, "build") /\ r = Nil /\ kind[c] # "refresh"
  <2>1. pc'[c] = "build" /\ frame'[c] = frame[c] /\ res'[c] = res[c]
    BY <1>3, GotoFacts
  <2>2. KindInv(c)'
    BY <1>1, <1>3, <2>1, Acting DEF KindInv
  <2>3. QED
    BY <1>1, <1>3, <2>1, <2>2, SeenKept, MovesMine
       DEF Bound, Renewing, LeaderLabels, RunningLabels
<1>4. QED
  BY <1>2, <1>3 DEF AfterRefresh

(* The session has moved past an operation that succeeded.                 *)
LEMMA Advanced ==
  ASSUME IInv, CallInv, NEW i \in 1..nops, i # inflight, ops[i].err = Nil
  PROVE  cell.epoch = 0 \/ cell.generation >= 2
<1>1. i \in OpIds /\ cell \in States /\ ops[i].generation >= 1
  BY OpsBase DEF OpIds, IInv, TypeOK, RenewedInv
<1>1a. ops[i].generation \in Nat
  BY <1>1, OpsBase
<1>2. cell.epoch = 1 => ops[i].generation < cell.generation
  BY DEF IInv, OpsInv
<1>3. QED
  BY <1>1, <1>1a, <1>2 DEF States

LEMMA WaitMine ==
  ASSUME IInv, IInv', CallInv, [Next]_vars, NEW c \in Callers,
         \/ JoinRefresh(c) \/ FindAdvanced(c) \/ JoinDone(c)
         \/ ReturnCanceled(c) \/ CloseDone(c)
  PROVE  Mine(c)'
<1>1. pc[c] \in {"enter", "wait", "done"}
  BY DEF JoinRefresh, FindAdvanced, JoinDone, ReturnCanceled, CloseDone
<1>2. /\ connect = "ready" /\ connect' = "ready" /\ Mine(c) /\ frame[c] \in Frames
      /\ CallerInv(c) /\ res[c] \in RefreshOutcomes
      /\ KindInv(c) /\ ReplayInv(c) /\ SettledOps
  BY <1>1, Acting, OpsBase DEF Mine, HoldsOutcome
<1>3. cell' = cell /\ kind' = kind /\ cell \in States
  BY DEF JoinRefresh, FindAdvanced, JoinDone, ReturnCanceled, CloseDone, IInv, TypeOK
<1>4. CASE JoinRefresh(c)
  <2>1. pc[c] = "enter" /\ Goto(c, "wait")
    BY <1>4 DEF JoinRefresh
  <2>2. pc'[c] = "wait" /\ frame'[c] = frame[c] /\ res'[c] = res[c]
    BY <2>1, GotoFacts
  <2>3. KindInv(c)'
    BY <1>2, <1>3, <2>1, <2>2 DEF KindInv, LeaderLabels, RunningLabels
  <2>4. QED
    BY <1>2, <2>1, <2>2, <2>3, MovesMine DEF Bound, Renewing, LeaderLabels, RunningLabels
<1>5. CASE FindAdvanced(c)
  <2>1. /\ pc[c] = "enter" /\ joined' = joined /\ AfterRefresh(c, Nil)
        /\ Version(cell) # frame[c].seen
    BY <1>5 DEF FindAdvanced
  <2>2. frame[c].seen.epoch = 1 /\ frame[c].seen.generation >= 1
    BY <1>2, <2>1 DEF CallerInv, ReplayInv
  <2>3. cell.epoch = 0 \/ cell.generation >= 2
    BY <1>2, <1>3, <2>1, <2>2 DEF CallerInv, Version, States, Frames
  <2>4. kind[c] = "refresh" => joined[c] = NoOp
    BY <1>2, <2>1 DEF KindInv
  <2>5. QED
    BY <1>1, <1>3, <2>1, <2>3, <2>4, AfterRefreshMine DEF Nil
<1>6. CASE JoinDone(c)
  <2>1. /\ pc[c] = "wait" /\ joined' = joined /\ ops' = ops
        /\ ops[joined[c]].done /\ AfterRefresh(c, ops[joined[c]].err)
    BY <1>6 DEF JoinDone
  <2>2. joined[c] \in 1..nops /\ joined[c] \in OpIds
    BY <1>2, <2>1, OpsBase DEF CallerInv, OpIds
  <2>3. joined[c] # inflight /\ ops[joined[c]].err # "401"
    BY <1>2, <2>1, <2>2 DEF SettledOps, RefreshOutcomes, Nil
  <2>4. QED
    BY <1>1, <1>3, <2>1, <2>2, <2>3, Advanced, AfterRefreshMine
<1>7. CASE ReturnCanceled(c)
  BY <1>2, <1>3, <1>7, ReturnMine DEF ReturnCanceled
<1>8. CASE CloseDone(c)
  <2> DEFINE r == IF frame[c].ctxDone THEN "canceled" ELSE res[c]
  <2>1. /\ pc[c] = "done" /\ joined' = joined /\ AfterRefresh(c, r)
    BY <1>8 DEF CloseDone
  <2>2. /\ joined[c] \in 1..nops /\ joined[c] # inflight /\ ops'[joined[c]].done
        /\ ops'[joined[c]].err = ops[joined[c]].err
    BY <1>8, CloseOps
  <2>3. res[c] = ops[joined[c]].err
    BY <1>2, <2>1 DEF Mine, HoldsOutcome
  <2>4. r # "401" /\ (r = Nil => res[c] = Nil) /\ (r # "canceled" => r = res[c])
    BY <1>2 DEF RefreshOutcomes, Nil
  <2>5. r = Nil => cell.epoch = 0 \/ cell.generation >= 2
    BY <2>2, <2>3, <2>4, Advanced
  <2> HIDE DEF r
  <2>6. QED
    BY <1>1, <1>3, <2>1, <2>2, <2>3, <2>4, <2>5, AfterRefreshMine
<1>9. QED
  BY <1>4, <1>5, <1>6, <1>7, <1>8

(* The leader of a refresh.                                                *)
LEMMA LeaderMine ==
  ASSUME IInv, IInv', CallInv, [Next]_vars, NEW c \in Callers,
         \/ LeadRefresh(c) \/ StartLogin(c) \/ LoginSucceeds(c) \/ LoginFails(c)
         \/ LoadToPublish(c) \/ DropSuperseded(c) \/ Publish(c)
         \/ PublishRaced(c) \/ Settle(c)
  PROVE  Mine(c)'
<1>1. pc[c] \in Renewing /\ pc[c] # "idle"
  BY DEF LeadRefresh, StartLogin, LoginSucceeds, LoginFails, LoadToPublish,
     DropSuperseded, Publish, PublishRaced, Settle, Renewing, LeaderLabels,
     RunningLabels
<1>2. /\ connect' = "ready" /\ Mine(c) /\ frame[c] \in Frames
      /\ res[c] \in RefreshOutcomes /\ KindInv(c) /\ ReplayInv(c)
  BY <1>1, Acting DEF Mine, HoldsOutcome
<1>3. kind' = kind
  BY DEF LeadRefresh, StartLogin, LoginSucceeds, LoginFails, LoadToPublish,
     DropSuperseded, Publish, PublishRaced, Settle
<1>4. kind[c] # "upload"
  BY <1>1, <1>2 DEF KindInv, Renewing, LeaderLabels, RunningLabels
<1>5. ASSUME NEW l \in LeaderLabels, pc'[c] = l, frame'[c] = frame[c],
             res'[c] \in RefreshOutcomes
      PROVE  Mine(c)'
  <2>1. KindInv(c)'
    BY <1>2, <1>3, <1>4, <1>5 DEF KindInv, LeaderLabels, RunningLabels
  <2>2. QED
    BY <1>1, <1>5, <2>1, MovesMine DEF Bound, Renewing, LeaderLabels, RunningLabels
<1>6. ASSUME NEW l \in LeaderLabels, Goto(c, l) PROVE Mine(c)'
  BY <1>2, <1>5, <1>6, GotoFacts
<1>7. ASSUME NEW e \in {"ErrClosed", "login"}, Fail(c, e) PROVE Mine(c)'
  <2>1. pc'[c] = "settle" /\ frame'[c] = frame[c] /\ res'[c] = e
    BY <1>7 DEF Fail, IInv, TypeOK
  <2>2. QED
    BY <1>5, <2>1 DEF LeaderLabels, RefreshOutcomes
<1>8. CASE LoginSucceeds(c)
  <2> DEFINE f == [frame[c] EXCEPT !.fresh = minted + 1]
  <2>1. /\ pc'[c] = "publish" /\ frame'[c] = f /\ res'[c] = res[c]
    BY <1>8, GotoWithFacts DEF LoginSucceeds
  <2>2. f.seen = frame[c].seen
    BY <1>2 DEF Frames
  <2> HIDE DEF f
  <2>3. ReplayInv(c)'
    BY <1>1, <2>1, <2>2, SeenKept DEF ReplayInv, Bound, Renewing, LeaderLabels,
       RunningLabels
  <2>4. KindInv(c)'
    BY <1>2, <1>3, <1>4, <2>1 DEF KindInv, LeaderLabels, RunningLabels
  <2>5. QED
    BY <1>2, <2>1, <2>3, <2>4 DEF Mine, HoldsOutcome, SharesOutcome, Excused
<1>9. CASE Settle(c)
  <2>1. /\ pc'[c] = "done" /\ frame'[c] = frame[c] /\ res'[c] = res[c]
        /\ joined' = joined
    BY <1>9, GotoFacts DEF Settle
  <2>2. HoldsOutcome(c)'
    BY <1>2, <1>9, <2>1, SettleOps DEF HoldsOutcome, NoOp
  <2>3. ReplayInv(c)'
    BY <1>1, <2>1, SeenKept DEF ReplayInv, Bound, Renewing, LeaderLabels,
       RunningLabels
  <2>4. KindInv(c)'
    BY <1>2, <1>3, <1>4, <2>1 DEF KindInv, LeaderLabels, RunningLabels
  <2>5. QED
    BY <2>1, <2>2, <2>3, <2>4 DEF Mine, SharesOutcome, Excused
<1>10. QED
  BY <1>6, <1>7, <1>8, <1>9 DEF LeadRefresh, StartLogin, LoginFails,
     LoadToPublish, DropSuperseded, Publish, PublishRaced, LeaderLabels,
     RunningLabels

(* Logout and Close, whose calls no invariant of a refresh is about.       *)
LEMMA LogoutMine ==
  ASSUME IInv, IInv', CallInv, [Next]_vars, NEW c \in Callers,
         \/ LoadToRevoke(c) \/ SendRevoke(c) \/ Revoked(c) \/ RevokeFails(c)
         \/ EndSession(c) \/ CloseTransports(c)
  PROVE  Mine(c)'
<1>1. pc[c] \in {"logout", "revoke", "revoking", "swap", "drain"}
  BY DEF LoadToRevoke, SendRevoke, Revoked, RevokeFails, EndSession, CloseTransports
<1>2. /\ connect = "ready" /\ connect' = "ready" /\ Mine(c) /\ frame[c] \in Frames
      /\ res[c] \in RefreshOutcomes /\ KindInv(c) /\ ReplayInv(c)
  BY <1>1, Acting DEF Mine, HoldsOutcome
<1>3. kind' = kind /\ kind[c] \notin {"refresh", "upload"}
  BY <1>1, <1>2 DEF LoadToRevoke, SendRevoke, Revoked, RevokeFails, EndSession,
     CloseTransports, KindInv, LeaderLabels, RunningLabels
<1>4. CASE Return(c, Nil)
  BY <1>2, <1>3, <1>4, ReturnMine DEF Nil
<1>5. ASSUME NEW l \in {"revoke", "revoking", "swap", "drain"}, pc'[c] = l,
             frame'[c].seen = frame[c].seen, res'[c] = res[c]
      PROVE  Mine(c)'
  <2>1. KindInv(c)'
    BY <1>2, <1>3, <1>5 DEF KindInv
  <2>2. ReplayInv(c)'
    BY <1>2, <1>5, SeenKept DEF ReplayInv, LeaderLabels, RunningLabels
  <2>3. QED
    BY <1>2, <1>5, <2>1, <2>2 DEF Mine, HoldsOutcome, SharesOutcome, Excused
<1>6. ASSUME NEW l \in {"revoking", "swap", "drain"}, Goto(c, l) PROVE Mine(c)'
  BY <1>5, <1>6, GotoFacts
<1>7. CASE GotoWith(c, "revoke", [frame[c] EXCEPT !.auth = cell])
  BY <1>2, <1>5, <1>7, GotoWithFacts DEF Frames
<1>8. QED
  BY <1>4, <1>6, <1>7 DEF LoadToRevoke, SendRevoke, Revoked, RevokeFails,
     EndSession, CloseTransports

(* A context that ends changes nothing a call owes.                        *)
LEMMA CancelMine ==
  ASSUME IInv, IInv', CallInv, [Next]_vars, NEW c \in Callers, NEW d \in Callers,
         Cancel(d)
  PROVE  Mine(c)'
<1>1. /\ UNCHANGED <<connect, cell, inflight, ops, nops, pc, kind, joined, res,
                      minted, valid>>
      /\ frame'[c].seen = frame[c].seen /\ frame'[c].auth = frame[c].auth
      /\ frame'[c].sent = frame[c].sent
  BY DEF Cancel, IInv, TypeOK, Frames
<1>2. Mine(c)
  BY OpsBase
<1>3. QED
  BY <1>1, <1>2 DEF Mine, KindInv, ReplayInv, HoldsOutcome, SharesOutcome,
     Excused, Excuse, Version, Replayable

(* A step of one caller leaves the others' slots alone.                    *)
Alone(c) ==
  \A d \in Callers \ {c} :
    /\ pc'[d] = pc[d] /\ frame'[d] = frame[d] /\ res'[d] = res[d]
    /\ kind'[d] = kind[d] /\ joined'[d] = joined[d]

LEMMA StepsAlone ==
  ASSUME IInv, NEW c \in Callers,
         \/ \E k \in CallKinds : Begin(c, k)
         \/ BeginClose(c) \/ LocalStep(c) \/ NetworkStep(c)
  PROVE  Alone(c)
<1>0. /\ pc \in [Callers -> Labels] /\ frame \in [Callers -> Frames]
      /\ res \in [Callers -> Results] /\ kind \in [Callers -> Kinds]
      /\ joined \in [Callers -> 0..nops]
  BY DEF IInv, TypeOK
<1> DEFINE At(l, r, f) ==
       /\ pc' = [pc EXCEPT ![c] = l]
       /\ res' = [res EXCEPT ![c] = r]
       /\ frame' = [frame EXCEPT ![c] = f]
<1>1. ASSUME NEW l, NEW r, NEW f, At(l, r, f),
             kind' = kind \/ \E k : kind' = [kind EXCEPT ![c] = k],
             joined' = joined \/ \E j : joined' = [joined EXCEPT ![c] = j]
      PROVE  Alone(c)
  BY <1>0, <1>1 DEF Alone
<1>2. /\ \A l : Goto(c, l) => At(l, res[c], frame[c])
      /\ \A l, f : GotoWith(c, l, f) => At(l, res[c], f)
      /\ \A r : Return(c, r) => At("idle", r, EmptyFrame)
      /\ \A r : Fail(c, r) => At("settle", r, frame[c])
      /\ \A l : Start(c, l) => At(l, Nil, frame[c])
      /\ \A r : AfterRefresh(c, r) =>
              At("build", res[c], frame[c]) \/ At("idle", r, EmptyFrame)
  BY <1>0 DEF Goto, GotoWith, Return, Fail, Start, AfterRefresh
<1> HIDE DEF At
<1>3. CASE (\E k \in CallKinds : Begin(c, k)) \/ BeginClose(c)
  <2>1. /\ \E k : kind' = [kind EXCEPT ![c] = k]
        /\ \E j : joined' = [joined EXCEPT ![c] = j]
    BY <1>3 DEF Begin, BeginClose, NewCall
  <2>2. \E l, r, f : At(l, r, f)
    BY <1>2, <1>3 DEF Begin, BeginClose
  <2>3. QED
    BY <1>1, <2>1, <2>2
<1>4. CASE LocalStep(c)
  <2>1. kind' = kind /\ (joined' = joined \/ \E j : joined' = [joined EXCEPT ![c] = j])
    BY <1>4 DEF LocalStep, CheckLifetime, ReenterInvoke,
       LoadObserved, BuildRequest, Dispatch, DispatchFails, SurfaceUnauthorized,
       ReplayWithoutRefresh, ReplayAfterRefresh, CheckRefreshable, JoinRefresh,
       FindAdvanced, LeadRefresh, JoinDone, ReturnCanceled, StartLogin,
       LoadToPublish, DropSuperseded, Publish, PublishRaced, Settle, CloseDone,
       LoadToRevoke, SendRevoke, EndSession, CloseTransports
  <2>2. \E l, r, f : At(l, r, f)
    BY <1>2, <1>4 DEF LocalStep, CheckLifetime, ReenterInvoke,
       LoadObserved, BuildRequest, Dispatch, DispatchFails, SurfaceUnauthorized,
       ReplayWithoutRefresh, ReplayAfterRefresh, CheckRefreshable, JoinRefresh,
       FindAdvanced, LeadRefresh, JoinDone, ReturnCanceled, StartLogin,
       LoadToPublish, DropSuperseded, Publish, PublishRaced, Settle, CloseDone,
       LoadToRevoke, SendRevoke, EndSession, CloseTransports
  <2>3. QED
    BY <1>1, <2>1, <2>2
<1>5. CASE NetworkStep(c)
  <2>1. kind' = kind /\ joined' = joined
    BY <1>5 DEF NetworkStep, Answered, Unauthorized, RequestFails,
       LoginSucceeds, LoginFails, Revoked, RevokeFails
  <2>2. \E l, r, f : At(l, r, f)
    BY <1>2, <1>5 DEF NetworkStep, Answered, Unauthorized, RequestFails,
       LoginSucceeds, LoginFails, Revoked, RevokeFails
  <2>3. QED
    BY <1>1, <2>1, <2>2
<1>6. QED
  BY <1>3, <1>4, <1>5

LEMMA NextCallInv ==
  ASSUME IInv, IInv', CallInv, [Next]_vars
  PROVE  CallInv'
<1>1. SettledOps' /\ RenewedInv'
  BY WorldStep DEF OpsStep
<1>2. ASSUME NEW c \in Callers, NEW d \in Callers,
             \/ \E k \in CallKinds : Begin(d, k)
             \/ BeginClose(d) \/ LocalStep(d) \/ NetworkStep(d)
      PROVE  Mine(c)'
  <2>1. CASE c = d
    BY <1>2, <2>1, NewCallMine, RequestMine, AnswerMine, ClassifyMine, WaitMine,
       LeaderMine, LogoutMine DEF LocalStep, NetworkStep
  <2>2. CASE c # d
    BY <1>2, <2>2, StepsAlone, OtherMine DEF Alone
  <2>3. QED
    BY <2>1, <2>2
<1>3. ASSUME NEW c \in Callers,
             UNCHANGED <<pc, frame, res, kind, joined>>
      PROVE  Mine(c)'
  BY <1>3, OtherMine
<1>4. ASSUME NEW c \in Callers PROVE Mine(c)'
  BY <1>2, <1>3, CancelMine DEF Next, vars, ConnectStep, ConnectWithToken,
     ConnectAnonymous, ConnectFails, Expire
<1>5. QED
  BY <1>1, <1>4 DEF CallInv, OutcomeInv, JoinersShareTheOutcome,
     TransparentRenewal, SettledOps, Mine, HoldsOutcome, SharesOutcome, Excused,
     Excuse

(***************************************************************************)
(* Theorems                                                                *)
(***************************************************************************)

(* Every call keeps what its outcome rests on: a settled operation its     *)
(* error, a replay the renewed session it is built from, an upload its     *)
(* single request.                                                         *)
THEOREM CallInvariance == Spec => []CallInv
<1>1. Init => CallInv
  BY InitCallInv
<1>2. IInv /\ IInv' /\ CallInv /\ [Next]_vars => CallInv'
  BY NextCallInv
<1>3. QED
  BY <1>1, <1>2, Invariance, PTL DEF Spec

(* Every caller that joined or led a refresh reports what that refresh     *)
(* ended with (refresh.go:39-41), unless its own context ended.            *)
THEOREM OutcomesAreShared == Spec => []JoinersShareTheOutcome
<1>1. CallInv => JoinersShareTheOutcome
  BY DEF CallInv, OutcomeInv
<1>2. QED
  BY <1>1, CallInvariance, PTL

(* No call is replayed twice, and a request whose body cannot be rebuilt   *)
(* not at all (refresh.go:168-174).                                        *)
THEOREM ReplaysAreBounded == Spec => []BoundedReplay
<1>1. IInv /\ CallInv => BoundedReplay
  <2> SUFFICES ASSUME IInv, CallInv, NEW c \in Callers
               PROVE  frame[c].sent <= (IF Replayable(c) THEN 2 ELSE 1)
    BY DEF BoundedReplay
  <2>1. frame[c].sent \in 0..2 /\ KindInv(c)
    BY DEF IInv, TypeOK, Frames, CallInv
  <2>2. QED
    BY <2>1 DEF KindInv, Replayable
<1>2. QED
  BY <1>1, Invariance, CallInvariance, PTL

(* A replayable call ends in 401 only when the session has ended, cannot   *)
(* be renewed, or was renewed with a token the appliance then refused      *)
(* (invoke.go:42-48, refresh.go:168-174): never because it lost a race.    *)
THEOREM RenewalIsTransparent == Spec => []TransparentRenewal
<1>1. CallInv => TransparentRenewal
  BY DEF CallInv
<1>2. QED
  BY <1>1, CallInvariance, PTL

(***************************************************************************)
(* The refinement of SessionPromise, step by step.                         *)
(***************************************************************************)

(* The generation a login is running for, as the refinement maps it.       *)
RenewingFor ==
  IF \E c \in Callers : pc[c] \in RunningLabels
    THEN ops[inflight].generation ELSE 0

PromiseStep == [Promise!Next]_(Promise!vars)

LEMMA PromiseStutters ==
  ASSUME cell' = cell, connect' = connect, RenewingFor' = RenewingFor
  PROVE  PromiseStep
BY DEF PromiseStep, Promise!vars, Phase, RenewingFor

LEMMA InitPromise == Init => Promise!Init
BY DEF Init, Promise!Init, Phase, Fresh, State, RunningLabels

(* The phase in the words of the code. *)
LEMMA PhaseIs ==
  ASSUME IInv
  PROVE  /\ connect = "establishing" => Phase = "new"
         /\ connect # "establishing" /\ cell.epoch = 1 => Phase = "live"
         /\ connect # "establishing" /\ cell.epoch = 0 => Phase = "ended"
BY DEF Phase, IInv, TypeOK, States

LEMMA PhaseNext ==
  ASSUME IInv'
  PROVE  /\ connect' = "establishing" => Phase' = "new"
         /\ connect' # "establishing" /\ cell'.epoch = 1 => Phase' = "live"
         /\ connect' # "establishing" /\ cell'.epoch = 0 => Phase' = "ended"
BY DEF Phase, IInv, TypeOK, States

(* While a goroutine is inside doRefresh, what it renews is what is        *)
(* renewing; while none is, nothing is.                                    *)
LEMMA RenewingIs ==
  ASSUME IInv, CallInv, NEW c \in Callers, pc[c] \in LeaderLabels
  PROVE  /\ pc[c] \in RunningLabels =>
              RenewingFor = frame[c].seen.generation /\ RenewingFor >= 1
         /\ pc[c] = "settle" => RenewingFor = 0
         /\ \A d \in Callers \ {c} : pc[d] \notin RunningLabels
         /\ connect = "ready"
<1>1. /\ ops[inflight].generation = frame[c].seen.generation
      /\ frame[c].seen.epoch = 1 /\ connect = "ready"
  BY LeaderFacts DEF LeaderInv
<1>2. frame[c].seen.generation >= 1
  BY <1>1, OpsBase DEF Mine, ReplayInv
<1>3. \A d \in Callers : pc[d] \in RunningLabels => d = c
  BY DEF IInv, SingleFlight, LeaderLabels
<1>4. "settle" \notin RunningLabels
  BY DEF RunningLabels
<1>5. QED
  BY <1>1, <1>2, <1>3, <1>4 DEF RenewingFor

LEMMA ConnectPromise ==
  ASSUME IInv, IInv', ConnectStep
  PROVE  PromiseStep
<1>1. /\ connect = "establishing" /\ RenewingFor' = RenewingFor
      /\ cell.generation = 0 /\ Phase = "new"
  BY PhaseIs DEF ConnectStep, ConnectWithToken, ConnectAnonymous, ConnectFails,
     RenewingFor, IInv, CellInv, Fresh, State
<1>2. CASE Connects
  <2>1. Phase' = "live" /\ cell'.generation = 1
    BY <1>2, PhaseNext DEF Connects
  <2>2. QED
    BY <1>1, <2>1 DEF PromiseStep, Promise!Next, Promise!Start, RenewingFor
<1>3. CASE Ends
  <2>1. Phase' = "ended" /\ cell'.generation = 0
    BY <1>3, PhaseNext DEF Ends, Ended, State
  <2>2. QED
    BY <1>1, <2>1 DEF PromiseStep, Promise!Next, Promise!End, RenewingFor
<1>4. QED
  BY <1>2, <1>3, ConnectCell

LEMMA EndPromise ==
  ASSUME IInv, IInv', NEW c \in Callers, EndSession(c)
  PROVE  PromiseStep
<1>1. /\ pc[c] = "swap" /\ cell' = Ended /\ connect' = connect /\ connect = "ready"
      /\ inflight' = inflight /\ ops' = ops /\ cell.epoch \in {0, 1}
      /\ pc'[c] \in {"idle", "drain"}
      /\ \A d \in Callers \ {c} : pc'[d] = pc[d]
  BY DEF EndSession, Goto, Return, IInv, TypeOK, CallerInv, States
<1>2. RenewingFor' = RenewingFor
  <2>1. \A d \in Callers : pc'[d] \in RunningLabels <=> pc[d] \in RunningLabels
    BY <1>1 DEF RunningLabels
  <2>2. QED
    BY <1>1, <2>1 DEF RenewingFor
<1>3. CASE cell.epoch = 0
  BY <1>1, <1>2, <1>3, PromiseStutters DEF IInv, CellInv
<1>4. CASE cell.epoch = 1
  <2>1. Phase = "live" /\ Phase' = "ended" /\ cell'.generation = 0
    BY <1>1, <1>4, PhaseIs, PhaseNext DEF Ended, State
  <2>2. QED
    BY <1>2, <2>1 DEF PromiseStep, Promise!Next, Promise!End, RenewingFor
<1>5. QED
  BY <1>1, <1>3, <1>4

LEMMA LeadPromise ==
  ASSUME IInv, IInv', CallInv, CallInv', NEW c \in Callers, LeadRefresh(c)
  PROVE  PromiseStep
<1>1. /\ pc[c] = "enter" /\ pc'[c] = "login" /\ inflight = NoOp
      /\ Version(cell) = frame[c].seen /\ cell' = cell /\ connect' = connect
      /\ frame' = frame
  BY DEF LeadRefresh, Goto, IInv, TypeOK
<1>2. /\ frame[c].seen.epoch = 1 /\ connect = "ready" /\ cell.epoch = 1
      /\ frame[c].seen.generation = cell.generation
  BY <1>1 DEF IInv, CallerInv, Version
<1>3. Phase = "live" /\ Phase' = "live"
  BY <1>1, <1>2, PhaseIs, PhaseNext
<1>4. RenewingFor = 0
  <2>1. \A d \in Callers : pc[d] \notin RunningLabels
    <3>1. ASSUME NEW d \in Callers, pc[d] \in LeaderLabels PROVE FALSE
      BY <1>1, <3>1 DEF IInv, SingleFlight, CallerInv, TypeOK, NoOp
    <3>2. QED
      BY <3>1 DEF LeaderLabels
  <2>2. QED
    BY <2>1 DEF RenewingFor
<1>5. RenewingFor' = cell.generation
  <2>1. /\ ops'[inflight'].generation = frame'[c].seen.generation
        /\ pc'[c] \in RunningLabels
    BY <1>1 DEF IInv, LeaderInv, LeaderLabels, RunningLabels
  <2>2. QED
    BY <1>1, <1>2, <2>1 DEF RenewingFor
<1>6. QED
  BY <1>1, <1>3, <1>4, <1>5
     DEF PromiseStep, Promise!Next, Promise!BeginRenewal, RenewingFor

(* The steps of the leader: it goes on, it gives up, or it publishes.      *)
LEMMA LeaderPromise ==
  ASSUME IInv, IInv', CallInv, CallInv', NEW c \in Callers,
         \/ StartLogin(c) \/ LoginSucceeds(c) \/ LoginFails(c)
         \/ LoadToPublish(c) \/ DropSuperseded(c) \/ Publish(c)
         \/ PublishRaced(c) \/ Settle(c)
  PROVE  PromiseStep
<1>1. /\ pc[c] \in LeaderLabels /\ (Settle(c) \/ pc[c] \in RunningLabels)
      /\ Publish(c) \/ cell' = cell
      /\ connect' = connect
      /\ Settle(c) \/ (ops' = ops /\ inflight' = inflight)
  BY DEF LeaderLabels, RunningLabels, StartLogin, LoginSucceeds, LoginFails,
     LoadToPublish, DropSuperseded, Publish, PublishRaced, Settle
<1>2. \A d \in Callers \ {c} : pc'[d] = pc[d] /\ pc[d] \notin RunningLabels
  <2>1. LocalStep(c) \/ NetworkStep(c)
    BY DEF LocalStep, NetworkStep
  <2>2. QED
    BY <1>1, <2>1, StepsAlone, RenewingIs DEF Alone
<1>3. pc'[c] \in RunningLabels => RenewingFor' = ops'[inflight'].generation
  BY DEF RenewingFor
<1>4. pc'[c] \notin RunningLabels => RenewingFor' = 0
  BY <1>2 DEF RenewingFor
<1>5. CASE pc'[c] \in RunningLabels /\ ~Settle(c) /\ ~Publish(c)
  <2>1. RenewingFor = ops[inflight].generation
    BY <1>1, <1>5 DEF RenewingFor
  <2>2. QED
    BY <1>1, <1>3, <1>5, <2>1, PromiseStutters
<1>6. CASE pc'[c] \notin RunningLabels /\ ~Settle(c) /\ ~Publish(c)
  <2>1. RenewingFor # 0 /\ RenewingFor' = 0 /\ cell' = cell /\ Phase' = Phase
    BY <1>1, <1>4, <1>6, RenewingIs DEF Phase
  <2>2. QED
    BY <2>1 DEF PromiseStep, Promise!Next, Promise!AbandonRenewal, RenewingFor
<1>7. CASE Settle(c)
  <2>1. pc[c] = "settle" /\ pc'[c] = "done" /\ cell' = cell
    BY <1>7, GotoFacts DEF Settle
  <2>2. RenewingFor = 0 /\ RenewingFor' = 0
    BY <1>1, <1>4, <2>1, RenewingIs DEF RunningLabels
  <2>3. QED
    BY <1>1, <2>1, <2>2, PromiseStutters
<1>8. CASE Publish(c)
  <2>1. /\ pc[c] = "cas" /\ pc'[c] = "settle" /\ Version(cell) = frame[c].seen
        /\ Renews
    BY <1>8, GotoFacts, PublishCell DEF Publish
  <2>2. Phase = "live" /\ Phase' = "live" /\ cell'.generation = cell.generation + 1
    BY <1>1, <2>1, PhaseIs, PhaseNext DEF Renews
  <2>3. RenewingFor = cell.generation /\ RenewingFor' = 0
    BY <1>1, <1>4, <2>1, RenewingIs DEF RunningLabels, Version
  <2>4. QED
    BY <2>2, <2>3 DEF PromiseStep, Promise!Next, Promise!Renew, RenewingFor
<1>9. QED
  BY <1>5, <1>6, <1>7, <1>8

(* Every other step leaves the cell and the refresh in flight alone.       *)
LEMMA QuietPromise ==
  ASSUME IInv, NEW c \in Callers, Alone(c),
         UNCHANGED <<connect, cell, inflight>>,
         ops' = ops \/ CloseDone(c),
         pc[c] \notin RunningLabels, pc'[c] \notin RunningLabels
  PROVE  PromiseStep
<1>1. \A d \in Callers : pc'[d] \in RunningLabels <=> pc[d] \in RunningLabels
  BY DEF Alone
<1>2. ASSUME NEW d \in Callers, pc[d] \in RunningLabels
      PROVE  inflight \in OpIds
  BY <1>2, MaxCallsAssumption DEF IInv, TypeOK, CallerInv, LeaderInv, LeaderLabels, OpIds
<1>3. inflight \in OpIds => ops'[inflight].generation = ops[inflight].generation
  BY DEF CloseDone, IInv, TypeOK
<1>4. RenewingFor' = RenewingFor
  BY <1>1, <1>2, <1>3 DEF RenewingFor
<1>5. QED
  BY <1>4, PromiseStutters

LEMMA CallPromise ==
  ASSUME IInv, NEW c \in Callers, (\E k \in CallKinds : Begin(c, k)) \/ BeginClose(c)
  PROVE  PromiseStep
<1>1. PICK k \in Kinds : NewCall(c, k) /\ ((\E r : Return(c, r)) \/ Start(c, Entry(k)))
  BY CallKindsAssumption DEF Begin, BeginClose, Kinds
<1>2. UNCHANGED <<connect, cell, inflight, ops>> /\ pc[c] = "idle"
  BY DEF Begin, BeginClose, NewCall
<1>3. Entry(k) \notin RunningLabels /\ "idle" \notin RunningLabels
  BY DEF Entry, Kinds, RunningLabels
<1>4. pc'[c] \in {"idle", Entry(k)}
  BY <1>1 DEF Return, Start, IInv, TypeOK
<1>5. QED
  BY <1>2, <1>3, <1>4, StepsAlone, QuietPromise

LEMMA NextPromise ==
  ASSUME IInv, IInv', CallInv, CallInv', [Next]_vars
  PROVE  PromiseStep
<1>1. ASSUME NEW c \in Callers, LocalStep(c) \/ NetworkStep(c) PROVE PromiseStep
  <2> DEFINE Lead == \/ StartLogin(c) \/ LoginSucceeds(c) \/ LoginFails(c)
                     \/ LoadToPublish(c) \/ DropSuperseded(c) \/ Publish(c)
                     \/ PublishRaced(c) \/ Settle(c)
  <2>1. CASE Lead \/ LeadRefresh(c) \/ EndSession(c)
    BY <2>1, LeaderPromise, LeadPromise, EndPromise
  <2>2. CASE ~(Lead \/ LeadRefresh(c) \/ EndSession(c))
    <3>1. /\ UNCHANGED <<connect, cell, inflight>>
          /\ ops' = ops \/ CloseDone(c)
          /\ pc[c] \notin RunningLabels
      BY <1>1, <2>2 DEF LocalStep, NetworkStep, CheckLifetime, ReenterInvoke,
         LoadObserved, BuildRequest, Dispatch, DispatchFails,
         SurfaceUnauthorized, ReplayWithoutRefresh, ReplaysWithoutRefresh,
         ReplayAfterRefresh, CheckRefreshable, JoinRefresh, FindAdvanced,
         JoinDone, ReturnCanceled, CloseDone, LoadToRevoke, SendRevoke,
         CloseTransports, Answered, Unauthorized, RequestFails, Revoked,
         RevokeFails, RunningLabels
    <3>2. \/ \E r : Return(c, r) \/ AfterRefresh(c, r)
          \/ \E l \in Labels \ RunningLabels : Goto(c, l) \/ \E f : GotoWith(c, l, f)
      BY <1>1, <2>2 DEF LocalStep, NetworkStep, CheckLifetime, ReenterInvoke,
         LoadObserved, BuildRequest, Dispatch, DispatchFails,
         SurfaceUnauthorized, ReplayWithoutRefresh, ReplaysWithoutRefresh,
         ReplayAfterRefresh, CheckRefreshable, JoinRefresh, FindAdvanced,
         JoinDone, ReturnCanceled, CloseDone, LoadToRevoke, SendRevoke,
         CloseTransports, Answered, Unauthorized, RequestFails, Revoked,
         RevokeFails, RunningLabels, Labels
    <3>3. pc'[c] \notin RunningLabels
      BY <3>2 DEF Return, AfterRefresh, Goto, GotoWith, IInv, TypeOK, RunningLabels
    <3>4. QED
      BY <1>1, <3>1, <3>3, StepsAlone, QuietPromise
  <2>3. QED
    BY <2>1, <2>2
<1>2. ASSUME NEW c \in Callers, Cancel(c) PROVE PromiseStep
  <2>1. UNCHANGED <<connect, cell, inflight, ops, pc>>
    BY <1>2 DEF Cancel
  <2>2. QED
    BY <2>1, PromiseStutters DEF RenewingFor
<1>3. CASE (\E t \in valid : Expire(t)) \/ UNCHANGED vars
  <2>1. UNCHANGED <<connect, cell, inflight, ops, pc>>
    BY <1>3 DEF Expire, vars
  <2>2. QED
    BY <2>1, PromiseStutters DEF RenewingFor
<1>4. QED
  BY <1>1, <1>2, <1>3, CallPromise, ConnectPromise DEF Next

(* The client keeps the promise of SessionPromise: one login at a time,    *)
(* each renewal exactly one generation on from the one it was started for, *)
(* and no way back from an ended session (token.go:24-42,                  *)
(* refresh.go:47-53, 91-95).                                               *)
THEOREM PromiseIsKept == Spec => ImplementsPromise
<1>1. Init => Promise!Init
  BY InitPromise
<1>2. IInv /\ IInv' /\ CallInv /\ CallInv' /\ [Next]_vars
        => [Promise!Next]_(Promise!vars)
  BY NextPromise DEF PromiseStep
<1>3. QED
  BY <1>1, <1>2, Invariance, CallInvariance, PTL
     DEF Spec, ImplementsPromise, Promise!Spec

(***************************************************************************)
(* The session of the listeners.                                           *)
(***************************************************************************)

(* Close is for ever, and sets the flag first.                             *)
LEMMA ClosedStays == ASSUME [Next]_vars PROVE closed' = closed \/ closed' = TRUE
<1>1. CASE ConnectStep
  BY <1>1 DEF ConnectStep, ConnectWithToken, ConnectAnonymous, ConnectFails
<1>2. ASSUME NEW c \in Callers, LocalStep(c) \/ NetworkStep(c) PROVE closed' = closed
  BY <1>2 DEF LocalStep, NetworkStep, CheckLifetime, ReenterInvoke, LoadObserved,
     BuildRequest, Dispatch, DispatchFails, SurfaceUnauthorized, ReplayWithoutRefresh,
     ReplayAfterRefresh, CheckRefreshable, JoinRefresh, FindAdvanced, LeadRefresh,
     JoinDone, ReturnCanceled, StartLogin, LoginSucceeds, LoginFails, LoadToPublish,
     DropSuperseded, Publish, PublishRaced, Settle, CloseDone, LoadToRevoke, SendRevoke,
     EndSession, CloseTransports, Answered, Unauthorized, RequestFails, Revoked,
     RevokeFails
<1>3. ASSUME NEW c \in Callers,
             (\E k \in CallKinds : Begin(c, k)) \/ BeginClose(c) \/ Cancel(c)
      PROVE  closed' = closed \/ closed' = TRUE
  BY <1>3 DEF Begin, BeginClose, Cancel
<1>4. CASE (\E t \in valid : Expire(t)) \/ UNCHANGED vars
  BY <1>4 DEF Expire, vars
<1>5. QED
  BY <1>1, <1>2, <1>3, <1>4 DEF Next

LEMMA PhaseEnds ==
  ASSUME IInv, IInv', [Next]_vars, Phase = "ended"
  PROVE  Phase' = "ended"
<1>1. connect # "establishing" /\ cell.epoch = 0
  <2>1. cell.epoch = 1 \/ cell.epoch = 0
    BY DEF IInv, TypeOK, States
  <2>2. QED
    BY <2>1, PhaseIs
<1>2. CellStep
  BY CellSteps
<1>3. connect' # "establishing" /\ cell'.epoch = 0
  BY <1>1, <1>2 DEF CellStep, Connects, Ends, Renews, Ended, State
<1>4. QED
  BY <1>3, PhaseNext

(* What userEventConn's auth callback reads of this session never turns    *)
(* back: the session that module PersistentListener runs against is the    *)
(* one of module Session (events.go:359-373).                              *)
THEOREM ListenersSeeItEnd == Spec => ImplementsEventSession
<1>1. Init => Listened!Init
  <2>1. ASSUME Init PROVE closed = FALSE /\ Phase = "new"
    BY <2>1 DEF Init, Phase
  <2>2. QED
    BY <2>1 DEF Listened!Init, SeenByListeners
<1>2. IInv /\ IInv' /\ [Next]_vars => [Listened!End]_SeenByListeners
  <2> SUFFICES ASSUME IInv, IInv', [Next]_vars
               PROVE  Listened!End \/ SeenByListeners' = SeenByListeners
    OBVIOUS
  <2>1. closed \in BOOLEAN /\ (closed' = closed \/ closed' = TRUE)
    BY ClosedStays DEF IInv, TypeOK
  <2>2. Phase = "ended" => Phase' = "ended"
    BY PhaseEnds
  <2>3. CASE closed' = TRUE
    <3>1. SeenByListeners' = "closed"
      BY <2>3 DEF SeenByListeners
    <3>2. SeenByListeners # "closed" \/ SeenByListeners = "closed"
      OBVIOUS
    <3>3. QED
      BY <3>1, <3>2 DEF Listened!End
  <2>4. CASE closed' = closed /\ closed = FALSE
    <3>1. SeenByListeners = (IF Phase = "ended" THEN "ended" ELSE "live")
      BY <2>4 DEF SeenByListeners
    <3>2. SeenByListeners' = (IF Phase' = "ended" THEN "ended" ELSE "live")
      BY <2>4 DEF SeenByListeners
    <3>3. QED
      BY <2>2, <3>1, <3>2 DEF Listened!End
  <2>5. closed = TRUE \/ closed = FALSE
    BY <2>1
  <2>6. QED
    BY <2>1, <2>3, <2>4, <2>5
<1>3. QED
  BY <1>1, <1>2, Invariance, PTL DEF Spec, ImplementsEventSession, Listened!Spec
=============================================================================
