---------------------------- MODULE BrowserLogin ----------------------------
(***************************************************************************)
(* The browser login (browser/browser.go:94-222) and the redemption of its *)
(* code (internal/auth/interactive.go:85-131).                             *)
(*                                                                         *)
(* Actors: the goroutine in Connect, the goroutine that serves the         *)
(* loopback listener, and one goroutine per request that reaches it.  The  *)
(* user's browser is external: it delivers the redirect with the oauth     *)
(* parameter, possibly again, and requests of its own without one.  A step *)
(* is a channel operation, a call or a callback.                           *)
(***************************************************************************)
EXTENDS Broker, Sequences, Functions

CONSTANTS
  Codes,       \* authorization codes
  MaxRequests  \* bound: requests that reach the listener

NoCode == "no code"
Assumptions == NoCode \notin Codes /\ MaxRequests \in Nat

VARIABLES
  pc,        \* Connect: "listen", "open", "wait", "redeem", "exchange", "close", "done"
  serving,   \* the serving goroutine: "off", "bound" before it is in Serve, "on",
             \* "failed", "closing" when closed before it was in Serve, or "ended"
  requests,  \* the requests received, with the code each carries
  handlers,  \* those whose handler is still running
  codeCh,    \* the buffer of codeCh
  errCh,     \* the buffer of errCh
  kept,      \* the first code codeCh took
  redeemed,  \* the codes sent to the token endpoint
  ctx,       \* "live" or "ended"
  err        \* the error the login returns

chans == <<codeCh, errCh>>
httpVars == <<serving, requests, handlers>>
vars == <<pc, httpVars, chans, kept, redeemed, ctx, err>>

Init ==
  /\ pc = "listen"
  /\ serving = "off" /\ requests = <<>> /\ handlers = {}
  /\ codeCh = <<>> /\ errCh = <<>>
  /\ kept = NoCode
  /\ redeemed = <<>>
  /\ ctx = "live"
  /\ err = NoError

Fail(e, label) == pc' = label /\ err' = e
Proceed(label) == pc' = label /\ UNCHANGED err

(* newCapture: the port may be taken, and the goroutine that will serve it *)
(* is only started.                                                        *)
Listen ==
  /\ pc = "listen"
  /\ \/ Proceed("open") /\ serving' = "bound"
     \/ Fail(PlainError("listener"), "done") /\ UNCHANGED serving
  /\ UNCHANGED <<requests, handlers, chans, kept, redeemed, ctx>>

Open ==
  /\ pc = "open"
  /\ Proceed("wait") \/ Fail(PlainError("opener"), "close")
  /\ UNCHANGED <<httpVars, chans, kept, redeemed, ctx>>

(***************************************************************************)
(* The loopback server.                                                    *)
(***************************************************************************)
(* The goroutine enters Serve, which gives the port back at once when the  *)
(* server has been closed before.                                          *)
ServeStarts ==
  /\ \/ serving = "bound" /\ serving' = "on"
     \/ serving = "closing" /\ serving' = "ended"
  /\ UNCHANGED <<pc, requests, handlers, chans, kept, redeemed, ctx, err>>

Arrive ==
  /\ serving = "on"
  /\ Len(requests) < MaxRequests
  /\ \E code \in Codes \cup {NoCode} : requests' = Append(requests, code)
  /\ handlers' = handlers \cup {Len(requests) + 1}
  /\ UNCHANGED <<pc, serving, chans, kept, redeemed, ctx, err>>

(* A send that gives up when the buffer, of one, is full. *)
TrySend(ch, value) == IF ch = <<>> THEN <<value>> ELSE ch

\* Mutant: the handler waits until the code can be sent.
handleBlocking(r) ==
  /\ r \in handlers
  /\ requests[r] # NoCode => codeCh = <<>>
  /\ requests[r] = NoCode => errCh = <<>>
  /\ handlers' = handlers \ {r}
  /\ codeCh' = IF requests[r] = NoCode THEN codeCh ELSE <<requests[r]>>
  /\ errCh' = IF requests[r] = NoCode THEN <<PlainError("no code")>> ELSE errCh
  /\ kept' = IF kept = NoCode THEN requests[r] ELSE kept
  /\ UNCHANGED <<pc, serving, requests, redeemed, ctx, err>>

\* Mutant: the latest code replaces the one in the channel.
handleLatest(r) ==
  /\ r \in handlers
  /\ handlers' = handlers \ {r}
  /\ codeCh' = IF requests[r] = NoCode THEN codeCh ELSE <<requests[r]>>
  /\ errCh' = IF requests[r] = NoCode THEN TrySend(errCh, PlainError("no code")) ELSE errCh
  /\ kept' = IF kept = NoCode THEN requests[r] ELSE kept
  /\ UNCHANGED <<pc, serving, requests, redeemed, ctx, err>>

handle(r) ==
  /\ r \in handlers
  /\ handlers' = handlers \ {r}
  /\ codeCh' = IF requests[r] = NoCode THEN codeCh ELSE TrySend(codeCh, requests[r])
  /\ errCh' = IF requests[r] = NoCode THEN TrySend(errCh, PlainError("no code")) ELSE errCh
  /\ kept' = IF kept = NoCode THEN requests[r] ELSE kept
  /\ UNCHANGED <<pc, serving, requests, redeemed, ctx, err>>

(* Serve returned an error of its own. *)
ServeFails ==
  /\ serving = "on"
  /\ serving' = "failed"
  /\ errCh' = TrySend(errCh, PlainError("listener"))
  /\ UNCHANGED <<pc, requests, handlers, codeCh, kept, redeemed, ctx, err>>

(***************************************************************************)
(* The select in wait: any case that is ready may be taken.                *)
(***************************************************************************)
WaitCode ==
  /\ pc = "wait" /\ codeCh # <<>>
  /\ codeCh' = <<>>
  /\ redeemed' = Append(redeemed, Head(codeCh))
  /\ Proceed("redeem")
  /\ UNCHANGED <<httpVars, errCh, kept, ctx>>

WaitError ==
  /\ pc = "wait" /\ errCh # <<>>
  /\ errCh' = <<>>
  /\ Fail(Head(errCh), "close")
  /\ UNCHANGED <<httpVars, codeCh, kept, redeemed, ctx>>

WaitContext ==
  /\ pc = "wait" /\ ctx = "ended"
  /\ Fail(PlainError("canceled"), "close")
  /\ UNCHANGED <<httpVars, chans, kept, redeemed, ctx>>

(* RedeemBrowserCode: the grant, then the LoginResponse. *)
Redeem ==
  /\ pc = "redeem"
  /\ \E a \in Answers({"good", "short"}) :
       /\ ctx = "ended" => a.status = NoAnswer
       /\ IF postRSTSGrant(a) = NoError THEN Proceed("exchange")
          ELSE Fail(postRSTSGrant(a), "close")
  /\ UNCHANGED <<httpVars, chans, kept, redeemed, ctx>>

Exchange ==
  /\ pc = "exchange"
  /\ \E a \in Answers({"good", "short", "refused"}) :
       /\ ctx = "ended" => a.status = NoAnswer
       /\ Fail(exchangeRSTSToken(a), "close")
  /\ UNCHANGED <<httpVars, chans, kept, redeemed, ctx>>

(* The deferred listener.Close: Serve returns ErrServerClosed, which the   *)
(* goroutine does not report; handlers that run are not waited for.  It    *)
(* closes what Serve has registered, so not a port of which the goroutine  *)
(* has yet to call Serve.                                                  *)
Close ==
  /\ pc = "close"
  /\ Proceed("done")
  /\ serving' = IF serving = "bound" THEN "closing" ELSE "ended"
  /\ UNCHANGED <<requests, handlers, chans, kept, redeemed, ctx>>

EndContext ==
  /\ ctx = "live" /\ pc # "done"
  /\ ctx' = "ended"
  /\ UNCHANGED <<pc, httpVars, chans, kept, redeemed, err>>

ConnectStep ==
  Listen \/ Open \/ WaitCode \/ WaitError \/ WaitContext \/ Redeem \/ Exchange \/ Close

Next ==
  \/ ConnectStep \/ ServeStarts \/ Arrive \/ ServeFails \/ EndContext
  \/ \E r \in 1 .. MaxRequests : handle(r)

Spec == Init /\ [][Next]_vars

(* Goroutines run; the browser need never come back.                       *)
FairSpec ==
  /\ Spec
  /\ WF_vars(ConnectStep)
  /\ WF_vars(ServeStarts)
  /\ \A r \in 1 .. MaxRequests : WF_vars(handle(r))

-----------------------------------------------------------------------------
(***************************************************************************)
(* Properties                                                              *)
(***************************************************************************)

(* Every variable stays in its range; a channel holds one value.           *)
TypeOK ==
  /\ pc \in {"listen", "open", "wait", "redeem", "exchange", "close", "done"}
  /\ serving \in {"off", "bound", "on", "failed", "closing", "ended"}
  /\ Range(requests) \subseteq Codes \cup {NoCode} /\ handlers \subseteq DOMAIN requests
  /\ Range(codeCh) \subseteq Codes /\ Len(codeCh) <= 1
  /\ Range(errCh) \subseteq Errors /\ Len(errCh) <= 1
  /\ kept \in Codes \cup {NoCode}
  /\ Range(redeemed) \subseteq Codes
  /\ ctx \in {"live", "ended"}
  /\ err \in Errors

(* One code is redeemed, and it is the first that was handled: a later one *)
(* does not take its place (browser.go:182-184).                           *)
FirstCodeRedeemed == Len(redeemed) <= 1 /\ \A k \in DOMAIN redeemed : redeemed[k] = kept

(* Whatever is left in the channels, no handler waits for a reader         *)
(* (browser.go:188-200).                                                   *)
HandlersReturn == \A r \in 1 .. MaxRequests : r \in handlers ~> r \notin handlers

(* However the login ends, no request that comes later is served           *)
(* (browser.go:113-117).                                                   *)
ListenerClosed == pc = "done" => serving \in {"off", "closing", "ended"}

(* And its port is free in the end, also when the login returned before    *)
(* the goroutine entered Serve (browser.go:117, 171, 219-222).             *)
PortFreed == pc = "done" ~> serving \in {"off", "ended"}

(* The context releases the login wherever it waits (browser.go:92-93,     *)
(* 206-216).                                                               *)
ContextEndsLogin == ctx = "ended" ~> pc = "done"
=============================================================================
