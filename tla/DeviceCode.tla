----------------------------- MODULE DeviceCode -----------------------------
(***************************************************************************)
(* The device-code login (devicecode/devicecode.go:97-142 and              *)
(* internal/auth/interactive.go:172-294) against a clock.                  *)
(*                                                                         *)
(* The appliance is external: the user approves, denies or does nothing,   *)
(* and it answers a poll by what the user had done when it arrived, which  *)
(* is at some moment of the call, or fails.  slow_down is the pending      *)
(* answer that asks for more distance as well (RFC 8628, 3.5).  A call     *)
(* takes any time up to MaxCall, and the prompt any time up to MaxPrompt:  *)
(* the clock does not pass them.                                           *)
(***************************************************************************)
EXTENDS Broker

CONSTANTS
  Intervals,   \* poll intervals an appliance or a caller may ask for; 0 unset
  Lifetimes,   \* lifetimes an appliance may give a user code; 0 unset
  Default,     \* deviceDefaultInterval
  DefaultLifetime,  \* deviceDefaultExpiresIn
  Increment,   \* deviceSlowDownIncrement
  MaxCall,     \* bound: how long one HTTP call takes
  MaxPrompt,   \* bound: how long the prompt takes
  MaxSlow      \* bound: slow_down answers of one login

Assumptions ==
  /\ Intervals \subseteq Nat /\ Lifetimes \subseteq Nat
  /\ Default \in Nat \ {0} /\ DefaultLifetime \in Nat \ {0}
  /\ Increment \in Nat \ {0}
  /\ MaxCall \in Nat /\ MaxPrompt \in Nat /\ MaxSlow \in Nat

VARIABLES
  now,       \* the clock
  pc,        \* "start", "prompt", "check", "wait", "poll", "exchange" or "done"
  since,     \* when the present wait, call or prompt began
  interval,  \* the interval between polls
  pace,      \* the interval polling began with
  lifetime,  \* expiresIn of PollDeviceCode
  deadline,  \* when polling ends
  slows,     \* slow_down answers
  answered,  \* when the last poll was answered, NoTime before the first
  latePolls, \* polls begun at or after the deadline
  user,      \* "waiting", "approved" or "denied"
  decided,   \* when the user approved or denied, NoTime before
  ctx,       \* "live" or "ended"
  err        \* the error returned; NoError while none

clockVars == <<now, since>>
pollVars  == <<interval, pace, lifetime, deadline, slows, answered, latePolls>>
userVars  == <<user, decided>>
vars == <<clockVars, pc, pollVars, userVars, ctx, err>>

NoTime == 0
First == 1
OrDefault(value, default) == IF value > 0 THEN value ELSE default

Init ==
  /\ now = First /\ since = First
  /\ pc = "start"
  /\ interval = Default /\ pace = Default /\ lifetime = DefaultLifetime /\ deadline = NoTime
  /\ slows = 0 /\ answered = NoTime /\ latePolls = 0
  /\ user = "waiting" /\ decided = NoTime
  /\ ctx = "live"
  /\ err = NoError

Begin(label) == pc' = label /\ since' = now
Return(e) == pc' = "done" /\ err' = e /\ since' = now

(* StartDeviceCode, and the override of WithPollInterval: chosen is what   *)
(* the caller asked for.                                                   *)
StartDeviceCode ==
  /\ pc = "start"
  /\ \/ \E told \in Intervals, chosen \in Intervals, expires \in Lifetimes :
          /\ ctx = "live"
          /\ interval' = OrDefault(chosen, OrDefault(told, Default))
          /\ pace' = interval'
          /\ lifetime' = OrDefault(expires, DefaultLifetime)
          /\ Begin("prompt")
          /\ UNCHANGED err
     \/ \E a \in Answers({"good", "short"}) :
          /\ ctx = "ended" => a.status = NoAnswer
          /\ postRSTSGrant(a) # NoError
          /\ Return(postRSTSGrant(a))
          /\ UNCHANGED <<interval, pace, lifetime>>
  /\ UNCHANGED <<now, deadline, slows, answered, latePolls, userVars, ctx>>

(* The prompt returned; PollDeviceCode counts the lifetime from here.      *)
PromptReturns ==
  /\ pc = "prompt"
  /\ \/ /\ Begin("check")
        /\ deadline' = now + lifetime
        /\ UNCHANGED err
     \/ /\ Return(PlainError("prompt"))
        /\ UNCHANGED deadline
  /\ UNCHANGED <<now, interval, pace, lifetime, slows, answered, latePolls, userVars, ctx>>

\* Mutant: no wait is begun that would end at the deadline or after it.
CheckEarly ==
  /\ pc = "check"
  /\ \/ now + interval < deadline /\ Begin("wait") /\ UNCHANGED err
     \/ now + interval >= deadline /\ Return(RequestError(0, "expired"))
  /\ UNCHANGED <<now, pollVars, userVars, ctx>>

(* The loop condition. *)
CheckDeadline ==
  /\ pc = "check"
  /\ \/ now < deadline /\ Begin("wait") /\ UNCHANGED err
     \/ now >= deadline /\ Return(RequestError(0, "expired"))
  /\ UNCHANGED <<now, pollVars, userVars, ctx>>

(* wait: the timer or the context; either may be taken when both are due.  *)
Waited ==
  /\ pc = "wait"
  /\ \/ /\ now >= since + interval
        /\ Begin("poll")
        /\ latePolls' = latePolls + (IF now >= deadline THEN 1 ELSE 0)
        /\ UNCHANGED err
     \/ /\ ctx = "ended"
        /\ Return(PlainError("canceled"))
        /\ UNCHANGED latePolls
  /\ UNCHANGED <<now, interval, pace, lifetime, deadline, slows, answered, userVars, ctx>>

(* A poll was answered; Outcome is what the loop makes of it. *)
Answered(Outcome) ==
  /\ pc = "poll"
  /\ Outcome
  /\ answered' = now
  /\ UNCHANGED <<now, pace, lifetime, latePolls, userVars, ctx>>

PollToken ==
  /\ Answered(/\ user = "approved" /\ ctx = "live"
              /\ \E a \in {b \in Answers({"good", "short"}) : Ok(b.status)} :
                   IF postRSTSGrant(a) = NoError THEN Begin("exchange") /\ UNCHANGED err
                   ELSE Return(postRSTSGrant(a)))
  /\ UNCHANGED <<interval, deadline, slows>>

(* The poll may have arrived before the user decided.                      *)
Undecided == decided = NoTime \/ since <= decided

PollPending ==
  /\ Answered(Undecided /\ ctx = "live" /\ Begin("check") /\ UNCHANGED err)
  /\ UNCHANGED <<interval, deadline, slows>>

PollSlowDown ==
  /\ Answered(Undecided /\ ctx = "live" /\ slows < MaxSlow /\ Begin("check") /\ UNCHANGED err)
  /\ interval' = interval + Increment
  /\ slows' = slows + 1
  /\ UNCHANGED deadline

(* access_denied, expired_token, any other answer, or none. *)
PollFails ==
  /\ Answered(\/ ctx = "live" /\ user = "denied" /\ Return(RequestError(403, "denied"))
              \/ ctx = "live" /\ Return(RequestError(403, "expired"))
              \/ ctx = "live" /\ Return(RequestError(500, "none"))
              \/ Return(RequestError(0, "transport")))
  /\ UNCHANGED <<interval, deadline, slows>>

Exchange ==
  /\ pc = "exchange"
  /\ \E a \in Answers({"good", "short", "refused"}) :
       /\ ctx = "ended" => a.status = NoAnswer
       /\ Return(exchangeRSTSToken(a))
  /\ UNCHANGED <<now, pollVars, userVars, ctx>>

Decide ==
  /\ user = "waiting" /\ pc \notin {"start", "done"}
  /\ user' \in {"approved", "denied"}
  /\ decided' = now
  /\ UNCHANGED <<clockVars, pc, pollVars, ctx, err>>

EndContext ==
  /\ ctx = "live" /\ pc # "done"
  /\ ctx' = "ended"
  /\ UNCHANGED <<clockVars, pc, pollVars, userVars, err>>

(* The clock waits for nobody but what must have happened by now. *)
Tick ==
  /\ pc \notin {"check", "done"}
  /\ pc \in {"start", "poll", "exchange"} => now < since + MaxCall
  /\ pc = "prompt" => now < since + MaxPrompt
  /\ pc = "wait" => now < since + interval
  /\ now' = now + 1
  /\ UNCHANGED <<since, pc, pollVars, userVars, ctx, err>>

Step ==
  \/ StartDeviceCode \/ PromptReturns \/ CheckDeadline \/ Waited
  \/ PollToken \/ PollPending \/ PollSlowDown \/ PollFails \/ Exchange

Next == Step \/ Decide \/ EndContext \/ Tick

Spec == Init /\ [][Next]_vars

(* Timers fire, the transport's timeouts end every call, prompts return.   *)
FairSpec == Spec /\ WF_vars(Step) /\ WF_vars(Tick)

-----------------------------------------------------------------------------
(***************************************************************************)
(* Properties                                                              *)
(***************************************************************************)
(* Every variable stays in its range. *)
TypeOK ==
  /\ now \in Nat /\ since \in First .. now
  /\ pc \in {"start", "prompt", "check", "wait", "poll", "exchange", "done"}
  /\ pace \in Nat \ {0} /\ interval \in pace .. pace + MaxSlow * Increment
  /\ lifetime \in Nat \ {0}
  /\ deadline = NoTime \/ deadline \in First .. First + MaxCall + MaxPrompt + lifetime
  /\ slows \in 0 .. MaxSlow /\ latePolls \in Nat
  /\ answered \in 0 .. now /\ decided \in 0 .. now
  /\ user \in {"waiting", "approved", "denied"}
  /\ ctx \in {"live", "ended"}
  /\ err \in Errors

(* Polls keep their distance: each is begun at least the interval after    *)
(* the answer to the one before, and each slow_down adds to it             *)
(* (interactive.go:66-68, 219-220).                                        *)
PollsKeepDistance ==
  [][pc = "wait" /\ pc' = "poll" /\ answered # NoTime =>
       now >= answered + pace + slows * Increment]_vars

(* At most one poll is begun after the deadline, and no later than one     *)
(* interval after it (interactive.go:236-239).                             *)
OneLatePoll ==
  /\ latePolls <= 1
  /\ pc = "poll" => since < deadline + interval

(* The login gives up by itself only after a poll that was answered at or  *)
(* after the deadline, and then the user had not decided or did so within  *)
(* the length of that one call: an approval given longer than a call       *)
(* before the deadline is never missed, however long the interval has      *)
(* grown (interactive.go:217-222, 236-239, 257-261).                       *)
ExpiryMissesNoApproval ==
  err = RequestError(0, "expired") =>
    deadline <= answered /\ (decided # NoTime => deadline <= decided + MaxCall)

(* With a clock that goes on and calls that end, the login ends            *)
(* (interactive.go:220-222).                                               *)
LoginEnds == <>(pc = "done")
=============================================================================
