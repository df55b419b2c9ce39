------------------------------ MODULE MCLogins ------------------------------
(***************************************************************************)
(* Model checking of the ways to log in.  They share no state: a behaviour *)
(* picks one (form, device, browser, or the lookup of a provider) and runs *)
(* it, with the other three at rest in their first state.                  *)
(***************************************************************************)
EXTENDS Naturals, Sequences

CONSTANTS
  CookieNames, MaxCookies,
  Intervals, Lifetimes, Default, DefaultLifetime, Increment, MaxCall, MaxPrompt, MaxSlow,
  Codes, MaxRequests,
  Letters, MaxName, MaxProviders

VARIABLES
  way,
  flow, factor, formPc, demanded, accepted, jar, given, base, sent, live, deferred,
  formErr, public,
  now, since, devicePc, interval, pace, lifetime, deadline, slows, answered, latePolls,
  user, decided, deviceCtx, deviceErr,
  browserPc, serving, requests, handlers, codeCh, errCh, kept, redeemed, browserCtx,
  browserErr,
  providers, listed, asked, default, scope, directory

Form    == INSTANCE BrokerLogin WITH pc <- formPc, err <- formErr
Device  == INSTANCE DeviceCode WITH pc <- devicePc, ctx <- deviceCtx, err <- deviceErr
Browser == INSTANCE BrowserLogin WITH pc <- browserPc, ctx <- browserCtx, err <- browserErr
Lookup  == INSTANCE Providers

ASSUME LoginAssumption ==
  Form!Assumptions /\ Device!Assumptions /\ Browser!Assumptions /\ Lookup!Assumptions

formVars ==
  <<flow, factor, formPc, demanded, accepted, jar, given, base, sent, live, deferred, formErr,
    public>>
deviceVars ==
  <<now, since, devicePc, interval, pace, lifetime, deadline, slows, answered, latePolls,
    user, decided, deviceCtx, deviceErr>>
browserVars ==
  <<browserPc, serving, requests, handlers, codeCh, errCh, kept, redeemed, browserCtx,
    browserErr>>
lookupVars == <<providers, listed, asked, default, scope, directory>>
vars == <<way, formVars, deviceVars, browserVars, lookupVars>>

Init ==
  /\ way \in {"form", "device", "browser", "lookup"}
  /\ way # "form" => flow = "certificate" /\ factor = FALSE
  /\ way # "lookup" => /\ providers = <<>> /\ asked = <<>>
                       /\ listed = FALSE /\ default = "local"
  /\ Form!Init /\ Device!Init /\ Browser!Init /\ Lookup!Init

ElseForm    == UNCHANGED <<way, deviceVars, browserVars, lookupVars>>
ElseDevice  == UNCHANGED <<way, formVars, browserVars, lookupVars>>
ElseBrowser == UNCHANGED <<way, formVars, deviceVars, lookupVars>>
ElseLookup  == UNCHANGED <<way, formVars, deviceVars, browserVars>>

Next ==
  \/ way = "form" /\ Form!Next /\ ElseForm
  \/ way = "device" /\ Device!Next /\ ElseDevice
  \/ way = "browser" /\ Browser!Next /\ ElseBrowser
  \/ way = "lookup" /\ Lookup!Next /\ ElseLookup

Spec == Init /\ [][Next]_vars

(* The fairness of DeviceCode and of BrowserLogin. *)
FairSpec ==
  /\ Spec
  /\ WF_vars(way = "device" /\ Device!Step /\ ElseDevice)
  /\ WF_vars(way = "device" /\ Device!Tick /\ ElseDevice)
  /\ WF_vars(way = "browser" /\ Browser!ConnectStep /\ ElseBrowser)
  /\ WF_vars(way = "browser" /\ Browser!ServeStarts /\ ElseBrowser)
  /\ \A r \in 1 .. MaxRequests : WF_vars(way = "browser" /\ Browser!handle(r) /\ ElseBrowser)

-----------------------------------------------------------------------------
(* Every variable stays in its range (the modules' TypeOK). *)
TypeOK == Form!TypeOK /\ Device!TypeOK /\ Browser!TypeOK

(* BrokerLogin: a token is asked for only after the second factor the      *)
(* appliance demanded was accepted, and the 203 that rejects one is not    *)
(* taken for a success.                                                    *)
ClaimsNeedSecondFactor == Form!ClaimsNeedSecondFactor

(* BrokerLogin: the buffers a login made for its secrets are wiped on      *)
(* every way out, none before it was used, and the one-time code before    *)
(* the request that carries it.                                            *)
SecretsWiped == TypeOK /\ Form!SecretsWiped

(* BrokerLogin: each form carries the cookies given until then, and only   *)
(* one the one-time code.                                                  *)
StepsCarryTheSession == Form!StepsCarryTheSession /\ Form!OneTimeCodeOnce

(* DeviceCode: polls keep their distance, and each slow_down adds to it;   *)
(* at most one begins after the deadline; and expiry hides no approval     *)
(* given longer than one call before the deadline.                         *)
PollsInTime ==
  Device!PollsKeepDistance /\ [](Device!OneLatePoll /\ Device!ExpiryMissesNoApproval)

(* BrowserLogin: the first code handled is redeemed and no other, and a    *)
(* login that has returned serves no request any more.                     *)
FirstCodeRedeemed == Browser!FirstCodeRedeemed /\ Browser!ListenerClosed

(* DeviceCode and BrowserLogin: a device login ends, a browser login ends  *)
(* when its context does and leaves its port free, and no handler of the   *)
(* loopback listener waits for a reader.                                   *)
LoginsEnd ==
  /\ way = "device" => Device!LoginEnds
  /\ Browser!ContextEndsLogin
  /\ Browser!PortFreed
  /\ Browser!HandlersReturn

(* Providers: an exact id or name wins over a substring, and the password  *)
(* and the PKCE login of one identifier log in to the same provider.       *)
LookupIsExact == Lookup!ExactWins /\ Lookup!BothLoginsAgree
=============================================================================
