---------------------------- MODULE BrokerLogin ----------------------------
(***************************************************************************)
(* The logins that need no browser and no second device: password,         *)
(* certificate and headless PKCE (credentials.go:184-299, broker.go:61-99, *)
(* pkce.go:96-321), and the loopback URL of the browser flow's own tests   *)
(* (browsere2e.go:37-85).                                                  *)
(*                                                                         *)
(* A step is one HTTP call with its answer, or one callback.  The form     *)
(* controller of the appliance is external: it may answer anything, set    *)
(* or delete cookies at every step and ask for a second factor or not.     *)
(* The provider lookup before it (module Providers) ends no login,         *)
(* whatever it is answered.  Go strings, which nobody can wipe, are left   *)
(* out of the secrets; byte buffers are all in.                            *)
(***************************************************************************)
EXTENDS Broker, Sequences

CONSTANTS
  CookieNames,  \* cookies the appliance sets; the client adds CsrfToken
  MaxCookies    \* bound: values given to one cookie

Assumptions == MaxCookies \in Nat

VARIABLES
  flow,      \* the login: "password", "certificate", "pkce" or "loopback"
  factor,    \* whether WithSecondaryFactor was given
  pc,        \* the next call
  demanded,  \* the primary step reported a SecondaryProviderID
  accepted,  \* requests the appliance accepted
  jar,       \* pkceForm.cookies: the value sent for each name, 0 for none
  given,     \* the last value the appliance gave each cookie
  base,      \* fields of the base form
  sent,      \* the last request: its step, fields and cookies
  live,      \* byte buffers that hold secret material
  deferred,  \* of those, the ones a deferred call wipes
  err,       \* the error returned, NoError for none
  public     \* its public type

formVars   == <<jar, given, base>>
secretVars == <<live, deferred>>
vars == <<flow, factor, pc, demanded, accepted, formVars, sent, secretVars, err, public>>

Flows == {"password", "certificate", "pkce", "loopback"}
FormFlows == {"pkce", "loopback"}

(* The byte buffers that hold a secret: those a login wipes, and those it   *)
(* leaves to the garbage collector, which are the bodies it sends as JSON, *)
(* the answers it reads and the Secret that the factor callback returned.  *)
Wiped   == {"password", "verifier", "code", "rsts", "token"}
Unwiped == {"factor", "claims answer", "grant body", "grant answer", "exchange body",
            "exchange answer"}

BaseFields == {"directory", "username", "password", "csrf"}
NoRequest == [step |-> "none", fields |-> {}, cookies |-> [n \in CookieNames |-> 0]]

Init ==
  /\ flow \in Flows
  /\ factor \in BOOLEAN
  /\ pc = IF flow \in FormFlows THEN "init" ELSE "grant"
  /\ demanded = FALSE
  /\ accepted = {}
  /\ jar = [n \in CookieNames |-> 0]
  /\ given = [n \in CookieNames |-> 0]
  /\ base = BaseFields
  /\ sent = NoRequest
  /\ live = CASE flow = "password" -> {"password"}
              [] flow = "pkce" -> {"password", "verifier"}
              [] OTHER -> {}
  /\ deferred = live
  /\ err = NoError
  /\ public = "none"

(* Every return wipes what a deferred call was registered for, and leaves  *)
(* what was read for nobody to wipe.  The error of a loopback URL goes to  *)
(* a test, untranslated.                                                   *)
Return(e, read) ==
  /\ pc' = "done"
  /\ err' = e
  /\ public' = IF e = NoError THEN "none"
               ELSE IF flow = "loopback" THEN "internal" ELSE translateAuthError(e)
  /\ live' = (live \cup read) \ deferred
  /\ deferred' = {}

GoTo(label) ==
  /\ pc' = label
  /\ UNCHANGED <<err, public>>

Request(step, fields, cookies) ==
  sent' = [step |-> step, fields |-> fields, cookies |-> cookies]

(***************************************************************************)
(* The form controller.                                                    *)
(***************************************************************************)
\* Mutant: a deletion empties the cookie the flow keeps.
HarvestAll(n, deleted) ==
  /\ jar' = [jar EXCEPT ![n] = IF deleted THEN 0 ELSE @ + 1]
  /\ given' = [given EXCEPT ![n] = IF deleted THEN @ ELSE @ + 1]

(* harvestCookies, of an answer that sets or deletes one cookie.           *)
harvestCookies(n, deleted) ==
  /\ jar' = [jar EXCEPT ![n] = IF deleted THEN @ ELSE @ + 1]
  /\ given' = [given EXCEPT ![n] = IF deleted THEN @ ELSE @ + 1]

(* The appliance rejects a second factor with 203, everything else with    *)
(* another class of status.                                                *)
Accept(step, a) ==
  accepted' = IF Ok(a.status) /\ ~(step = "secondAuth" /\ a.status = 203)
                THEN accepted \cup {step} ELSE accepted

(* post: one form, its answer a and its cookies.                           *)
post(step, fields, a) ==
  /\ Request(step, fields, jar)
  /\ Accept(step, a)
  /\ \/ UNCHANGED <<jar, given>>
     \/ /\ a.status # NoAnswer
        /\ \E n \in CookieNames, deleted \in BOOLEAN :
             given[n] < MaxCookies /\ harvestCookies(n, deleted)

(* The outcome of a form step: on to the next one, or the error.           *)
Continue(e, label, read) ==
  \/ /\ e = NoError
     /\ GoTo(label)
     /\ live' = live \cup read
     /\ UNCHANGED deferred
  \/ /\ e # NoError
     /\ Return(e, read)

FormInit ==
  /\ pc = "init"
  /\ \E a \in Answers({"good"}) :
       /\ post("init", base, a)
       /\ Continue(PostError(a), "primary", {})
  /\ UNCHANGED <<flow, factor, demanded, base>>

(* acquireCode looks at SecondaryProviderID once the step was accepted.    *)
FormPrimary ==
  /\ pc = "primary"
  /\ \E a \in Answers({"good"}), secondary \in BOOLEAN :
       /\ post("primary", base, a)
       /\ demanded' = (secondary /\ PostError(a) = NoError)
       /\ IF demanded' /\ ~factor
            THEN Continue(RequestError(0, "no factor given"), "claims", {})
            ELSE Continue(PostError(a), IF demanded' THEN "secondInit" ELSE "claims", {})
  /\ UNCHANGED <<flow, factor, base>>

FormSecondInit ==
  /\ pc = "secondInit"
  /\ \E a \in Answers({"good"}) :
       /\ post("secondInit", base, a)
       /\ Continue(PostError(a), "factor", {})
  /\ UNCHANGED <<flow, factor, demanded, base>>

(* The caller's callback; a code it returns is copied into the flow, and   *)
(* the Secret it came in is not wiped.  A test's callback returns bytes.   *)
FactorCallback ==
  /\ pc = "factor"
  /\ \/ /\ GoTo("secondAuth")
        /\ live' = live \cup {"code"} \cup (IF flow = "pkce" THEN {"factor"} ELSE {})
        /\ UNCHANGED deferred
     \/ Return(RequestError(0, "factor callback"), {})
  /\ UNCHANGED <<flow, factor, demanded, accepted, formVars, sent>>

\* Mutant: a 203 is a success like the others.
SecondErrorAny(a) == PostError(a)

SecondError(a) ==
  IF a.status = 203 THEN RequestError(203, "factor rejected") ELSE PostError(a)

\* Mutant: the code is wiped only after the form was sent.
SecondFormKept ==
  /\ UNCHANGED <<base, live>>

(* cloneValues, and zero(code).                                            *)
SecondForm ==
  /\ live' = live \ {"code"}
  /\ UNCHANGED base

FillSecond ==
  /\ pc = "secondAuth" /\ "code" \in live
  /\ SecondForm
  /\ GoTo("secondSend")
  /\ UNCHANGED <<flow, factor, demanded, accepted, jar, given, sent, deferred>>

FormSecondAuth ==
  /\ pc = "secondSend"
  /\ \E a \in Answers({"good"}) :
       /\ post("secondAuth", base \cup {"factor", "state"}, a)
       /\ Continue(SecondError(a), "claims", {})
  /\ UNCHANGED <<flow, factor, demanded, base>>

(* RelyingPartyUrl and its code; these errors carry no status.             *)
ClaimsError(a) ==
  IF PostError(a) # NoError THEN PostError(a)
  ELSE IF a.body = "short" THEN RequestError(0, "missing token")
  ELSE NoError

(* The buffer of an answer, when it holds the secret asked for.            *)
Read(buffer, a) == IF a.body = "good" THEN {buffer} ELSE {}

FormClaims ==
  /\ pc = "claims"
  /\ \E a \in Answers({"good", "short"}) :
       /\ post("claims", base, a)
       /\ \/ flow = "pkce" /\ Continue(ClaimsError(a), "grant", Read("claims answer", a))
          \/ flow = "loopback" /\ Return(ClaimsError(a), Read("claims answer", a))
  /\ UNCHANGED <<flow, factor, demanded, base>>

(***************************************************************************)
(* The grant and the exchange, of every flow but the loopback URL.         *)
(***************************************************************************)
(* postJSON wipes neither its payload nor the body it reads; only a        *)
(* certificate's grant holds no secret.                                    *)
GrantBuffers(a) ==
  Read("grant answer", a) \cup (IF flow = "certificate" THEN {} ELSE {"grant body"})
ExchangeBuffers(a) == Read("exchange answer", a) \cup {"exchange body"}

Grant ==
  /\ pc = "grant"
  /\ Request("grant", {}, NoRequest.cookies)
  /\ \E a \in Answers({"good", "short"}) :
       /\ Accept("grant", a)
       /\ \/ /\ postRSTSGrant(a) = NoError
             /\ GoTo("exchange")
             /\ live' = live \cup GrantBuffers(a) \cup {"rsts"}
             /\ deferred' = deferred \cup {"rsts"}
          \/ /\ postRSTSGrant(a) # NoError
             /\ Return(postRSTSGrant(a), GrantBuffers(a))
  /\ UNCHANGED <<flow, factor, demanded, formVars>>

(* The return of LoginPassword, LoginCertificate and LoginPKCE wipes the   *)
(* RSTS token and the verifier; establish wipes the user token later.      *)
Exchange ==
  /\ pc = "exchange"
  /\ Request("exchange", {}, NoRequest.cookies)
  /\ \E a \in Answers({"good", "short", "refused"}) :
       /\ Accept("exchange", a)
       /\ \/ /\ exchangeRSTSToken(a) = NoError
             /\ GoTo("session")
             /\ live' = (live \ {"rsts", "verifier"}) \cup ExchangeBuffers(a) \cup {"token"}
             /\ deferred' = (deferred \ {"rsts", "verifier"}) \cup {"token"}
          \/ /\ exchangeRSTSToken(a) # NoError
             /\ Return(exchangeRSTSToken(a), ExchangeBuffers(a))
  /\ UNCHANGED <<flow, factor, demanded, formVars>>

(* The user token is copied into the session, and the buffer wiped.        *)
NewSession ==
  /\ pc = "session"
  /\ Return(NoError, {})
  /\ UNCHANGED <<flow, factor, demanded, accepted, formVars, sent>>

Next ==
  \/ FormInit \/ FormPrimary \/ FormSecondInit \/ FactorCallback
  \/ FillSecond \/ FormSecondAuth \/ FormClaims
  \/ Grant \/ Exchange \/ NewSession

Spec == Init /\ [][Next]_vars

-----------------------------------------------------------------------------
(***************************************************************************)
(* Properties                                                              *)
(***************************************************************************)

(* Every variable stays in its range.                                      *)
TypeOK ==
  /\ flow \in Flows /\ factor \in BOOLEAN /\ demanded \in BOOLEAN
  /\ pc \in {"init", "primary", "secondInit", "factor", "secondAuth", "secondSend",
             "claims", "grant", "exchange", "session", "done"}
  /\ accepted \subseteq
       {"init", "primary", "secondInit", "secondAuth", "claims", "grant", "exchange"}
  /\ jar \in [CookieNames -> 0 .. MaxCookies]
  /\ given \in [CookieNames -> 0 .. MaxCookies]
  /\ base \subseteq BaseFields \cup {"factor", "state"}
  /\ live \subseteq Wiped \cup Unwiped
  /\ deferred \subseteq live
  /\ err \in Errors
  /\ public \in IF err = NoError THEN {"none"} ELSE PublicErrors

(* A token, and before it the claims, are asked for only when the second   *)
(* factor the appliance demanded was accepted; the 203 that rejects one is *)
(* a 2xx like any other to the rest of the flow (pkce.go:69-71, 212-222).  *)
ClaimsNeedSecondFactor ==
  demanded /\ (sent.step \in {"claims", "grant", "exchange"}) => "secondAuth" \in accepted

(* The one-time code travels once, in the step that asks for it, and never *)
(* in a form sent after it (pkce.go:203-206, 376-378).                     *)
OneTimeCodeOnce ==
  [][sent' # sent /\ "factor" \in sent'.fields =>
       sent'.step = "secondAuth" /\ sent.step # "secondAuth"]_vars

(* Each form carries, for each cookie, the last value the appliance gave   *)
(* it, across deletions (pkce.go:252-255, 311-313).                        *)
StepsCarryTheSession ==
  [][sent' # sent /\ sent'.step \notin {"grant", "exchange"} => sent'.cookies = given]_vars

(* Whatever the way out, the buffers a login made for the password, the    *)
(* verifier, the one-time code, the RSTS token and the user token are      *)
(* wiped, each not before it was used and the code before the request that *)
(* carries it; what outlives the login are JSON bodies, answers, and the   *)
(* Secret of the factor callback (pkce.go:103-106, 142, 206;               *)
(* broker.go:161-187; credentials.go:189-196, 279-297).                    *)
SecretsWiped ==
  /\ pc = "done" => live \subseteq Unwiped
  /\ pc = "secondSend" => "code" \notin live
  /\ pc = "exchange" => "rsts" \in live
  /\ pc = "session" => "token" \in live
=============================================================================
