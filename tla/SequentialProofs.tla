-------------------------- MODULE SequentialProofs --------------------------
(***************************************************************************)
(* The safety theorems of the programs that take one step after another:   *)
(* the ways to log in (module MCLogins), for every set of cookies,         *)
(* intervals, lifetimes, codes and providers, and what the live tests do   *)
(* to the appliance (module MCLiveTests), for every number of tests and of *)
(* calls that fail.                                                        *)
(***************************************************************************)
EXTENDS MCLogins, MCLiveTests, WellFoundedInduction, SequenceTheorems, TLAPS

-----------------------------------------------------------------------------
(***************************************************************************)
(* Broker: what the calls make of an answer.                               *)
(***************************************************************************)
LEMMA BrokerErrors ==
  ASSUME NEW a \in Form!Answers({"good", "short", "refused"})
  PROVE  /\ Form!PostError(a) \in Form!Errors
         /\ Form!postRSTSGrant(a) \in Form!Errors
         /\ Form!exchangeRSTSToken(a) \in Form!Errors
         /\ Form!SecondError(a) \in Form!Errors
         /\ Form!ClaimsError(a) \in Form!Errors
BY DEF Form!Answers, Form!Statuses, Form!NoAnswer, Form!PostError, Form!postRSTSGrant,
   Form!exchangeRSTSToken, Form!SecondError, Form!ClaimsError, Form!Errors, Form!RequestError,
   Form!NoError, Form!PlainError, Form!Causes

LEMMA PublicError ==
  \A e \in Form!Errors : Form!translateAuthError(e) \in Form!PublicErrors
BY DEF Form!translateAuthError, Form!PublicErrors, Form!APIErrors, Form!newAPIError
-----------------------------------------------------------------------------
(***************************************************************************)
(* BrokerLogin: cookies, second factor and secrets.                        *)
(***************************************************************************)
ClaimSteps == {"claims", "grant", "exchange"}

(* The jar is what the appliance gave, and the base form is never changed. *)
JarInv == jar = given /\ base = Form!BaseFields

(* The steps come in their order, and the ones after the second factor     *)
(* only once it was accepted.                                              *)
OrderInv ==
  /\ formPc \in {"init", "primary"} => ~demanded
  /\ formPc \in {"init", "primary", "secondInit", "factor", "secondAuth", "secondSend"} =>
       sent.step \notin ClaimSteps \cup {"secondAuth"}
  /\ demanded /\ (formPc \in ClaimSteps \/ sent.step \in ClaimSteps) => "secondAuth" \in accepted

(* Every secret but a code about to be copied into a form has a deferred   *)
(* call that wipes it, or is in a buffer that nobody wipes; and a token    *)
(* stays until it was used.                                                *)
WipeInv ==
  /\ live \subseteq deferred \cup Form!Unwiped
                      \cup (IF formPc = "secondAuth" THEN {"code"} ELSE {})
  /\ "code" \notin deferred
  /\ formPc = "done" => deferred = {}
  /\ formPc = "exchange" => "rsts" \in deferred
  /\ formPc = "session" => "token" \in deferred

FormInv == Form!TypeOK /\ JarInv /\ OrderInv /\ WipeInv

LEMMA InitForm == Init => FormInv
<1> SUFFICES ASSUME Init PROVE FormInv
  OBVIOUS
<1>1. Form!Init /\ MaxCookies \in Nat
  BY LoginAssumption DEF Init, Form!Assumptions
<1>2. Form!NoError \in Form!Errors
  BY DEF Form!NoError, Form!PlainError, Form!Errors, Form!Statuses, Form!NoAnswer, Form!Causes
<1>3. Form!TypeOK
  <2>1. live \subseteq Form!Wiped \cup Form!Unwiped /\ deferred \subseteq live
    BY <1>1 DEF Form!Init, Form!Flows, Form!Wiped
  <2>2. formPc \in {"init", "grant"} /\ factor \in BOOLEAN /\ demanded \in BOOLEAN
    BY <1>1 DEF Form!Init
  <2> QED BY <1>1, <1>2, <2>1, <2>2 DEF Form!Init, Form!TypeOK
<1>4. JarInv /\ OrderInv
  BY <1>1 DEF Form!Init, JarInv, OrderInv, Form!NoRequest, ClaimSteps
<1>5. WipeInv
  BY <1>1 DEF Form!Init, WipeInv, Form!Flows
<1> QED BY <1>3, <1>4, <1>5 DEF FormInv

(* A form is sent with the jar as it is, and its answer fills the jar.     *)
LEMMA PostMoves ==
  ASSUME FormInv, NEW step, NEW fields, NEW a,
         Form!post(step, fields, a),
         step \in {"init", "primary", "secondInit", "secondAuth", "claims"}
  PROVE  /\ sent' = [step |-> step, fields |-> fields, cookies |-> given]
         /\ accepted' \in {accepted, accepted \cup {step}}
         /\ step = "secondAuth" /\ Form!SecondError(a) = Form!NoError => step \in accepted'
         /\ jar' = given' /\ given' \in [CookieNames -> 0 .. MaxCookies]
<1>1. jar = given /\ given \in [CookieNames -> 0 .. MaxCookies] /\ MaxCookies \in Nat
  BY LoginAssumption DEF FormInv, JarInv, Form!TypeOK, Form!Assumptions
<1>2. sent' = [step |-> step, fields |-> fields, cookies |-> given]
  BY <1>1 DEF Form!post, Form!Request
<1>3. accepted' \in {accepted, accepted \cup {step}}
  BY DEF Form!post, Form!Accept
<1>4. ASSUME step = "secondAuth", Form!SecondError(a) = Form!NoError PROVE step \in accepted'
  <2>1. a.status # 203 /\ Form!Ok(a.status)
    BY <1>4 DEF Form!SecondError, Form!PostError, Form!RequestError, Form!NoError, Form!PlainError
  <2> QED BY <1>4, <2>1 DEF Form!post, Form!Accept
<1>5. CASE UNCHANGED <<jar, given>>
  BY <1>1, <1>2, <1>3, <1>4, <1>5
<1>6. CASE \E n \in CookieNames, deleted \in BOOLEAN :
             given[n] < MaxCookies /\ Form!harvestCookies(n, deleted)
  <2>1. PICK n \in CookieNames, deleted \in BOOLEAN :
             given[n] < MaxCookies /\ Form!harvestCookies(n, deleted)
    BY <1>6
  <2>2. jar' = given' /\ given' = [given EXCEPT ![n] = IF deleted THEN @ ELSE @ + 1]
    BY <1>1, <2>1 DEF Form!harvestCookies
  <2>3. given[n] + 1 \in 0 .. MaxCookies
    BY <1>1, <2>1
  <2>4. given' \in [CookieNames -> 0 .. MaxCookies]
    BY <1>1, <2>2, <2>3
  <2> QED BY <1>2, <1>3, <1>4, <2>2, <2>4
<1> QED BY <1>5, <1>6 DEF Form!post

(* The login returned: it reports the error, and wiped what it wipes.      *)
Ends ==
  /\ formPc' = "done" /\ formErr' \in Form!Errors
  /\ public' \in IF formErr' = Form!NoError THEN {"none"} ELSE Form!PublicErrors
  /\ live' \subseteq Form!Unwiped /\ deferred' = {}

(* It goes on, and may have read a secret into a buffer that is not wiped. *)
GoesOn(label) ==
  /\ formPc' = label /\ UNCHANGED <<formErr, public, deferred>>
  /\ live \subseteq live' /\ live' \subseteq live \cup Form!Unwiped

LEMMA ReturnMoves ==
  ASSUME FormInv, NEW e \in Form!Errors, NEW read, read \subseteq Form!Unwiped,
         Form!Return(e, read), formPc # "secondAuth"
  PROVE  Ends
<1>1. "internal" \in Form!PublicErrors
  BY DEF Form!PublicErrors
<1>2. live' \subseteq Form!Unwiped /\ deferred' = {}
  BY DEF FormInv, WipeInv, Form!Return
<1>3. /\ formPc' = "done" /\ formErr' \in Form!Errors
      /\ public' \in IF formErr' = Form!NoError THEN {"none"} ELSE Form!PublicErrors
  BY <1>1, PublicError DEF Form!Return
<1> QED BY <1>2, <1>3 DEF Ends

(* What a form step does, whichever it is and however it ends.             *)
FormStep(step, label) ==
  /\ sent' = [step |-> step, fields |-> sent'.fields, cookies |-> given]
  /\ "factor" \in sent'.fields => step = "secondAuth"
  /\ accepted' \in {accepted, accepted \cup {step}}
  /\ jar' = given' /\ given' \in [CookieNames -> 0 .. MaxCookies]
  /\ UNCHANGED <<flow, factor, base>>
  /\ \/ GoesOn(label) /\ (step = "secondAuth" => step \in accepted')
     \/ Ends

LEMMA ContinueMoves ==
  ASSUME FormInv, formPc # "secondAuth", NEW e \in Form!Errors, NEW label, NEW read,
         read \subseteq Form!Unwiped, Form!Continue(e, label, read)
  PROVE  (e = Form!NoError /\ GoesOn(label)) \/ Ends
<1>1. CASE e = Form!NoError /\ Form!GoTo(label) /\ live' = live \cup read /\ UNCHANGED deferred
  BY <1>1 DEF Form!GoTo, GoesOn
<1>2. CASE e # Form!NoError /\ Form!Return(e, read)
  BY <1>2, ReturnMoves
<1> QED BY <1>1, <1>2 DEF Form!Continue

(* The buffers of a request and of its answer are not wiped.               *)
LEMMA ReadBuffers ==
  ASSUME NEW a
  PROVE  /\ Form!Read("claims answer", a) \subseteq Form!Unwiped
         /\ Form!GrantBuffers(a) \subseteq Form!Unwiped
         /\ Form!ExchangeBuffers(a) \subseteq Form!Unwiped
BY DEF Form!Read, Form!GrantBuffers, Form!ExchangeBuffers, Form!Unwiped

LEMMA AnyAnswer ==
  /\ Form!Answers({"good"}) \subseteq Form!Answers({"good", "short", "refused"})
  /\ Form!Answers({"good", "short"}) \subseteq Form!Answers({"good", "short", "refused"})
BY DEF Form!Answers

LEMMA FormSteps ==
  ASSUME FormInv
  PROVE  /\ Form!FormInit => FormStep("init", "primary") /\ UNCHANGED demanded
         /\ Form!FormPrimary => /\ demanded' \in BOOLEAN
                                /\ FormStep("primary", IF demanded' THEN "secondInit" ELSE "claims")
         /\ Form!FormSecondInit => FormStep("secondInit", "factor") /\ UNCHANGED demanded
         /\ Form!FormSecondAuth => FormStep("secondAuth", "claims") /\ UNCHANGED demanded
         /\ Form!FormClaims => FormStep("claims", "grant") /\ UNCHANGED demanded
<1>0. base = Form!BaseFields /\ "factor" \notin Form!BaseFields
  BY DEF FormInv, JarInv, Form!BaseFields
<1>1. ASSUME Form!FormInit PROVE FormStep("init", "primary") /\ UNCHANGED demanded
  <2>1. PICK a \in Form!Answers({"good"}) :
          Form!post("init", base, a) /\ Form!Continue(Form!PostError(a), "primary", {})
    BY <1>1 DEF Form!FormInit
  <2>2. Form!PostError(a) \in Form!Errors
    BY AnyAnswer, BrokerErrors
  <2>3. formPc = "init" /\ UNCHANGED <<flow, factor, demanded, base>>
    BY <1>1 DEF Form!FormInit
  <2> QED BY <1>0, <2>1, <2>2, <2>3, PostMoves, ContinueMoves DEF FormStep
<1>2. ASSUME Form!FormPrimary
      PROVE  /\ demanded' \in BOOLEAN
             /\ FormStep("primary", IF demanded' THEN "secondInit" ELSE "claims")
  <2>1. PICK a \in Form!Answers({"good"}), secondary \in BOOLEAN :
          /\ Form!post("primary", base, a)
          /\ demanded' = (secondary /\ Form!PostError(a) = Form!NoError)
          /\ IF demanded' /\ ~factor
               THEN Form!Continue(Form!RequestError(0, "no factor given"), "claims", {})
               ELSE Form!Continue(Form!PostError(a), IF demanded' THEN "secondInit" ELSE "claims", {})
    BY <1>2 DEF Form!FormPrimary
  <2>2. /\ Form!PostError(a) \in Form!Errors
        /\ Form!RequestError(0, "no factor given") \in Form!Errors
        /\ Form!RequestError(0, "no factor given") # Form!NoError
    <3>1. Form!PostError(a) \in Form!Errors
      BY AnyAnswer, BrokerErrors
    <3> QED
      BY <3>1 DEF Form!RequestError, Form!Errors, Form!Statuses, Form!NoAnswer, Form!Causes,
         Form!NoError, Form!PlainError
  <2>3. formPc = "primary" /\ UNCHANGED <<flow, factor, base>>
    BY <1>2 DEF Form!FormPrimary
  <2>4. demanded' \in BOOLEAN
    BY <2>1
  <2>5. PICK e, label :
          /\ e \in Form!Errors
          /\ Form!Continue(e, label, {})
          /\ e = Form!NoError => label = IF demanded' THEN "secondInit" ELSE "claims"
    <3>1. CASE demanded' /\ ~factor
      <4>1. Form!Continue(Form!RequestError(0, "no factor given"), "claims", {})
        BY <2>1, <3>1
      <4> QED BY <2>2, <4>1
    <3>2. CASE ~(demanded' /\ ~factor)
      <4>1. Form!Continue(Form!PostError(a), IF demanded' THEN "secondInit" ELSE "claims", {})
        BY <2>1, <3>2
      <4> QED BY <2>2, <4>1
    <3> QED BY <3>1, <3>2
  <2>6. (e = Form!NoError /\ GoesOn(label)) \/ Ends
    BY <2>3, <2>5, ContinueMoves
  <2>7. /\ sent' = [step |-> "primary", fields |-> base, cookies |-> given]
        /\ accepted' \in {accepted, accepted \cup {"primary"}}
        /\ jar' = given' /\ given' \in [CookieNames -> 0 .. MaxCookies]
    BY <2>1, PostMoves
  <2> DEFINE next == IF demanded' THEN "secondInit" ELSE "claims"
  <2>8. e = Form!NoError => label = next
    BY <2>5
  <2> HIDE DEF next
  <2>9. FormStep("primary", next)
    BY <1>0, <2>3, <2>6, <2>7, <2>8 DEF FormStep
  <2> QED BY <2>4, <2>9 DEF next
<1>3. ASSUME Form!FormSecondInit PROVE FormStep("secondInit", "factor") /\ UNCHANGED demanded
  <2>1. PICK a \in Form!Answers({"good"}) :
          Form!post("secondInit", base, a) /\ Form!Continue(Form!PostError(a), "factor", {})
    BY <1>3 DEF Form!FormSecondInit
  <2>2. Form!PostError(a) \in Form!Errors
    BY AnyAnswer, BrokerErrors
  <2>3. formPc = "secondInit" /\ UNCHANGED <<flow, factor, demanded, base>>
    BY <1>3 DEF Form!FormSecondInit
  <2> QED BY <1>0, <2>1, <2>2, <2>3, PostMoves, ContinueMoves DEF FormStep
<1>4. ASSUME Form!FormSecondAuth PROVE FormStep("secondAuth", "claims") /\ UNCHANGED demanded
  <2>1. PICK a \in Form!Answers({"good"}) :
          /\ Form!post("secondAuth", base \cup {"factor", "state"}, a)
          /\ Form!Continue(Form!SecondError(a), "claims", {})
    BY <1>4 DEF Form!FormSecondAuth
  <2>2. Form!SecondError(a) \in Form!Errors
    BY AnyAnswer, BrokerErrors
  <2>3. formPc = "secondSend" /\ UNCHANGED <<flow, factor, demanded, base>>
    BY <1>4 DEF Form!FormSecondAuth
  <2> QED BY <2>1, <2>2, <2>3, PostMoves, ContinueMoves DEF FormStep
<1>5. ASSUME Form!FormClaims PROVE FormStep("claims", "grant") /\ UNCHANGED demanded
  <2>1. PICK a \in Form!Answers({"good", "short"}) :
          /\ Form!post("claims", base, a)
          /\ \/ Form!Continue(Form!ClaimsError(a), "grant", Form!Read("claims answer", a))
             \/ Form!Return(Form!ClaimsError(a), Form!Read("claims answer", a))
    BY <1>5 DEF Form!FormClaims
  <2>2. Form!ClaimsError(a) \in Form!Errors
    BY AnyAnswer, BrokerErrors
  <2>3. formPc = "claims" /\ UNCHANGED <<flow, factor, demanded, base>>
    BY <1>5 DEF Form!FormClaims
  <2>4. GoesOn("grant") \/ Ends
    BY <2>1, <2>2, <2>3, ReadBuffers, ContinueMoves, ReturnMoves
  <2>5. /\ sent' = [step |-> "claims", fields |-> base, cookies |-> given]
        /\ accepted' \in {accepted, accepted \cup {"claims"}}
        /\ jar' = given' /\ given' \in [CookieNames -> 0 .. MaxCookies]
    BY <2>1, PostMoves
  <2> QED BY <1>0, <2>3, <2>4, <2>5 DEF FormStep
<1> QED BY <1>1, <1>2, <1>3, <1>4, <1>5

FormLabels == {"init", "primary", "secondInit", "factor", "secondSend", "claims", "grant"}

LEMMA FormStepInv ==
  ASSUME FormInv, NEW step \in {"init", "primary", "secondInit", "secondAuth", "claims"},
         NEW label \in FormLabels, FormStep(step, label), demanded' \in BOOLEAN,
         formPc # "secondAuth"
  PROVE  Form!TypeOK' /\ JarInv' /\ WipeInv' /\ formPc' \in {label, "done"} /\ sent'.step = step
<1>1. /\ jar' = given' /\ given' \in [CookieNames -> 0 .. MaxCookies]
      /\ UNCHANGED <<flow, factor, base>> /\ sent'.step = step
      /\ accepted' \in {accepted, accepted \cup {step}}
  BY DEF FormStep
<1>2. GoesOn(label) \/ Ends
  BY DEF FormStep
<1>3. formErr' \in Form!Errors
      /\ public' \in IF formErr' = Form!NoError THEN {"none"} ELSE Form!PublicErrors
  BY <1>2 DEF FormInv, Form!TypeOK, GoesOn, Ends
<1>4. /\ formPc' \in FormLabels \cup {"done"} /\ formPc' \in {label, "done"}
      /\ live' \subseteq Form!Wiped \cup Form!Unwiped /\ deferred' \subseteq live'
  BY <1>2 DEF FormInv, Form!TypeOK, GoesOn, Ends
<1>5. Form!TypeOK'
  <2>1. accepted' \subseteq {"init", "primary", "secondInit", "secondAuth", "claims", "grant", "exchange"}
    BY <1>1 DEF FormInv, Form!TypeOK
  <2>2. flow' \in Form!Flows /\ factor' \in BOOLEAN /\ base' \subseteq Form!BaseFields \cup {"factor", "state"}
    BY <1>1 DEF FormInv, Form!TypeOK
  <2>3. formPc' \in {"init", "primary", "secondInit", "factor", "secondAuth", "secondSend",
                     "claims", "grant", "exchange", "session", "done"}
    BY <1>4 DEF FormLabels
  <2> QED BY <1>1, <1>3, <1>4, <2>1, <2>2, <2>3 DEF Form!TypeOK
<1>6. JarInv'
  BY <1>1 DEF FormInv, JarInv
<1>7. WipeInv'
  <2>1. CASE GoesOn(label)
    BY <2>1 DEF FormInv, WipeInv, FormLabels, GoesOn
  <2>2. CASE Ends
    BY <2>2 DEF WipeInv, Ends
  <2> QED BY <1>2, <2>1, <2>2
<1> QED BY <1>1, <1>4, <1>5, <1>6, <1>7

LEMMA NextForm == FormInv /\ Form!Next => FormInv'
<1> SUFFICES ASSUME FormInv, Form!Next PROVE FormInv'
  OBVIOUS
<1>0. demanded \in BOOLEAN
  BY DEF FormInv, Form!TypeOK
<1>1. CASE Form!FormInit
  <2>1. formPc = "init" /\ FormStep("init", "primary") /\ UNCHANGED demanded
    BY <1>1, FormSteps DEF Form!FormInit
  <2>2. Form!TypeOK' /\ JarInv' /\ WipeInv' /\ formPc' \in {"primary", "done"} /\ sent'.step = "init"
    BY <1>0, <2>1, FormStepInv DEF FormLabels
  <2>3. OrderInv'
    BY <2>1, <2>2 DEF FormInv, OrderInv, ClaimSteps
  <2> QED BY <2>2, <2>3 DEF FormInv
<1>2. CASE Form!FormPrimary
  <2> DEFINE next == IF demanded' THEN "secondInit" ELSE "claims"
  <2>1. formPc = "primary" /\ FormStep("primary", next) /\ demanded' \in BOOLEAN
    BY <1>2, FormSteps DEF Form!FormPrimary
  <2>2. next \in FormLabels
    BY DEF FormLabels
  <2>3. next = "secondInit" \/ (next = "claims" /\ ~demanded')
    OBVIOUS
  <2> HIDE DEF next
  <2>4. Form!TypeOK' /\ JarInv' /\ WipeInv' /\ formPc' \in {next, "done"} /\ sent'.step = "primary"
    BY <2>1, <2>2, FormStepInv
  <2>5. OrderInv'
    BY <2>1, <2>3, <2>4 DEF OrderInv, ClaimSteps
  <2> QED BY <2>4, <2>5 DEF FormInv
<1>3. CASE Form!FormSecondInit
  <2>1. formPc = "secondInit" /\ FormStep("secondInit", "factor") /\ UNCHANGED demanded
    BY <1>3, FormSteps DEF Form!FormSecondInit
  <2>2. Form!TypeOK' /\ JarInv' /\ WipeInv' /\ formPc' \in {"factor", "done"}
        /\ sent'.step = "secondInit"
    BY <1>0, <2>1, FormStepInv DEF FormLabels
  <2>3. OrderInv'
    BY <2>1, <2>2 DEF FormInv, OrderInv, ClaimSteps
  <2> QED BY <2>2, <2>3 DEF FormInv
<1>4. CASE Form!FormSecondAuth
  <2>1. formPc = "secondSend" /\ FormStep("secondAuth", "claims") /\ UNCHANGED demanded
    BY <1>4, FormSteps DEF Form!FormSecondAuth
  <2>2. Form!TypeOK' /\ JarInv' /\ WipeInv' /\ formPc' \in {"claims", "done"}
        /\ sent'.step = "secondAuth"
    BY <1>0, <2>1, FormStepInv DEF FormLabels
  <2>3. formPc' = "claims" => "secondAuth" \in accepted'
    BY <2>1 DEF FormStep, Ends
  <2>4. OrderInv'
    BY <2>1, <2>2, <2>3 DEF FormInv, OrderInv, ClaimSteps
  <2> QED BY <2>2, <2>4 DEF FormInv
<1>5. CASE Form!FormClaims
  <2>1. formPc = "claims" /\ FormStep("claims", "grant") /\ UNCHANGED demanded
    BY <1>5, FormSteps DEF Form!FormClaims
  <2>2. Form!TypeOK' /\ JarInv' /\ WipeInv' /\ formPc' \in {"grant", "done"}
        /\ sent'.step = "claims"
    BY <1>0, <2>1, FormStepInv DEF FormLabels
  <2>3. accepted \subseteq accepted'
    BY <2>1 DEF FormStep
  <2>4. OrderInv'
    BY <2>1, <2>2, <2>3 DEF FormInv, OrderInv, ClaimSteps
  <2> QED BY <2>2, <2>4 DEF FormInv
<1>6. CASE Form!FactorCallback
  <2>1. /\ formPc = "factor"
        /\ UNCHANGED <<flow, factor, demanded, accepted, jar, given, base, sent>>
    BY <1>6 DEF Form!FactorCallback, Form!formVars
  <2>2. CASE /\ Form!GoTo("secondAuth") /\ UNCHANGED deferred
             /\ live' = live \cup {"code"} \cup (IF flow = "pkce" THEN {"factor"} ELSE {})
    <3>1. /\ live' \subseteq live \cup {"code", "factor"} /\ deferred' \subseteq live'
          /\ formPc' = "secondAuth" /\ UNCHANGED <<formErr, public, deferred>>
      BY <2>2 DEF FormInv, Form!TypeOK, Form!GoTo
    <3>2. Form!TypeOK'
      BY <2>1, <3>1 DEF FormInv, Form!TypeOK, Form!Wiped, Form!Unwiped
    <3>3. JarInv' /\ OrderInv'
      BY <2>1, <3>1 DEF FormInv, JarInv, OrderInv, ClaimSteps
    <3>4. WipeInv'
      BY <2>1, <3>1 DEF FormInv, WipeInv, Form!Unwiped
    <3> QED BY <3>2, <3>3, <3>4 DEF FormInv
  <2>3. CASE Form!Return(Form!RequestError(0, "factor callback"), {})
    <3>1. Form!RequestError(0, "factor callback") \in Form!Errors
      BY DEF Form!RequestError, Form!Errors, Form!Statuses, Form!NoAnswer, Form!Causes
    <3>2. Ends
      <4>1. formPc # "secondAuth" /\ {} \subseteq Form!Unwiped
        BY <2>1
      <4>2. PICK e \in Form!Errors, read \in {{}} : Form!Return(e, read)
        BY <2>3, <3>1
      <4>3. read \subseteq Form!Unwiped
        BY <4>1, <4>2
      <4> QED BY <4>1, <4>2, <4>3, ReturnMoves
    <3> QED BY <2>1, <3>2 DEF Ends, FormInv, Form!TypeOK, JarInv, OrderInv, ClaimSteps, WipeInv
  <2> QED BY <1>6, <2>2, <2>3 DEF Form!FactorCallback
<1>7. CASE Form!FillSecond
  <2>1. /\ formPc = "secondAuth" /\ live' = live \ {"code"} /\ UNCHANGED base
        /\ formPc' = "secondSend"
        /\ UNCHANGED <<formErr, public, flow, factor, demanded, accepted, jar, given, sent, deferred>>
    BY <1>7 DEF Form!FillSecond, Form!SecondForm, Form!GoTo
  <2>2. live' \subseteq deferred' \cup Form!Unwiped /\ deferred' \subseteq live'
    BY <2>1 DEF FormInv, WipeInv, Form!TypeOK
  <2> QED BY <2>1, <2>2 DEF FormInv, Form!TypeOK, JarInv, OrderInv, ClaimSteps, WipeInv
<1>8. CASE Form!Grant
  <2>1. PICK a \in Form!Answers({"good", "short"}) :
          /\ Form!Accept("grant", a)
          /\ \/ /\ Form!GoTo("exchange")
                /\ live' = live \cup Form!GrantBuffers(a) \cup {"rsts"}
                /\ deferred' = deferred \cup {"rsts"}
             \/ Form!Return(Form!postRSTSGrant(a), Form!GrantBuffers(a))
    BY <1>8 DEF Form!Grant
  <2>2. /\ formPc = "grant" /\ UNCHANGED <<flow, factor, demanded, jar, given, base>>
        /\ sent'.step = "grant" /\ accepted' \in {accepted, accepted \cup {"grant"}}
    BY <1>8, <2>1 DEF Form!Grant, Form!Request, Form!formVars, Form!Accept
  <2>3. \/ /\ formPc' = "exchange" /\ UNCHANGED <<formErr, public>>
           /\ deferred' = deferred \cup {"rsts"} /\ deferred' \subseteq live'
           /\ live' \subseteq live \cup Form!Unwiped \cup {"rsts"}
        \/ Ends
    <3>1. Form!postRSTSGrant(a) \in Form!Errors /\ Form!GrantBuffers(a) \subseteq Form!Unwiped
      BY AnyAnswer, BrokerErrors, ReadBuffers
    <3>2. deferred \subseteq live
      BY DEF FormInv, Form!TypeOK
    <3> QED BY <2>1, <2>2, <3>1, <3>2, ReturnMoves DEF Form!GoTo
  <2>4. Form!TypeOK'
    BY <2>2, <2>3 DEF FormInv, Form!TypeOK, Ends, Form!Wiped
  <2>5. JarInv' /\ WipeInv'
    BY <2>2, <2>3 DEF FormInv, JarInv, WipeInv, Ends
  <2>6. OrderInv'
    BY <2>2, <2>3 DEF FormInv, OrderInv, ClaimSteps, Ends
  <2> QED BY <2>4, <2>5, <2>6 DEF FormInv
<1>9. CASE Form!Exchange
  <2>1. PICK a \in Form!Answers({"good", "short", "refused"}) :
          /\ Form!Accept("exchange", a)
          /\ \/ /\ Form!GoTo("session")
                /\ live' = (live \ {"rsts", "verifier"}) \cup Form!ExchangeBuffers(a) \cup {"token"}
                /\ deferred' = (deferred \ {"rsts", "verifier"}) \cup {"token"}
             \/ Form!Return(Form!exchangeRSTSToken(a), Form!ExchangeBuffers(a))
    BY <1>9 DEF Form!Exchange
  <2>2. /\ formPc = "exchange" /\ UNCHANGED <<flow, factor, demanded, jar, given, base>>
        /\ sent'.step = "exchange" /\ accepted' \in {accepted, accepted \cup {"exchange"}}
    BY <1>9, <2>1 DEF Form!Exchange, Form!Request, Form!formVars, Form!Accept
  <2>3. \/ /\ formPc' = "session" /\ UNCHANGED <<formErr, public>>
           /\ deferred' = (deferred \ {"rsts", "verifier"}) \cup {"token"}
           /\ deferred' \subseteq live'
           /\ live' \subseteq (live \ {"rsts", "verifier"}) \cup Form!Unwiped \cup {"token"}
        \/ Ends
    <3>1. Form!ExchangeBuffers(a) \subseteq Form!Unwiped
      BY ReadBuffers
    <3>2. deferred \subseteq live
      BY DEF FormInv, Form!TypeOK
    <3>3. CASE Form!Return(Form!exchangeRSTSToken(a), Form!ExchangeBuffers(a))
      BY <2>2, <3>1, <3>3, BrokerErrors, ReturnMoves
    <3>4. CASE /\ Form!GoTo("session")
               /\ live' = (live \ {"rsts", "verifier"}) \cup Form!ExchangeBuffers(a) \cup {"token"}
               /\ deferred' = (deferred \ {"rsts", "verifier"}) \cup {"token"}
      BY <3>1, <3>2, <3>4 DEF Form!GoTo
    <3> QED BY <2>1, <3>3, <3>4
  <2>4. Form!TypeOK'
    BY <2>2, <2>3 DEF FormInv, Form!TypeOK, Ends, Form!Wiped
  <2>5. JarInv'
    BY <2>2 DEF FormInv, JarInv
  <2>6. WipeInv'
    <3>1. live \subseteq deferred \cup Form!Unwiped /\ "code" \notin deferred
      BY <2>2 DEF FormInv, WipeInv
    <3> QED BY <2>3, <3>1 DEF WipeInv, Ends
  <2>7. OrderInv'
    BY <2>2, <2>3 DEF FormInv, OrderInv, ClaimSteps, Ends
  <2> QED BY <2>4, <2>5, <2>6, <2>7 DEF FormInv
<1>10. CASE Form!NewSession
  <2>1. /\ formPc = "session"
        /\ UNCHANGED <<flow, factor, demanded, accepted, jar, given, base, sent>>
    BY <1>10 DEF Form!NewSession, Form!formVars
  <2>2. Ends
    <3>1. Form!NoError \in Form!Errors
      BY DEF Form!NoError, Form!PlainError, Form!Errors, Form!Statuses, Form!NoAnswer, Form!Causes
    <3> QED BY <1>10, <2>1, <3>1, ReturnMoves DEF Form!NewSession
  <2> QED BY <2>1, <2>2 DEF Ends, FormInv, Form!TypeOK, JarInv, OrderInv, ClaimSteps, WipeInv
<1> QED
  BY <1>1, <1>2, <1>3, <1>4, <1>5, <1>6, <1>7, <1>8, <1>9, <1>10 DEF Form!Next

(* The other ways leave the form alone. *)
LEMMA FormStays == FormInv /\ UNCHANGED formVars => FormInv'
BY DEF formVars, FormInv, Form!TypeOK, JarInv, OrderInv, WipeInv

LEMMA FormMoves == [Next]_vars => Form!Next \/ UNCHANGED formVars
BY DEF Next, vars, ElseForm, ElseDevice, ElseBrowser, ElseLookup

LEMMA StepsCarry ==
  FormInv /\ [Next]_vars =>
    /\ sent' # sent /\ sent'.step \notin {"grant", "exchange"} => sent'.cookies = given
    /\ sent' # sent /\ "factor" \in sent'.fields =>
         sent'.step = "secondAuth" /\ sent.step # "secondAuth"
<1> SUFFICES ASSUME FormInv, Form!Next, sent' # sent
             PROVE  /\ sent'.step \notin {"grant", "exchange"} => sent'.cookies = given
                    /\ "factor" \in sent'.fields =>
                         sent'.step = "secondAuth" /\ sent.step # "secondAuth"
  BY FormMoves DEF formVars
<1>1. CASE Form!FormInit \/ Form!FormPrimary \/ Form!FormSecondInit \/ Form!FormClaims
  <2>1. PICK step, label :
          step \in {"init", "primary", "secondInit", "claims"} /\ FormStep(step, label)
    BY <1>1, FormSteps
  <2> QED BY <2>1 DEF FormStep
<1>2. CASE Form!FormSecondAuth
  <2>1. FormStep("secondAuth", "claims") /\ formPc = "secondSend"
    BY <1>2, FormSteps DEF Form!FormSecondAuth
  <2>2. sent.step # "secondAuth"
    BY <2>1 DEF FormInv, OrderInv
  <2>3. sent'.step = "secondAuth" /\ sent'.cookies = given
    BY <2>1 DEF FormStep
  <2> QED BY <2>2, <2>3
<1>3. CASE Form!FactorCallback \/ Form!FillSecond \/ Form!NewSession
  BY <1>3 DEF Form!FactorCallback, Form!FillSecond, Form!NewSession
<1>4. CASE Form!Grant \/ Form!Exchange
  BY <1>4 DEF Form!Grant, Form!Exchange, Form!Request
<1> QED BY <1>1, <1>2, <1>3, <1>4 DEF Form!Next

-----------------------------------------------------------------------------
(***************************************************************************)
(* BrowserLogin: the code that is redeemed, and the listener.              *)
(***************************************************************************)
NoCode == Browser!NoCode
AtMostOne(S) == {<<>>} \cup {<<x>> : x \in S}
BrowserLabels == {"listen", "open", "wait", "redeem", "exchange", "close", "done"}

(* Every variable stays in its range. *)
BrowserTypes ==
  /\ browserPc \in BrowserLabels
  /\ serving \in {"off", "bound", "on", "failed", "closing", "ended"}
  /\ requests \in Seq(Codes \cup {NoCode}) /\ handlers \subseteq 1 .. Len(requests)
  /\ codeCh \in AtMostOne(Codes) /\ errCh \in AtMostOne(Browser!Errors)
  /\ kept \in Codes \cup {NoCode} /\ redeemed \in AtMostOne(Codes)
  /\ browserCtx \in {"live", "ended"} /\ browserErr \in Browser!Errors

(* Until a code is redeemed, codeCh holds the first one it took.           *)
CodeInv ==
  /\ redeemed = <<>> => codeCh = IF kept = NoCode THEN <<>> ELSE <<kept>>
  /\ redeemed # <<>> => redeemed = <<kept>> /\ kept # NoCode
  /\ browserPc \in {"listen", "open", "wait"} => redeemed = <<>>

(* The listener opens in Listen alone, and is closed before the return,    *)
(* whether or not the goroutine was in Serve by then.                      *)
ServeInv ==
  /\ browserPc = "listen" => serving = "off"
  /\ browserPc = "done" => serving \in {"off", "closing", "ended"}

BrowserInv == BrowserTypes /\ CodeInv /\ ServeInv

LEMMA BrowserErrors ==
  /\ \A cause \in Browser!Causes : Browser!PlainError(cause) \in Browser!Errors
  /\ Browser!NoError \in Browser!Errors
  /\ \A a \in Browser!Answers({"good", "short", "refused"}) :
       /\ Browser!postRSTSGrant(a) \in Browser!Errors
       /\ Browser!exchangeRSTSToken(a) \in Browser!Errors
BY DEF Browser!Answers, Browser!Statuses, Browser!NoAnswer, Browser!PostError,
   Browser!postRSTSGrant, Browser!exchangeRSTSToken, Browser!Errors, Browser!RequestError,
   Browser!NoError, Browser!PlainError, Browser!Causes

LEMMA InitBrowser == Init => BrowserInv
BY BrowserErrors DEF Init, Browser!Init, BrowserInv, BrowserTypes, BrowserLabels, AtMostOne,
   CodeInv, ServeInv, NoCode

(* A send to a channel with a buffer of one leaves at most one value.      *)
LEMMA TrySendHolds ==
  ASSUME NEW S, NEW ch \in AtMostOne(S), NEW value \in S
  PROVE  Browser!TrySend(ch, value) \in AtMostOne(S)
BY DEF Browser!TrySend, AtMostOne

LEMMA HandleKeeps ==
  ASSUME BrowserInv, NEW r, Browser!handle(r)
  PROVE  BrowserInv'
<1>1. /\ r \in 1 .. Len(requests) /\ requests[r] \in Codes \cup {NoCode}
      /\ UNCHANGED <<browserPc, serving, requests, redeemed, browserCtx, browserErr>>
      /\ handlers' \subseteq handlers
  <2>1. handlers \subseteq 1 .. Len(requests) /\ requests \in Seq(Codes \cup {NoCode})
    BY DEF BrowserInv, BrowserTypes
  <2>2. r \in 1 .. Len(requests)
    BY <2>1 DEF Browser!handle
  <2>3. requests[r] \in Codes \cup {NoCode}
    BY <2>1, <2>2
  <2>4. UNCHANGED <<browserPc, serving, requests, redeemed, browserCtx, browserErr>>
    BY DEF Browser!handle
  <2>5. handlers' \subseteq handlers
    BY DEF Browser!handle
  <2> QED BY <2>2, <2>3, <2>4, <2>5
<1>2. Browser!PlainError("no code") \in Browser!Errors
  BY BrowserErrors DEF Browser!Causes
<1>3. codeCh' \in AtMostOne(Codes) /\ errCh' \in AtMostOne(Browser!Errors)
  BY <1>1, <1>2, TrySendHolds DEF BrowserInv, BrowserTypes, Browser!handle, NoCode
<1>4. BrowserTypes'
  BY <1>1, <1>3 DEF BrowserInv, BrowserTypes, Browser!handle
<1>5. CodeInv'
  <2>1. CodeInv /\ kept' = IF kept = NoCode THEN requests[r] ELSE kept
    BY DEF BrowserInv, Browser!handle, NoCode
  <2>2. codeCh' = IF requests[r] # NoCode /\ codeCh = <<>> THEN <<requests[r]>> ELSE codeCh
    BY DEF Browser!handle, Browser!TrySend, NoCode
  <2>3. redeemed = <<>> => codeCh' = IF kept' = NoCode THEN <<>> ELSE <<kept'>>
    BY <2>1, <2>2 DEF CodeInv
  <2> QED BY <1>1, <2>1, <2>3 DEF CodeInv
<1>6. ServeInv'
  BY <1>1 DEF BrowserInv, ServeInv
<1> QED BY <1>4, <1>5, <1>6 DEF BrowserInv

LEMMA NextBrowser == BrowserInv /\ Browser!Next => BrowserInv'
<1> SUFFICES ASSUME BrowserInv, Browser!Next PROVE BrowserInv'
  OBVIOUS
<1>1. CASE Browser!Listen
  <2>1. Browser!PlainError("listener") \in Browser!Errors
    BY BrowserErrors DEF Browser!Causes
  <2> QED BY <1>1, <2>1 DEF Browser!Listen, Browser!Proceed, Browser!Fail, Browser!chans,
       BrowserInv, BrowserTypes, BrowserLabels, CodeInv, ServeInv
<1>2. CASE Browser!Open
  <2>1. Browser!PlainError("opener") \in Browser!Errors
    BY BrowserErrors DEF Browser!Causes
  <2> QED BY <1>2, <2>1 DEF Browser!Open, Browser!Proceed, Browser!Fail, Browser!chans,
       Browser!httpVars, BrowserInv, BrowserTypes, BrowserLabels, CodeInv, ServeInv
<1>3. CASE Browser!WaitCode
  <2>1. codeCh = <<kept>> /\ kept \in Codes /\ redeemed = <<>>
    BY <1>3 DEF Browser!WaitCode, BrowserInv, BrowserTypes, CodeInv, AtMostOne, NoCode
  <2>2. redeemed' = <<kept>> /\ UNCHANGED kept /\ codeCh' = <<>>
    BY <1>3, <2>1 DEF Browser!WaitCode
  <2>3. kept # NoCode
    BY <2>1, <1>3 DEF Browser!WaitCode, BrowserInv, CodeInv
  <2>4. /\ browserPc' = "redeem"
        /\ UNCHANGED <<serving, requests, handlers, errCh, browserCtx, browserErr>>
    BY <1>3 DEF Browser!WaitCode, Browser!Proceed, Browser!httpVars
  <2>5. BrowserTypes'
    BY <2>1, <2>2, <2>4 DEF BrowserInv, BrowserTypes, BrowserLabels, AtMostOne
  <2>6. CodeInv' /\ ServeInv'
    BY <2>2, <2>3, <2>4 DEF CodeInv, ServeInv
  <2> QED BY <2>5, <2>6 DEF BrowserInv
<1>4. CASE Browser!WaitError
  <2>1. Head(errCh) \in Browser!Errors
    BY <1>4 DEF Browser!WaitError, BrowserInv, BrowserTypes, AtMostOne
  <2> QED BY <1>4, <2>1 DEF Browser!WaitError, Browser!Fail, Browser!httpVars,
       BrowserInv, BrowserTypes, BrowserLabels, AtMostOne, CodeInv, ServeInv
<1>5. CASE Browser!WaitContext
  <2>1. Browser!PlainError("canceled") \in Browser!Errors
    BY BrowserErrors DEF Browser!Causes
  <2> QED BY <1>5, <2>1 DEF Browser!WaitContext, Browser!Fail, Browser!chans,
       Browser!httpVars, BrowserInv, BrowserTypes, BrowserLabels, CodeInv, ServeInv
<1>6. CASE Browser!Redeem
  <2>1. \A a \in Browser!Answers({"good", "short"}) : Browser!postRSTSGrant(a) \in Browser!Errors
    BY BrowserErrors DEF Browser!Answers
  <2> QED BY <1>6, <2>1 DEF Browser!Redeem, Browser!Proceed, Browser!Fail, Browser!chans,
       Browser!httpVars, BrowserInv, BrowserTypes, BrowserLabels, CodeInv, ServeInv
<1>7. CASE Browser!Exchange
  BY <1>7, BrowserErrors DEF Browser!Exchange, Browser!Fail, Browser!chans,
     Browser!httpVars, BrowserInv, BrowserTypes, BrowserLabels, CodeInv, ServeInv
<1>8. CASE Browser!Close
  BY <1>8 DEF Browser!Close, Browser!Proceed, Browser!chans, BrowserInv, BrowserTypes,
     BrowserLabels, CodeInv, ServeInv
<1>9. CASE Browser!Arrive
  <2>1. PICK code \in Codes \cup {NoCode} : requests' = Append(requests, code)
    BY <1>9 DEF Browser!Arrive, NoCode
  <2>2. requests' \in Seq(Codes \cup {NoCode}) /\ Len(requests') = Len(requests) + 1
    BY <2>1 DEF BrowserInv, BrowserTypes
  <2>3. handlers' \subseteq 1 .. Len(requests')
    <3>1. handlers \subseteq 1 .. Len(requests) /\ Len(requests) \in Nat
      BY DEF BrowserInv, BrowserTypes
    <3>2. handlers' = handlers \cup {Len(requests) + 1}
      BY <1>9 DEF Browser!Arrive
    <3>3. \A h \in handlers' : h \in 1 .. Len(requests) + 1
      BY <3>1, <3>2
    <3> QED BY <2>2, <3>3
  <2>4. UNCHANGED <<browserPc, serving, codeCh, errCh, kept, redeemed, browserCtx, browserErr>>
    BY <1>9 DEF Browser!Arrive, Browser!chans
  <2>5. BrowserTypes'
    BY <2>2, <2>3, <2>4 DEF BrowserInv, BrowserTypes
  <2> QED BY <2>4, <2>5 DEF BrowserInv, CodeInv, ServeInv
<1>10. CASE Browser!ServeFails
  <2>1. errCh' \in AtMostOne(Browser!Errors)
    BY <1>10, BrowserErrors, TrySendHolds
       DEF Browser!Causes, Browser!ServeFails, BrowserInv, BrowserTypes
  <2> QED BY <1>10, <2>1 DEF Browser!ServeFails, BrowserInv, BrowserTypes, CodeInv, ServeInv
<1>11. CASE Browser!EndContext
  BY <1>11 DEF Browser!EndContext, Browser!chans, Browser!httpVars, BrowserInv, BrowserTypes,
     CodeInv, ServeInv
<1>12. CASE \E r \in 1 .. MaxRequests : Browser!handle(r)
  BY <1>12, HandleKeeps
<1>13. CASE Browser!ServeStarts
  BY <1>13 DEF Browser!ServeStarts, Browser!chans, BrowserInv, BrowserTypes, CodeInv, ServeInv
<1> QED
  BY <1>1, <1>2, <1>3, <1>4, <1>5, <1>6, <1>7, <1>8, <1>9, <1>10, <1>11, <1>12, <1>13
  DEF Browser!Next, Browser!ConnectStep

LEMMA BrowserStays == BrowserInv /\ UNCHANGED browserVars => BrowserInv'
BY DEF browserVars, BrowserInv, BrowserTypes, CodeInv, ServeInv

LEMMA BrowserMoves == [Next]_vars => Browser!Next \/ UNCHANGED browserVars
BY DEF Next, vars, ElseForm, ElseDevice, ElseBrowser, ElseLookup

(* What the invariant gives: the module's own type invariant, and its two  *)
(* safety properties.                                                      *)
LEMMA BrowserShows ==
  BrowserInv => Browser!TypeOK /\ Browser!FirstCodeRedeemed /\ Browser!ListenerClosed
<1> SUFFICES ASSUME BrowserInv
             PROVE  Browser!TypeOK /\ Browser!FirstCodeRedeemed /\ Browser!ListenerClosed
  OBVIOUS
<1>1. \A S : \A ch \in AtMostOne(S) : Browser!Range(ch) \subseteq S /\ Len(ch) <= 1
  <2> SUFFICES ASSUME NEW S, NEW ch \in AtMostOne(S)
               PROVE  Browser!Range(ch) \subseteq S /\ Len(ch) <= 1
    OBVIOUS
  <2>1. CASE ch = <<>>
    BY <2>1 DEF Browser!Range
  <2>2. CASE \E x \in S : ch = <<x>>
    BY <2>2 DEF Browser!Range
  <2> QED BY <2>1, <2>2 DEF AtMostOne
<1>2. DOMAIN requests = 1 .. Len(requests) /\ Browser!Range(requests) \subseteq Codes \cup {NoCode}
  BY DEF BrowserInv, BrowserTypes, Browser!Range
<1>3. Browser!TypeOK
  BY <1>1, <1>2 DEF BrowserInv, BrowserTypes, BrowserLabels, Browser!TypeOK, NoCode
<1>4. redeemed = <<>> \/ redeemed = <<kept>>
  BY DEF BrowserInv, CodeInv
<1>5. Len(redeemed) <= 1 /\ \A k \in DOMAIN redeemed : redeemed[k] = kept
  <2>1. CASE redeemed = <<>>
    BY <2>1
  <2>2. CASE redeemed = <<kept>>
    <3>1. Len(redeemed) = 1 /\ DOMAIN redeemed = {1} /\ redeemed[1] = kept
      BY <2>2
    <3> QED BY <3>1
  <2> QED BY <1>4, <2>1, <2>2
<1> QED BY <1>3, <1>5 DEF BrowserInv, ServeInv, Browser!FirstCodeRedeemed, Browser!ListenerClosed

-----------------------------------------------------------------------------
(***************************************************************************)
(* DeviceCode: polls, their distance and the deadline.                     *)
(***************************************************************************)
Expired == Device!RequestError(0, "expired")
Mishaps == Device!Errors \ {Expired}
DeviceLabels == {"start", "prompt", "check", "wait", "poll", "exchange", "done"}

(* Every variable stays in its range. *)
DeviceTypes ==
  /\ now \in Nat /\ since \in Nat /\ 1 <= since /\ since <= now
  /\ devicePc \in DeviceLabels
  /\ pace \in Nat \ {0} /\ interval \in Nat /\ slows \in 0 .. MaxSlow
  /\ lifetime \in Nat \ {0} /\ deadline \in Nat /\ latePolls \in Nat /\ answered \in Nat
  /\ user \in {"waiting", "approved", "denied"} /\ decided \in Nat /\ decided <= now
  /\ deviceCtx \in {"live", "ended"}
  /\ deviceErr \in Device!Errors

PaceInv == interval = pace + slows * Increment

(* When the present step began, and how far the clock may have gone.       *)
StartInv ==
  /\ devicePc = "start" => /\ since = 1 /\ now <= 1 + MaxCall
                           /\ slows = 0 /\ answered = 0
  /\ devicePc = "prompt" => since <= 1 + MaxCall /\ now <= since + MaxPrompt
  /\ devicePc \in {"start", "prompt"} => deadline = 0 /\ latePolls = 0
  /\ deadline # 0 => 1 <= deadline /\ deadline <= 1 + MaxCall + MaxPrompt + lifetime

(* A wait begins before the deadline and lasts an interval at most; a poll *)
(* lasts a call, and one that came too late is the last.                   *)
PhaseInv ==
  /\ answered <= since
  /\ devicePc = "check" => now = since /\ (answered = now \/ now < deadline)
  /\ devicePc = "wait" => now <= since + interval /\ since < deadline /\ latePolls = 0
  /\ devicePc = "poll" => since < deadline + interval /\ now <= since + MaxCall
  /\ latePolls # 0 => latePolls = 1 /\ deadline <= now

(* The login expires in the check that follows an answer.                  *)
ExpiryInv ==
  /\ devicePc # "done" => deviceErr = Device!NoError
  /\ deviceErr = Expired => deadline <= answered

(* The user is known to a check to have decided during the call before it, *)
(* if at all, or else the deadline is still to come.                       *)
Unseen(time) == decided = 0 \/ time <= decided + MaxCall

DecisionInv ==
  /\ devicePc = "check" => now < deadline \/ Unseen(now)
  /\ deviceErr = Expired => Unseen(deadline)

DeviceInv == DeviceTypes /\ PaceInv /\ StartInv /\ PhaseInv /\ ExpiryInv /\ DecisionInv

LEMMA Parameters ==
  /\ Intervals \subseteq Nat /\ Lifetimes \subseteq Nat
  /\ Default \in Nat \ {0} /\ DefaultLifetime \in Nat \ {0}
  /\ Increment \in Nat \ {0}
  /\ MaxCall \in Nat /\ MaxPrompt \in Nat /\ MaxSlow \in Nat
BY LoginAssumption DEF Device!Assumptions

(* One slow_down adds one Increment to the interval.                       *)
LEMMA SlowerByOne ==
  /\ 0 * Increment = 0
  /\ \A s \in Nat : s * Increment \in Nat /\ (s + 1) * Increment = s * Increment + Increment
BY Parameters

LEMMA SlowestPace ==
  \A s \in 0 .. MaxSlow : s * Increment <= MaxSlow * Increment
BY Parameters

LEMMA DeviceErrors ==
  /\ Device!NoError \in Mishaps
  /\ \A a \in Device!Answers({"good", "short", "refused"}) :
       Device!postRSTSGrant(a) \in Mishaps /\ Device!exchangeRSTSToken(a) \in Mishaps
  /\ Device!PlainError("prompt") \in Mishaps /\ Device!PlainError("canceled") \in Mishaps
  /\ Device!RequestError(403, "denied") \in Mishaps
  /\ Device!RequestError(403, "expired") \in Mishaps
  /\ Device!RequestError(500, "none") \in Mishaps
  /\ Device!RequestError(0, "transport") \in Mishaps
  /\ Expired \in Device!Errors
<1>1. \A status \in Device!Statuses, cause \in Device!Causes :
        /\ Device!RequestError(status, cause) \in Device!Errors
        /\ status # 0 \/ cause # "expired" => Device!RequestError(status, cause) # Expired
  BY DEF Device!RequestError, Device!Errors, Expired
<1>2. \A cause \in Device!Causes : Device!PlainError(cause) \in Mishaps
  BY DEF Device!RequestError, Device!Errors, Device!PlainError, Device!Statuses, Device!NoAnswer,
     Expired, Mishaps
<1>3. 0 \in Device!Statuses /\ 403 \in Device!Statuses /\ 500 \in Device!Statuses
  BY DEF Device!Statuses, Device!NoAnswer
<1>4. /\ Device!NoError \in Mishaps
      /\ Device!PlainError("prompt") \in Mishaps /\ Device!PlainError("canceled") \in Mishaps
  BY <1>2 DEF Device!NoError, Device!Causes
<1>5. /\ Device!RequestError(403, "denied") \in Mishaps
      /\ Device!RequestError(403, "expired") \in Mishaps
      /\ Device!RequestError(500, "none") \in Mishaps
      /\ Device!RequestError(0, "transport") \in Mishaps
  <2>1. {"denied", "expired", "none", "transport"} \subseteq Device!Causes
    BY DEF Device!Causes
  <2>2. \A status \in {403, 500}, cause \in {"denied", "expired", "none"} :
          Device!RequestError(status, cause) \in Mishaps
    BY <1>1, <1>3, <2>1 DEF Mishaps
  <2>3. Device!RequestError(0, "transport") \in Mishaps
    BY <1>1, <1>3, <2>1 DEF Mishaps
  <2> QED BY <2>2, <2>3
<1>7. Expired \in Device!Errors
  BY <1>1, <1>3 DEF Device!Causes, Expired
<1>6. ASSUME NEW a \in Device!Answers({"good", "short", "refused"})
      PROVE  Device!postRSTSGrant(a) \in Mishaps /\ Device!exchangeRSTSToken(a) \in Mishaps
  <2>1. a.status \in Device!Statuses
    BY DEF Device!Answers, Device!Statuses, Device!NoAnswer
  <2>2. \A cause \in {"none", "transport", "missing token", "not successful"} :
          Device!RequestError(a.status, cause) \in Mishaps
    BY <1>1, <2>1 DEF Device!Causes, Mishaps
  <2>3. Device!PostError(a) \in Mishaps
    BY <1>4, <1>5, <2>2 DEF Device!PostError
  <2>4. Device!postRSTSGrant(a) \in Mishaps
    BY <1>4, <2>2, <2>3 DEF Device!postRSTSGrant
  <2> QED BY <2>2, <2>4 DEF Device!exchangeRSTSToken
<1> QED BY <1>4, <1>5, <1>6, <1>7

LEMMA InitDevice == Init => DeviceInv
<1> SUFFICES ASSUME Init PROVE DeviceInv
  OBVIOUS
<1>1. Device!Init /\ Device!NoError \in Mishaps
  BY DeviceErrors DEF Init
<1>2. DeviceTypes
  BY <1>1, Parameters DEF Device!Init, Device!First, Device!NoTime, DeviceTypes, DeviceLabels,
     Mishaps
<1>3. PaceInv
  BY <1>1, Parameters, SlowerByOne DEF Device!Init, PaceInv
<1>4. StartInv /\ PhaseInv
  BY <1>1, Parameters DEF Device!Init, Device!First, Device!NoTime, StartInv, PhaseInv
<1>5. ExpiryInv
  BY <1>1 DEF Device!Init, ExpiryInv, Mishaps
<1>6. DecisionInv
  BY <1>1 DEF Device!Init, Device!NoTime, DecisionInv, Unseen
<1> QED BY <1>2, <1>3, <1>4, <1>5, <1>6 DEF DeviceInv

(* The four answers of a poll.                                             *)
LEMMA PollMoves ==
  ASSUME Device!PollToken \/ Device!PollPending \/ Device!PollSlowDown \/ Device!PollFails
  PROVE  /\ devicePc = "poll" /\ answered' = now /\ since' = now
         /\ UNCHANGED <<now, pace, lifetime, deadline, latePolls, user, decided, deviceCtx>>
         /\ devicePc' = "check" => decided = 0 \/ since <= decided
         /\ \/ UNCHANGED <<interval, slows>>
            \/ slows < MaxSlow /\ interval' = interval + Increment /\ slows' = slows + 1
         /\ \/ devicePc' \in {"check", "exchange"} /\ UNCHANGED deviceErr
            \/ devicePc' = "done" /\ deviceErr' \in Mishaps
<1>1. CASE Device!PollToken
  <2>1. \A a \in Device!Answers({"good", "short"}) : Device!postRSTSGrant(a) \in Mishaps
    BY DeviceErrors DEF Device!Answers
  <2> QED BY <1>1, <2>1 DEF Device!PollToken, Device!Answered, Device!Begin, Device!Return,
       Device!userVars
<1>2. CASE Device!PollPending
  BY <1>2 DEF Device!PollPending, Device!Answered, Device!Begin, Device!userVars,
     Device!Undecided, Device!NoTime
<1>3. CASE Device!PollSlowDown
  BY <1>3 DEF Device!PollSlowDown, Device!Answered, Device!Begin, Device!userVars,
     Device!Undecided, Device!NoTime
<1>4. CASE Device!PollFails
  BY <1>4, DeviceErrors DEF Device!PollFails, Device!Answered, Device!Return, Device!userVars
<1> QED BY <1>1, <1>2, <1>3, <1>4

LEMMA PollKeeps ==
  ASSUME DeviceInv,
         Device!PollToken \/ Device!PollPending \/ Device!PollSlowDown \/ Device!PollFails
  PROVE  DeviceInv'
<1>1. DeviceTypes' /\ PaceInv'
  <2>1. CASE UNCHANGED <<interval, slows>>
    <3>1. DeviceTypes'
      BY <2>1, PollMoves DEF DeviceInv, DeviceTypes, DeviceLabels, Mishaps
    <3>2. PaceInv'
      BY <2>1, PollMoves DEF DeviceInv, PaceInv
    <3> QED BY <3>1, <3>2
  <2>2. CASE slows < MaxSlow /\ interval' = interval + Increment /\ slows' = slows + 1
    <3>1. slows \in Nat /\ slows + 1 \in 0 .. MaxSlow /\ interval + Increment \in Nat
      BY <2>2, Parameters DEF DeviceInv, DeviceTypes
    <3>2. DeviceTypes'
      BY <2>2, <3>1, PollMoves DEF DeviceInv, DeviceTypes, DeviceLabels, Mishaps
    <3>3. (slows + 1) * Increment = slows * Increment + Increment /\ slows * Increment \in Nat
      BY <3>1, SlowerByOne
    <3>4. interval = pace + slows * Increment /\ pace \in Nat
      BY DEF DeviceInv, DeviceTypes, PaceInv
    <3>5. pace' = pace
      BY PollMoves
    <3> DEFINE before == slows * Increment
               after  == (slows + 1) * Increment
    <3>6. after = before + Increment /\ before \in Nat /\ interval = pace + before
      BY <3>3, <3>4
    <3> HIDE DEF before, after
    <3>7. interval + Increment = pace + after
      BY <3>4, <3>6, Parameters
    <3>8. interval' = pace' + slows' * Increment
      BY <2>2, <3>5, <3>7 DEF after
    <3> QED BY <3>2, <3>8 DEF PaceInv
  <2> QED BY <2>1, <2>2, PollMoves
<1>2. StartInv'
  BY PollMoves, Parameters DEF DeviceInv, DeviceTypes, StartInv
<1>3. PhaseInv'
  BY PollMoves, Parameters DEF DeviceInv, DeviceTypes, PhaseInv
<1>4. ExpiryInv'
  <2>1. deviceErr = Device!NoError
    BY PollMoves DEF DeviceInv, ExpiryInv
  <2>2. devicePc' # "done" => deviceErr' = Device!NoError
    BY <2>1, PollMoves
  <2>3. deviceErr' # Expired
    BY <2>1, PollMoves, DeviceErrors DEF Mishaps
  <2> QED BY <2>2, <2>3 DEF ExpiryInv
<1>5. DecisionInv'
  <2>1. ASSUME devicePc' = "check" PROVE Unseen(now)'
    <3>1. now <= since + MaxCall /\ (decided = 0 \/ since <= decided)
      BY <2>1, PollMoves DEF DeviceInv, PhaseInv
    <3> QED BY <3>1, PollMoves, Parameters DEF DeviceInv, DeviceTypes, Unseen
  <2>2. deviceErr' # Expired
    BY PollMoves, DeviceErrors DEF DeviceInv, ExpiryInv, Mishaps
  <2> QED BY <2>1, <2>2 DEF DecisionInv
<1> QED BY <1>1, <1>2, <1>3, <1>4, <1>5 DEF DeviceInv

LEMMA NextDevice == DeviceInv /\ Device!Next => DeviceInv'
<1> SUFFICES ASSUME DeviceInv, Device!Next PROVE DeviceInv'
  OBVIOUS
<1>0. deviceErr = Device!NoError \/ devicePc = "done"
  BY DEF DeviceInv, ExpiryInv
<1>1. CASE Device!StartDeviceCode
  <2>1. /\ devicePc = "start" /\ since' = now
        /\ UNCHANGED <<now, deadline, slows, answered, latePolls, user, decided, deviceCtx>>
    BY <1>1 DEF Device!StartDeviceCode, Device!Begin, Device!Return, Device!userVars
  <2>2. slows = 0 /\ interval = pace
    BY <2>1, SlowerByOne DEF DeviceInv, DeviceTypes, StartInv, PaceInv
  <2>3. /\ interval' = pace' /\ pace' \in Nat \ {0} /\ lifetime' \in Nat \ {0}
        /\ \/ devicePc' = "prompt" /\ UNCHANGED deviceErr
           \/ devicePc' = "done" /\ deviceErr' \in Mishaps
    <3>1. CASE \E told \in Intervals, chosen \in Intervals, expires \in Lifetimes :
                 /\ interval' = Device!OrDefault(chosen, Device!OrDefault(told, Default))
                 /\ pace' = interval'
                 /\ lifetime' = Device!OrDefault(expires, DefaultLifetime)
                 /\ Device!Begin("prompt")
                 /\ UNCHANGED deviceErr
      BY <3>1, Parameters DEF Device!OrDefault, Device!Begin
    <3>2. CASE \E a \in Device!Answers({"good", "short"}) :
                 /\ Device!Return(Device!postRSTSGrant(a))
                 /\ UNCHANGED <<interval, pace, lifetime>>
      <4>1. \A a \in Device!Answers({"good", "short"}) : Device!postRSTSGrant(a) \in Mishaps
        BY DeviceErrors DEF Device!Answers
      <4>2. pace \in Nat \ {0} /\ lifetime \in Nat \ {0}
        BY DEF DeviceInv, DeviceTypes
      <4> QED BY <2>2, <3>2, <4>1, <4>2 DEF Device!Return
    <3> QED BY <1>1, <3>1, <3>2 DEF Device!StartDeviceCode
  <2>4. DeviceTypes'
    BY <2>1, <2>3 DEF DeviceInv, DeviceTypes, DeviceLabels, Mishaps
  <2>5. PaceInv'
    <3>1. slows' = 0
      BY <2>1, <2>2
    <3>4. pace' \in Nat \ {0}
      BY <2>3
    <3>2. \A p \in Nat : p = p + 0
      OBVIOUS
    <3>3. pace' = pace' + slows' * Increment
      BY <3>1, <3>2, <3>4, SlowerByOne
    <3> QED BY <2>3, <3>3 DEF PaceInv
  <2>6. StartInv' /\ PhaseInv'
    <3>1. /\ now \in Nat /\ since = 1 /\ now <= 1 + MaxCall /\ answered = 0 /\ latePolls = 0
          /\ deadline = 0 /\ now >= since
      BY <2>1 DEF DeviceInv, DeviceTypes, StartInv
    <3>2. now <= now + MaxPrompt
      BY <3>1, Parameters
    <3>3. StartInv'
      BY <2>1, <2>3, <3>1, <3>2 DEF StartInv
    <3>4. devicePc' \notin {"check", "wait", "poll"} /\ answered' = 0 /\ since' >= 0
          /\ latePolls' = 0
      BY <2>1, <2>3, <3>1
    <3>5. PhaseInv'
      BY <3>4 DEF PhaseInv
    <3> QED BY <3>3, <3>5
  <2>7. ExpiryInv'
    BY <1>0, <2>1, <2>3, DeviceErrors DEF ExpiryInv, Mishaps
  <2>8. DecisionInv'
    BY <1>0, <2>1, <2>3, DeviceErrors DEF DecisionInv, Mishaps
  <2> QED BY <2>4, <2>5, <2>6, <2>7, <2>8 DEF DeviceInv
<1>2. CASE Device!PromptReturns
  <2>1. /\ devicePc = "prompt" /\ since' = now
        /\ UNCHANGED <<now, interval, pace, lifetime, slows, answered, latePolls, user, decided,
                       deviceCtx>>
        /\ \/ devicePc' = "check" /\ deadline' = now + lifetime /\ UNCHANGED deviceErr
           \/ devicePc' = "done" /\ UNCHANGED deadline /\ deviceErr' \in Mishaps
    BY <1>2, DeviceErrors DEF Device!PromptReturns, Device!Begin, Device!Return, Device!userVars
  <2>2. DeviceTypes'
    BY <2>1 DEF DeviceInv, DeviceTypes, DeviceLabels, Mishaps
  <2>3. PaceInv'
    BY <2>1 DEF DeviceInv, PaceInv
  <2>4. StartInv' /\ PhaseInv'
    BY <2>1, Parameters DEF DeviceInv, DeviceTypes, StartInv, PhaseInv
  <2>5. ExpiryInv'
    BY <1>0, <2>1, DeviceErrors DEF ExpiryInv, Mishaps
  <2>6. DecisionInv'
    <3>1. now \in Nat /\ lifetime \in Nat \ {0}
      BY DEF DeviceInv, DeviceTypes
    <3>2. now < now + lifetime
      BY <3>1
    <3> QED BY <1>0, <2>1, <3>2, DeviceErrors DEF DecisionInv, Mishaps
  <2> QED BY <2>2, <2>3, <2>4, <2>5, <2>6 DEF DeviceInv
<1>3. CASE Device!CheckDeadline
  <2>1. /\ devicePc = "check" /\ since' = now
        /\ UNCHANGED <<now, interval, pace, lifetime, deadline, slows, answered, latePolls, user,
                       decided, deviceCtx>>
        /\ \/ devicePc' = "wait" /\ now < deadline /\ UNCHANGED deviceErr
           \/ devicePc' = "done" /\ now >= deadline /\ deviceErr' = Expired
    BY <1>3 DEF Device!CheckDeadline, Device!pollVars, Device!userVars, Device!Begin,
       Device!Return, Expired
  <2>2. DeviceTypes'
    BY <2>1, DeviceErrors DEF DeviceInv, DeviceTypes, DeviceLabels
  <2>3. PaceInv'
    BY <2>1 DEF DeviceInv, PaceInv
  <2>4. StartInv' /\ PhaseInv'
    BY <2>1, Parameters DEF DeviceInv, DeviceTypes, StartInv, PhaseInv
  <2>5. now >= deadline => deadline <= answered
    BY <2>1 DEF DeviceInv, DeviceTypes, PhaseInv
  <2>6. ExpiryInv'
    BY <1>0, <2>1, <2>5, DeviceErrors DEF ExpiryInv, Mishaps
  <2>7. DecisionInv'
    <3>1. ASSUME devicePc' = "done" PROVE Unseen(deadline)
      <4>1. deadline <= now /\ Unseen(now)
        BY <2>1, <3>1 DEF DeviceInv, DeviceTypes, DecisionInv
      <4> QED BY <4>1, Parameters DEF DeviceInv, DeviceTypes, Unseen
    <3>2. devicePc' = "wait" => deviceErr' # Expired
      BY <1>0, <2>1, DeviceErrors DEF Mishaps
    <3> QED BY <2>1, <3>1, <3>2 DEF DecisionInv, Unseen
  <2> QED BY <2>2, <2>3, <2>4, <2>6, <2>7 DEF DeviceInv
<1>4. CASE Device!Waited
  <2>1. /\ devicePc = "wait" /\ since' = now
        /\ UNCHANGED <<now, interval, pace, lifetime, deadline, slows, answered, user, decided,
                       deviceCtx>>
        /\ \/ /\ devicePc' = "poll" /\ UNCHANGED deviceErr
              /\ latePolls' = latePolls + (IF now >= deadline THEN 1 ELSE 0)
           \/ devicePc' = "done" /\ UNCHANGED latePolls /\ deviceErr' \in Mishaps
    BY <1>4, DeviceErrors DEF Device!Waited, Device!Begin, Device!Return, Device!userVars
  <2>2. latePolls = 0
    BY <2>1 DEF DeviceInv, PhaseInv
  <2>3. latePolls' = 0 \/ (latePolls' = 1 /\ now >= deadline)
    <3>1. CASE now >= deadline
      BY <2>1, <2>2, <3>1
    <3>2. CASE ~(now >= deadline)
      BY <2>1, <2>2, <3>2
    <3> QED BY <3>1, <3>2
  <2>4. DeviceTypes'
    BY <2>1, <2>3 DEF DeviceInv, DeviceTypes, DeviceLabels, Mishaps
  <2>5. PaceInv'
    BY <2>1 DEF DeviceInv, PaceInv
  <2>6. StartInv'
    BY <2>1, Parameters DEF DeviceInv, DeviceTypes, StartInv
  <2>7. PhaseInv'
    BY <2>1, <2>3, Parameters DEF DeviceInv, DeviceTypes, PhaseInv
  <2>8. ExpiryInv'
    BY <1>0, <2>1, DeviceErrors DEF ExpiryInv, Mishaps
  <2>9. DecisionInv'
    BY <1>0, <2>1, DeviceErrors DEF DecisionInv, Mishaps
  <2> QED BY <2>4, <2>5, <2>6, <2>7, <2>8, <2>9 DEF DeviceInv
<1>5. CASE Device!PollToken \/ Device!PollPending \/ Device!PollSlowDown \/ Device!PollFails
  BY <1>5, PollKeeps
<1>6. CASE Device!Exchange
  <2>1. /\ devicePc = "exchange" /\ since' = now /\ devicePc' = "done" /\ deviceErr' \in Mishaps
        /\ UNCHANGED <<now, interval, pace, lifetime, deadline, slows, answered, latePolls, user,
                       decided, deviceCtx>>
    BY <1>6, DeviceErrors DEF Device!Exchange, Device!pollVars, Device!userVars, Device!Return
  <2>2. DeviceTypes'
    BY <2>1 DEF DeviceInv, DeviceTypes, DeviceLabels, Mishaps
  <2>3. PaceInv'
    BY <2>1 DEF DeviceInv, PaceInv
  <2>4. StartInv' /\ PhaseInv'
    BY <2>1, Parameters DEF DeviceInv, DeviceTypes, StartInv, PhaseInv
  <2>5. ExpiryInv'
    BY <2>1 DEF ExpiryInv, Mishaps
  <2>6. DecisionInv'
    BY <2>1 DEF DecisionInv, Mishaps
  <2> QED BY <2>2, <2>3, <2>4, <2>5, <2>6 DEF DeviceInv
<1>7. CASE Device!Decide \/ Device!EndContext
  <2>1. /\ user' \in {"waiting", "approved", "denied"} /\ deviceCtx' \in {"live", "ended"}
        /\ decided' \in {decided, now} /\ (decided' # decided => devicePc # "done")
        /\ UNCHANGED <<now, since, devicePc, interval, pace, lifetime, deadline, slows, answered,
                       latePolls, deviceErr>>
    BY <1>7 DEF Device!Decide, Device!EndContext, Device!clockVars, Device!pollVars,
       Device!userVars, DeviceInv, DeviceTypes
  <2>2. DeviceTypes'
    BY <2>1 DEF DeviceInv, DeviceTypes
  <2>3. PaceInv' /\ StartInv' /\ PhaseInv' /\ ExpiryInv'
    BY <2>1 DEF DeviceInv, PaceInv, StartInv, PhaseInv, ExpiryInv
  <2>4. DecisionInv'
    <3>1. CASE decided' = decided
      BY <2>1, <3>1 DEF DeviceInv, DecisionInv, Unseen
    <3>2. CASE decided' = now /\ devicePc # "done"
      <4>1. deviceErr' # Expired
        BY <1>0, <2>1, <3>2, DeviceErrors DEF Mishaps
      <4>2. Unseen(now)'
        BY <2>1, <3>2, Parameters DEF DeviceInv, DeviceTypes, Unseen
      <4> QED BY <4>1, <4>2 DEF DecisionInv
    <3> QED BY <2>1, <3>1, <3>2
  <2> QED BY <2>2, <2>3, <2>4 DEF DeviceInv
<1>8. CASE Device!Tick
  <2>1. /\ now' = now + 1 /\ devicePc # "check"
        /\ devicePc = "start" => now < since + MaxCall
        /\ devicePc = "prompt" => now < since + MaxPrompt
        /\ devicePc = "wait" => now < since + interval
        /\ devicePc = "poll" => now < since + MaxCall
        /\ UNCHANGED <<since, devicePc, interval, pace, lifetime, deadline, slows, answered,
                       latePolls, user, decided, deviceCtx, deviceErr>>
    BY <1>8 DEF Device!Tick, Device!pollVars, Device!userVars
  <2>2. DeviceTypes'
    BY <2>1 DEF DeviceInv, DeviceTypes
  <2>3. StartInv' /\ PhaseInv'
    BY <2>1, Parameters DEF DeviceInv, DeviceTypes, StartInv, PhaseInv
  <2>4. PaceInv' /\ ExpiryInv'
    BY <2>1 DEF DeviceInv, PaceInv, ExpiryInv
  <2>5. DecisionInv'
    BY <2>1 DEF DeviceInv, DecisionInv, Unseen
  <2> QED BY <2>2, <2>3, <2>4, <2>5 DEF DeviceInv
<1> QED
  BY <1>1, <1>2, <1>3, <1>4, <1>5, <1>6, <1>7, <1>8 DEF Device!Next, Device!Step

LEMMA DeviceStays == DeviceInv /\ UNCHANGED deviceVars => DeviceInv'
BY DEF deviceVars, DeviceInv, DeviceTypes, PaceInv, StartInv, PhaseInv, ExpiryInv,
   DecisionInv, Unseen

LEMMA DeviceMoves == [Next]_vars => Device!Next \/ UNCHANGED deviceVars
BY DEF Next, vars, ElseForm, ElseDevice, ElseBrowser, ElseLookup

(* What the invariant gives: the module's own type invariant, and its two  *)
(* state properties.                                                       *)
LEMMA DeviceShows ==
  DeviceInv => Device!TypeOK /\ Device!OneLatePoll /\ Device!ExpiryMissesNoApproval
<1> SUFFICES ASSUME DeviceInv
             PROVE  Device!TypeOK /\ Device!OneLatePoll /\ Device!ExpiryMissesNoApproval
  OBVIOUS
<1>1. interval \in pace .. pace + MaxSlow * Increment
  <2>1. slows \in Nat /\ pace \in Nat /\ interval \in Nat /\ interval = pace + slows * Increment
    BY Parameters DEF DeviceInv, DeviceTypes, PaceInv
  <2>2. /\ slows * Increment \in Nat /\ MaxSlow * Increment \in Nat
        /\ slows * Increment <= MaxSlow * Increment
    BY <2>1, SlowerByOne, SlowestPace, Parameters DEF DeviceInv, DeviceTypes
  <2> DEFINE slower == slows * Increment
             slowest == MaxSlow * Increment
  <2>3. slower \in Nat /\ slowest \in Nat /\ slower <= slowest /\ interval = pace + slower
    BY <2>1, <2>2
  <2> HIDE DEF slower, slowest
  <2>4. pace <= interval /\ interval <= pace + slowest /\ pace + slowest \in Nat
    BY <2>1, <2>3
  <2> QED BY <2>1, <2>4 DEF slowest
<1>2. Device!TypeOK
  <2>1. /\ since \in Device!First .. now /\ answered \in 0 .. now /\ decided \in 0 .. now
        /\ deadline = Device!NoTime
           \/ deadline \in Device!First .. Device!First + MaxCall + MaxPrompt + lifetime
    BY Parameters DEF DeviceInv, DeviceTypes, StartInv, PhaseInv, Device!First, Device!NoTime
  <2> QED BY <1>1, <2>1 DEF DeviceInv, DeviceTypes, DeviceLabels, Device!TypeOK
<1>3. Device!OneLatePoll
  BY DEF DeviceInv, DeviceTypes, PhaseInv, Device!OneLatePoll
<1>4. Device!ExpiryMissesNoApproval
  BY DEF DeviceInv, ExpiryInv, DecisionInv, Unseen, Expired, Device!NoTime,
     Device!ExpiryMissesNoApproval
<1> QED BY <1>2, <1>3, <1>4

(* A poll begins an interval after the answer to the one before.           *)
LEMMA PollsKeep ==
  DeviceInv /\ [Next]_vars =>
    (devicePc = "wait" /\ devicePc' = "poll" /\ answered # Device!NoTime =>
       now >= answered + pace + slows * Increment)
<1> SUFFICES ASSUME DeviceInv, Device!Next, devicePc = "wait", devicePc' = "poll"
             PROVE  now >= answered + pace + slows * Increment
  BY DeviceMoves DEF deviceVars
<1>1. Device!Waited
  BY DEF Device!Next, Device!Step, Device!StartDeviceCode, Device!PromptReturns,
     Device!CheckDeadline, Device!PollToken, Device!PollPending, Device!PollSlowDown,
     Device!PollFails, Device!Answered, Device!Exchange, Device!Decide, Device!EndContext,
     Device!Tick
<1>2. now >= since + interval /\ answered <= since
  BY <1>1 DEF Device!Waited, Device!Begin, Device!Return, DeviceInv, PhaseInv
<1>3. /\ now \in Nat /\ since \in Nat /\ answered \in Nat /\ pace \in Nat
      /\ slows * Increment \in Nat /\ interval = pace + slows * Increment
  BY SlowerByOne DEF DeviceInv, DeviceTypes, PaceInv
<1> DEFINE slower == slows * Increment
<1>4. slower \in Nat /\ interval = pace + slower
  BY <1>3
<1> HIDE DEF slower
<1>5. now >= answered + pace + slower
  BY <1>2, <1>3, <1>4
<1> QED BY <1>5 DEF slower

-----------------------------------------------------------------------------
(***************************************************************************)
(* Providers: the entry an identifier denotes.                             *)
(***************************************************************************)
LEMMA LeastNumber ==
  ASSUME NEW S \in SUBSET Nat, S # {}
  PROVE  \E p \in S : \A q \in S : p <= q
<1>1. IsWellFoundedOn(OpToRel(<, Nat), Nat)
  BY NatLessThanWellFounded
<1>2. PICK p \in S : \A q \in S : ~(<<q, p>> \in OpToRel(<, Nat))
  BY <1>1, WFMin
<1>3. \A q \in S : ~(q < p)
  BY <1>2 DEF OpToRel
<1> QED BY <1>3

(* What the three passes accept are entries of the list.                   *)
LEMMA Passes ==
  ASSUME providers \in Lookup!Lists, NEW id
  PROVE  /\ DOMAIN providers \subseteq Nat \ {0}
         /\ \A k \in 1 .. 3 : Lookup!MatchPredicates(id)[k] \subseteq DOMAIN providers
<1>1. PICK n \in 0 .. MaxProviders :
        providers \in [1 .. n -> [name : Lookup!Names, id : Lookup!Names]]
  BY DEF Lookup!Lists
<1>2. DOMAIN providers \subseteq Nat \ {0}
  BY <1>1
<1>3. \A k \in 1 .. 3 : k = 1 \/ k = 2 \/ k = 3
  OBVIOUS
<1> QED BY <1>2, <1>3 DEF Lookup!MatchPredicates

(* matchProvider returns an entry of the first pass that accepts one.      *)
LEMMA FirstPass ==
  ASSUME providers \in Lookup!Lists, NEW id, NEW k \in 1 .. 3,
         Lookup!MatchPredicates(id)[k] # {},
         \A j \in 1 .. 3 : j < k => Lookup!MatchPredicates(id)[j] = {}
  PROVE  Lookup!matchProvider(id) \in Lookup!MatchPredicates(id)[k]
<1> DEFINE M    == Lookup!MatchPredicates(id)
           hits == {j \in 1 .. 3 : M[j] # {}}
           pass == CHOOSE j \in hits : \A i \in hits : j <= i
<1>1. k \in hits /\ \A i \in hits : k <= i
  OBVIOUS
<1>2. pass \in hits /\ \A i \in hits : pass <= i
  BY <1>1
<1>3. pass = k
  BY <1>1, <1>2
<1>4. Lookup!matchProvider(id) = CHOOSE p \in M[pass] : \A q \in M[pass] : p <= q
  BY <1>1 DEF Lookup!matchProvider
<1>5. M[k] \in SUBSET Nat /\ M[k] # {}
  BY Passes
<1>6. \E p \in M[k] : \A q \in M[k] : p <= q
  BY <1>5, LeastNumber
<1> HIDE DEF M, hits, pass
<1>7. (CHOOSE p \in M[k] : \A q \in M[k] : p <= q) \in M[k]
  BY <1>6
<1> QED BY <1>3, <1>4, <1>7 DEF M

LEMMA MatchesFirst ==
  ASSUME providers \in Lookup!Lists, NEW id
  PROVE  LET ids   == {p \in DOMAIN providers : Lookup!EqualFold(providers[p].id, id)}
             names == {p \in DOMAIN providers : Lookup!EqualFold(providers[p].name, id)}
         IN  /\ ids # {} => Lookup!matchProvider(id) \in ids
             /\ ids = {} /\ names # {} => Lookup!matchProvider(id) \in names
<1> DEFINE ids   == {p \in DOMAIN providers : Lookup!EqualFold(providers[p].id, id)}
           names == {p \in DOMAIN providers : Lookup!EqualFold(providers[p].name, id)}
<1>1. Lookup!MatchPredicates(id)[1] = ids /\ Lookup!MatchPredicates(id)[2] = names
  BY DEF Lookup!MatchPredicates
<1> HIDE DEF ids, names
<1>2. ASSUME ids # {} PROVE Lookup!matchProvider(id) \in ids
  <2>1. \A j \in 1 .. 3 : ~(j < 1)
    OBVIOUS
  <2> QED BY <1>1, <1>2, <2>1, FirstPass
<1>3. ASSUME ids = {}, names # {} PROVE Lookup!matchProvider(id) \in names
  <2>1. \A j \in 1 .. 3 : j < 2 => j = 1
    OBVIOUS
  <2> QED BY <1>1, <1>3, <2>1, FirstPass
<1> QED BY <1>2, <1>3 DEF ids, names

(* Nothing is resolved, or both the scope and the directory are.           *)
LookInv ==
  /\ providers \in Lookup!Lists
  /\ \/ scope = <<"none", 0>> /\ directory = <<"none", 0>>
     \/ scope = Lookup!resolveScope(asked) /\ directory = Lookup!resolveProviderID(asked)

LEMMA InitLook == Init => LookInv
BY DEF Init, Lookup!Init, LookInv

LEMMA SameResult ==
  ASSUME UNCHANGED <<providers, listed, asked, default>>
  PROVE  /\ Lookup!resolveScope(asked)' = Lookup!resolveScope(asked)
         /\ Lookup!resolveProviderID(asked)' = Lookup!resolveProviderID(asked)
<1>1. Lookup!MatchPredicates(asked)' = Lookup!MatchPredicates(asked)
  BY DEF Lookup!MatchPredicates, Lookup!EqualFold, Lookup!Contains, Lookup!Lower
<1>2. Lookup!matchProvider(asked)' = Lookup!matchProvider(asked)
  BY <1>1 DEF Lookup!matchProvider
<1> QED BY <1>2 DEF Lookup!resolveScope, Lookup!resolveProviderID

LEMMA NextLook == LookInv /\ [Next]_vars => LookInv'
<1> SUFFICES ASSUME LookInv, [Next]_vars PROVE LookInv'
  OBVIOUS
<1>1. CASE UNCHANGED lookupVars
  BY <1>1, SameResult DEF lookupVars, LookInv
<1>2. CASE Lookup!Next
  <2>1. /\ scope' = Lookup!resolveScope(asked) /\ directory' = Lookup!resolveProviderID(asked)
        /\ UNCHANGED <<providers, listed, asked, default>>
    BY <1>2 DEF Lookup!Next, Lookup!Resolve
  <2> QED BY <2>1, SameResult DEF LookInv
<1> QED BY <1>1, <1>2 DEF Next, vars, ElseForm, ElseDevice, ElseBrowser, lookupVars

LEMMA LookShows == LookInv => LookupIsExact
<1> SUFFICES ASSUME LookInv PROVE LookupIsExact
  OBVIOUS
<1>1. CASE scope = <<"none", 0>> /\ directory = <<"none", 0>>
  BY <1>1 DEF LookupIsExact, Lookup!ExactWins, Lookup!BothLoginsAgree
<1>2. CASE scope = Lookup!resolveScope(asked) /\ directory = Lookup!resolveProviderID(asked)
  <2> DEFINE m     == Lookup!matchProvider(asked)
             ids   == {p \in DOMAIN providers : Lookup!EqualFold(providers[p].id, asked)}
             names == {p \in DOMAIN providers : Lookup!EqualFold(providers[p].name, asked)}
  <2>1. /\ ids # {} => m \in ids
        /\ ids = {} /\ names # {} => m \in names
    BY MatchesFirst DEF LookInv
  <2>2. 0 \notin ids /\ 0 \notin names
    BY Passes DEF LookInv
  <2>3. /\ asked = <<>> => scope = <<"default", default>> /\ directory = <<"default", default>>
        /\ asked # <<>> /\ (~listed \/ m = 0) => scope = <<"built", asked>> /\ directory = <<"id", asked>>
        /\ asked # <<>> /\ listed /\ m # 0 =>
             scope = <<"entry", m>> /\ directory = <<"id", providers[m].id>>
    BY <1>2 DEF Lookup!resolveScope, Lookup!resolveProviderID
  <2> HIDE DEF m
  <2>4. Lookup!BothLoginsAgree
    BY <2>3 DEF Lookup!BothLoginsAgree
  <2>5. Lookup!ExactWins
    BY <2>1, <2>2, <2>3 DEF Lookup!ExactWins
  <2> QED BY <2>4, <2>5 DEF LookupIsExact
<1> QED BY <1>1, <1>2 DEF LookInv

-----------------------------------------------------------------------------
(***************************************************************************)
(* The theorems.                                                           *)
(***************************************************************************)
LoginInv == FormInv /\ BrowserInv /\ DeviceInv /\ LookInv

(* Every way to log in keeps its invariant, and so does one that another   *)
(* behaviour leaves at rest.                                               *)
THEOREM LoginsInvariance == Spec => []LoginInv
<1>1. Init => LoginInv
  BY InitForm, InitBrowser, InitDevice, InitLook DEF LoginInv
<1>2. LoginInv /\ [Next]_vars => LoginInv'
  <2> SUFFICES ASSUME LoginInv, [Next]_vars PROVE LoginInv'
    OBVIOUS
  <2>1. FormInv'
    BY FormMoves, NextForm, FormStays DEF LoginInv
  <2>2. BrowserInv'
    BY BrowserMoves, NextBrowser, BrowserStays DEF LoginInv
  <2>3. DeviceInv'
    BY DeviceMoves, NextDevice, DeviceStays DEF LoginInv
  <2>4. LookInv'
    BY NextLook DEF LoginInv
  <2> QED BY <2>1, <2>2, <2>3, <2>4 DEF LoginInv
<1> QED BY <1>1, <1>2, PTL DEF Spec

(* A token is asked for only after the second factor the appliance         *)
(* demanded was accepted.                                                  *)
THEOREM ClaimsWaitForTheFactor == Spec => []ClaimsNeedSecondFactor
<1>1. LoginInv => ClaimsNeedSecondFactor
  BY DEF LoginInv, FormInv, OrderInv, ClaimSteps, ClaimsNeedSecondFactor,
     Form!ClaimsNeedSecondFactor
<1> QED BY <1>1, LoginsInvariance, PTL

(* Every variable of the four logins stays in its range; the buffers a     *)
(* login made for its secrets are wiped on every way out, a token not      *)
(* before it was used and the one-time code before the request that        *)
(* carries it.  JSON bodies, answers and the Secret of the factor callback *)
(* are not wiped, and the statement leaves them out.                       *)
THEOREM LoginsLeaveNoSecret == Spec => []SecretsWiped
<1>1. LoginInv => SecretsWiped
  <2> SUFFICES ASSUME LoginInv PROVE SecretsWiped
    OBVIOUS
  <2>1. TypeOK
    BY BrowserShows, DeviceShows DEF LoginInv, FormInv, TypeOK
  <2>2. Form!SecretsWiped
    BY DEF LoginInv, FormInv, Form!TypeOK, WipeInv, Form!SecretsWiped, Form!Unwiped
  <2> QED BY <2>1, <2>2 DEF SecretsWiped
<1> QED BY <1>1, LoginsInvariance, PTL

(* Each form carries the cookies the appliance gave until then, and one    *)
(* form alone the one-time code.                                           *)
THEOREM FormsCarryTheSession == Spec => StepsCarryTheSession
<1>1. LoginInv /\ [Next]_vars =>
        [sent' # sent /\ sent'.step \notin {"grant", "exchange"} => sent'.cookies = given]_(Form!vars)
  BY StepsCarry DEF LoginInv
<1>2. LoginInv /\ [Next]_vars =>
        [sent' # sent /\ "factor" \in sent'.fields =>
           sent'.step = "secondAuth" /\ sent.step # "secondAuth"]_(Form!vars)
  BY StepsCarry DEF LoginInv
<1> QED BY <1>1, <1>2, LoginsInvariance, PTL
     DEF Spec, StepsCarryTheSession, Form!StepsCarryTheSession, Form!OneTimeCodeOnce

(* Polls keep their distance, one at most begins after the deadline, and a *)
(* login that expires misses no approval given longer than the length of   *)
(* one call before the deadline.                                           *)
THEOREM PollsKeepTime == Spec => PollsInTime
<1>1. LoginInv => Device!OneLatePoll /\ Device!ExpiryMissesNoApproval
  BY DeviceShows DEF LoginInv
<1>2. LoginInv /\ [Next]_vars =>
        [devicePc = "wait" /\ devicePc' = "poll" /\ answered # Device!NoTime =>
           now >= answered + pace + slows * Increment]_(Device!vars)
  BY PollsKeep DEF LoginInv
<1> QED BY <1>1, <1>2, LoginsInvariance, PTL
     DEF Spec, PollsInTime, Device!PollsKeepDistance

(* The first code handled is redeemed and no other, and a login that has   *)
(* ended serves no request that comes later.                               *)
THEOREM FirstCodeIsRedeemed == Spec => []FirstCodeRedeemed
<1>1. LoginInv => FirstCodeRedeemed
  BY BrowserShows DEF LoginInv, FirstCodeRedeemed
<1> QED BY <1>1, LoginsInvariance, PTL

(* An exact id or name wins over a substring wherever the appliance lists  *)
(* it, and both logins of one identifier meet the same provider.           *)
THEOREM LookupsAreExact == Spec => []LookupIsExact
<1>1. LoginInv => LookupIsExact
  BY LookShows DEF LoginInv
<1> QED BY <1>1, LoginsInvariance, PTL

-----------------------------------------------------------------------------
(***************************************************************************)
(* GrantSetting: the pass over the list.                                   *)
(***************************************************************************)

(* What holds of 0 and of each successor holds of every number.            *)
LEMMA Succession ==
  ASSUME NEW S, S \subseteq Nat, 0 \in S, \A n \in S : n + 1 \in S
  PROVE  S = Nat
<1>1. SUFFICES ASSUME Nat \ S # {} PROVE FALSE
  OBVIOUS
<1>2. PICK p \in Nat \ S : \A q \in Nat \ S : p <= q
  BY <1>1, LeastNumber
<1>3. p - 1 \in Nat /\ p - 1 \in S
  BY <1>2
<1> QED BY <1>2, <1>3

(* A pass over the first n entries, as the recursive function in Without.  *)
IsPass(f, list, grant, n) ==
  f = [i \in 0 .. n |-> IF i = 0 THEN <<>>
                        ELSE IF Setting!EqualFold(list[i], grant) THEN f[i - 1]
                        ELSE Append(f[i - 1], list[i])]

LEMMA PassExists ==
  ASSUME NEW list, NEW grant, NEW n \in Nat
  PROVE  \E f : IsPass(f, list, grant, n)
<1> DEFINE S == {m \in Nat : \E f : IsPass(f, list, grant, m)}
<1>1. 0 \in S
  <2>1. IsPass([i \in 0 .. 0 |-> <<>>], list, grant, 0)
    BY DEF IsPass
  <2> QED BY <2>1
<1>2. ASSUME NEW m \in S PROVE m + 1 \in S
  <2>1. PICK f : IsPass(f, list, grant, m)
    OBVIOUS
  <2> DEFINE last == IF Setting!EqualFold(list[m + 1], grant) THEN f[m]
                     ELSE Append(f[m], list[m + 1])
             g == [i \in 0 .. m + 1 |-> IF i <= m THEN f[i] ELSE last]
  <2>2. ASSUME NEW i \in 0 .. m
        PROVE  g[i] = IF i = 0 THEN <<>>
                      ELSE IF Setting!EqualFold(list[i], grant) THEN g[i - 1]
                      ELSE Append(g[i - 1], list[i])
    <3>1. f[i] = IF i = 0 THEN <<>>
                 ELSE IF Setting!EqualFold(list[i], grant) THEN f[i - 1]
                 ELSE Append(f[i - 1], list[i])
      BY <2>1 DEF IsPass
    <3>2. g[i] = f[i] /\ (i # 0 => g[i - 1] = f[i - 1])
      OBVIOUS
    <3> QED BY <3>1, <3>2
  <2>3. g[m + 1] = last /\ g[m] = f[m]
    OBVIOUS
  <2>4. IsPass(g, list, grant, m + 1)
    <3> HIDE DEF g
    <3>1. g = [i \in 0 .. m + 1 |-> g[i]]
      BY DEF g
    <3>2. ASSUME NEW i \in 0 .. m + 1
          PROVE  g[i] = IF i = 0 THEN <<>>
                        ELSE IF Setting!EqualFold(list[i], grant) THEN g[i - 1]
                        ELSE Append(g[i - 1], list[i])
      <4>1. CASE i \in 0 .. m
        BY <2>2, <4>1
      <4>2. CASE i = m + 1
        <5>1. i # 0 /\ i - 1 = m
          BY <4>2
        <5> QED BY <2>3, <4>2, <5>1
      <4> QED BY <4>1, <4>2
    <3> QED BY <3>1, <3>2 DEF IsPass
  <2>5. m + 1 \in Nat
    OBVIOUS
  <2> HIDE DEF g
  <2> QED BY <2>4, <2>5
<1> HIDE DEF S
<1>3. S = Nat
  BY <1>1, <1>2, Succession DEF S
<1> QED BY <1>3 DEF S

(* Without keeps entries of the list, distinct as they were, and none that *)
(* is the grant.                                                           *)
LEMMA WithoutFacts ==
  ASSUME NEW list \in Seq(Setting!Entries), Setting!Distinct(list), NEW grant
  PROVE  /\ Setting!Without(list, grant) \in Seq(Setting!Entries)
         /\ Setting!Distinct(Setting!Without(list, grant))
         /\ ~Setting!HasGrant(Setting!Without(list, grant), grant)
<1> DEFINE passed == CHOOSE f : IsPass(f, list, grant, Len(list))
<1>1. Setting!Without(list, grant) = passed[Len(list)]
  BY DEF Setting!Without, IsPass
<1>2. Len(list) \in Nat
  OBVIOUS
<1>3. IsPass(passed, list, grant, Len(list))
  BY <1>2, PassExists
<1> HIDE DEF passed
<1> DEFINE Good(i) ==
             /\ passed[i] \in Seq(Setting!Entries)
             /\ \A j \in DOMAIN passed[i] :
                  /\ ~Setting!EqualFold(passed[i][j], grant)
                  /\ \E k \in 1 .. i : passed[i][j] = list[k]
             /\ Setting!Distinct(passed[i])
           S == {i \in Nat : i <= Len(list) => Good(i)}
<1>4. 0 \in S
  <2>1. passed[0] = <<>>
    BY <1>2, <1>3 DEF IsPass
  <2>2. <<>> \in Seq(Setting!Entries) /\ DOMAIN <<>> = {}
    OBVIOUS
  <2>3. Setting!Distinct(<<>>)
    BY <2>2 DEF Setting!Distinct
  <2> QED BY <2>1, <2>2, <2>3
<1>5. ASSUME NEW i \in S PROVE i + 1 \in S
  <2>1. SUFFICES ASSUME i + 1 <= Len(list) PROVE Good(i + 1)
    OBVIOUS
  <2>2. Good(i)
    BY <2>1
  <2>3. passed[i + 1] = IF Setting!EqualFold(list[i + 1], grant) THEN passed[i]
                      ELSE Append(passed[i], list[i + 1])
    <3>1. i + 1 \in 0 .. Len(list) /\ i + 1 # 0 /\ (i + 1) - 1 = i
      BY <2>1
    <3>2. \A n \in 0 .. Len(list) :
            passed[n] = IF n = 0 THEN <<>>
                      ELSE IF Setting!EqualFold(list[n], grant) THEN passed[n - 1]
                      ELSE Append(passed[n - 1], list[n])
      BY <1>3 DEF IsPass
    <3> QED BY <3>1, <3>2
  <2>4. CASE Setting!EqualFold(list[i + 1], grant)
    BY <2>2, <2>3, <2>4
  <2>5. CASE ~Setting!EqualFold(list[i + 1], grant)
    <3>1. list[i + 1] \in Setting!Entries
      BY <2>1
    <3> DEFINE l == passed[i]   e == list[i + 1]   m == passed[i + 1]
    <3>2. l \in Seq(Setting!Entries) /\ m = Append(l, e)
      BY <2>2, <2>3, <2>5
    <3>3. \A j \in DOMAIN l : \E k \in 1 .. i : l[j] = list[k]
      BY <2>2
    <3>4. \A j \in DOMAIN l : ~Setting!EqualFold(l[j], e[1]) /\ ~Setting!EqualFold(e, l[j][1])
      BY <2>1, <3>3 DEF Setting!Distinct
    <3>5. (\A j \in DOMAIN l : ~Setting!EqualFold(l[j], grant)) /\ Setting!Distinct(l)
      BY <2>2
    <3> HIDE DEF l, e, m
    <3>6. /\ m \in Seq(Setting!Entries) /\ DOMAIN m = 1 .. Len(l) + 1
          /\ \A j \in DOMAIN m : m[j] = IF j = Len(l) + 1 THEN e ELSE l[j]
          /\ \A j \in DOMAIN m : j = Len(l) + 1 \/ j \in DOMAIN l
      BY <3>1, <3>2 DEF e
    <3>7. \A j \in DOMAIN m : ~Setting!EqualFold(m[j], grant)
      BY <2>5, <3>5, <3>6 DEF e
    <3>8. \A j \in DOMAIN m : \E k \in 1 .. i + 1 : m[j] = list[k]
      BY <3>3, <3>6 DEF e
    <3>9. Setting!Distinct(m)
      BY <3>4, <3>5, <3>6 DEF Setting!Distinct
    <3> QED BY <3>6, <3>7, <3>8, <3>9 DEF m
  <2> QED BY <2>4, <2>5
<1> HIDE DEF S
<1>6. S = Nat
  BY <1>4, <1>5, Succession DEF S
<1>7. Good(Len(list))
  BY <1>6 DEF S
<1> QED BY <1>1, <1>7 DEF Setting!HasGrant

(* What applyGrant makes of a list names no grant twice, and the grant it  *)
(* was asked for if and only if it was asked to enable it.                 *)
LEMMA ApplyFacts ==
  ASSUME NEW list \in Seq(Setting!Entries), Setting!Distinct(list),
         NEW grant \in Grants, NEW enabled \in BOOLEAN
  PROVE  LET l == Setting!ApplyGrant(list, grant, enabled)
         IN  /\ l \in Seq(Setting!Entries)
             /\ Setting!Distinct(l)
             /\ Setting!HasGrant(l, grant) <=> enabled
<1> DEFINE l == Setting!ApplyGrant(list, grant, enabled)
<1>1. CASE ~enabled
  <2>1. l = Setting!Without(list, grant)
    BY <1>1 DEF Setting!ApplyGrant
  <2> QED BY <1>1, <2>1, WithoutFacts
<1>2. CASE enabled /\ Setting!HasGrant(list, grant)
  <2>1. l = list
    BY <1>2 DEF Setting!ApplyGrant
  <2> QED BY <1>2, <2>1
<1>3. CASE enabled /\ ~Setting!HasGrant(list, grant)
  <2> DEFINE e == <<grant, "same">>
  <2>1. l = Append(list, e)
    BY <1>3 DEF Setting!ApplyGrant
  <2>2. e \in Setting!Entries /\ e[1] = grant
    BY DEF Setting!Entries
  <2> HIDE DEF e, l
  <2>3. /\ l \in Seq(Setting!Entries) /\ DOMAIN l = 1 .. Len(list) + 1
        /\ \A i \in DOMAIN l : l[i] = IF i = Len(list) + 1 THEN e ELSE list[i]
        /\ \A i \in DOMAIN l : i = Len(list) + 1 \/ i \in DOMAIN list
        /\ Len(list) + 1 \in DOMAIN l
    BY <2>1, <2>2
  <2>4. \A i \in DOMAIN list : list[i][1] # grant
    BY <1>3 DEF Setting!HasGrant, Setting!EqualFold
  <2>5. Setting!Distinct(l)
    BY <2>2, <2>3, <2>4 DEF Setting!Distinct, Setting!EqualFold
  <2>6. Setting!HasGrant(l, grant)
    BY <2>2, <2>3 DEF Setting!HasGrant, Setting!EqualFold
  <2> QED BY <1>3, <2>3, <2>5, <2>6 DEF l
<1> QED BY <1>1, <1>2, <1>3

(* Each package has a list its test read and a test of its own to run.     *)
SettingTypes ==
  /\ Setting!TypeOK
  /\ test \in [Packages -> Nat]
  /\ \A p \in Packages : Setting!Distinct(original[p])

LEMMA TestTypes ==
  ASSUME SettingTypes, NEW p \in Packages
  PROVE  /\ Tests[p] \in Seq([grant : Grants, enabled : BOOLEAN]) /\ Len(Tests[p]) \in Nat
         /\ test[p] \in 1 .. Len(Tests[p])
         /\ Setting!Test(p).grant \in Grants /\ Setting!Test(p).enabled \in BOOLEAN
<1>1. /\ Tests[p] \in Seq([grant : Grants, enabled : BOOLEAN])
      /\ test[p] \in DOMAIN Tests[p]
  BY LiveTestsAssumption DEF Setting!Assumptions, SettingTypes, Setting!TypeOK
<1>2. Setting!Test(p) \in [grant : Grants, enabled : BOOLEAN]
  <2> DEFINE s == Tests[p]   i == test[p]   R == [grant : Grants, enabled : BOOLEAN]
  <2>1. s \in Seq(R) /\ i \in DOMAIN s
    BY <1>1
  <2>2. Setting!Test(p) = s[i]
    BY DEF Setting!Test
  <2> HIDE DEF s, i, R
  <2>3. s[i] \in R
    BY <2>1
  <2> QED BY <2>2, <2>3 DEF R
<1> QED BY <1>1, <1>2

LEMMA NextTestTypes ==
  ASSUME SettingTypes, NEW p \in Packages, Setting!NextTest(p)
  PROVE  /\ testPc' \in [Packages -> {"read", "write", "body", "done"}]
         /\ testPc'[p] \in {"read", "done"}
         /\ test' \in [Packages -> Nat]
         /\ \A q \in Packages : test'[q] \in DOMAIN Tests[q]
<1>1. /\ test[p] \in 1 .. Len(Tests[p]) /\ Len(Tests[p]) \in Nat
      /\ DOMAIN Tests[p] = 1 .. Len(Tests[p])
  BY TestTypes
<1>2. /\ testPc \in [Packages -> {"read", "write", "body", "done"}]
      /\ test \in [Packages -> Nat] /\ \A q \in Packages : test[q] \in DOMAIN Tests[q]
  BY DEF SettingTypes, Setting!TypeOK
<1>3. CASE test[p] < Len(Tests[p])
  <2>1. testPc' = [testPc EXCEPT ![p] = "read"] /\ test' = [test EXCEPT ![p] = test[p] + 1]
    BY <1>3 DEF Setting!NextTest
  <2>2. test[p] + 1 \in DOMAIN Tests[p]
    BY <1>1, <1>3
  <2> QED BY <1>2, <2>1, <2>2
<1>4. CASE ~(test[p] < Len(Tests[p]))
  <2>1. testPc' = [testPc EXCEPT ![p] = "done"] /\ test' = test
    BY <1>4 DEF Setting!NextTest
  <2> QED BY <1>2, <2>1
<1> QED BY <1>3, <1>4

LEMMA PutTypes ==
  ASSUME Setting!TypeOK, NEW list \in Seq(Setting!Entries), Setting!Distinct(list),
         NEW ok \in BOOLEAN, Setting!Put(list, ok)
  PROVE  /\ setting' \in Seq(Setting!Entries) /\ Setting!Distinct(setting')
         /\ lost' \in BOOLEAN
         /\ ~lost' => ~lost /\ setting' = list
BY DEF Setting!Put, Setting!TypeOK

LEMMA SettingTypesStep ==
  ASSUME SettingTypes, Setting!Next
  PROVE  SettingTypes'
<1>1. PICK p \in Packages : Setting!Read(p) \/ Setting!Write(p) \/ Setting!Restore(p)
  BY DEF Setting!Next
<1>2. Setting!TypeOK
  BY DEF SettingTypes
<1>3. CASE Setting!Read(p)
  <2>1. /\ testPc' = [testPc EXCEPT ![p] = "write"]
        /\ original' = [original EXCEPT ![p] = setting]
        /\ UNCHANGED <<setting, initial, test, lost>>
    BY <1>3 DEF Setting!Read
  <2>2. \A q \in Packages : Setting!Distinct(original[q])
    BY DEF SettingTypes
  <2>3. /\ original' \in [Packages -> Seq(Setting!Entries)]
        /\ \A q \in Packages : original'[q] = original[q] \/ original'[q] = setting
    BY <1>2, <2>1 DEF Setting!TypeOK
  <2>4. \A q \in Packages : Setting!Distinct(original'[q])
    BY <1>2, <2>2, <2>3 DEF Setting!TypeOK
  <2>5. testPc' \in [Packages -> {"read", "write", "body", "done"}]
    BY <1>2, <2>1 DEF Setting!TypeOK
  <2> QED BY <1>2, <2>1, <2>3, <2>4, <2>5 DEF SettingTypes, Setting!TypeOK, Setting!Distinct
<1>4. ASSUME NEW list \in Seq(Setting!Entries), Setting!Distinct(list), NEW ok \in BOOLEAN,
             Setting!Put(list, ok) \/ UNCHANGED <<setting, lost>>,
             testPc' \in [Packages -> {"read", "write", "body", "done"}],
             test' \in [Packages -> Nat], \A q \in Packages : test'[q] \in DOMAIN Tests[q],
             UNCHANGED <<initial, original>>
      PROVE  SettingTypes'
  <2>1. setting' \in Seq(Setting!Entries) /\ Setting!Distinct(setting') /\ lost' \in BOOLEAN
    BY <1>2, <1>4, PutTypes DEF Setting!TypeOK
  <2> QED BY <1>2, <1>4, <2>1 DEF SettingTypes, Setting!TypeOK, Setting!Distinct
<1>5. CASE Setting!Write(p)
  <2> DEFINE desired == Setting!ApplyGrant(original[p], Setting!Test(p).grant,
                                           Setting!Test(p).enabled)
  <2>1. desired \in Seq(Setting!Entries) /\ Setting!Distinct(desired)
    <3>1. original[p] \in Seq(Setting!Entries) /\ Setting!Distinct(original[p])
      BY <1>2 DEF SettingTypes, Setting!TypeOK
    <3> QED BY <3>1, TestTypes, ApplyFacts
  <2>2. UNCHANGED <<initial, original>>
    BY <1>5 DEF Setting!Write
  <2>3. CASE /\ \/ desired = original[p] /\ UNCHANGED <<setting, lost>>
                \/ Setting!Put(desired, TRUE)
             /\ testPc' = [testPc EXCEPT ![p] = "body"] /\ UNCHANGED test
    <3>1. /\ testPc' \in [Packages -> {"read", "write", "body", "done"}]
          /\ test' \in [Packages -> Nat] /\ \A q \in Packages : test'[q] \in DOMAIN Tests[q]
      BY <1>2, <2>3 DEF SettingTypes, Setting!TypeOK
    <3> HIDE DEF desired
    <3> QED BY <1>4, <2>1, <2>2, <2>3, <3>1
  <2>4. CASE Setting!Put(desired, FALSE) /\ Setting!NextTest(p)
    <3> HIDE DEF desired
    <3> QED BY <1>4, <2>1, <2>2, <2>4, NextTestTypes
  <2> QED BY <1>5, <2>3, <2>4 DEF Setting!Write
<1>6. CASE Setting!Restore(p)
  <2>1. original[p] \in Seq(Setting!Entries) /\ Setting!Distinct(original[p])
    BY <1>2 DEF SettingTypes, Setting!TypeOK
  <2>2. PICK ok \in BOOLEAN : Setting!Put(original[p], ok)
    BY <1>6 DEF Setting!Restore
  <2>3. Setting!NextTest(p) /\ UNCHANGED <<initial, original>>
    BY <1>6 DEF Setting!Restore
  <2> QED BY <1>4, <2>1, <2>2, <2>3, NextTestTypes
<1> QED BY <1>1, <1>3, <1>5, <1>6

-----------------------------------------------------------------------------
(* Of the tests of one package: the list is as it was before them, but for *)
(* the grant of the test in its body, and what that test puts back is what *)
(* there was at first.                                                     *)
RestoreInv ==
  ~lost => \A p \in Packages :
    /\ testPc[p] # "body" => setting = initial
    /\ testPc[p] \in {"write", "body"} => original[p] = initial
    /\ testPc[p] = "body" =>
         setting = Setting!ApplyGrant(original[p], Setting!Test(p).grant, Setting!Test(p).enabled)

(* One package's tests at a time, as "go test" runs them with -p 1.        *)
OnePackage == \E p : Packages = {p}

SettingInv == SettingTypes /\ (OnePackage => RestoreInv)

LEMMA InitSetting == TestsInit => SettingInv
<1> SUFFICES ASSUME TestsInit PROVE SettingInv
  OBVIOUS
<1>1. Setting!Init
  BY DEF TestsInit
<1>2. \A p \in Packages : 1 \in DOMAIN Tests[p]
  <2>1. ASSUME NEW p \in Packages PROVE 1 \in DOMAIN Tests[p]
    <3> DEFINE s == Tests[p]   R == [grant : Grants, enabled : BOOLEAN]
    <3>1. s # <<>> /\ s \in Seq(R)
      BY LiveTestsAssumption DEF Setting!Assumptions
    <3> HIDE DEF s, R
    <3>2. 1 \in DOMAIN s
      BY <3>1
    <3> QED BY <3>2 DEF s
  <2> QED BY <2>1
<1>3. setting \in Seq(Setting!Entries) /\ Setting!Distinct(setting)
  <2>1. setting \in Setting!SeqOf(Setting!Entries, MaxLen)
    BY <1>1 DEF Setting!Init
  <2> QED BY <1>1, <2>1 DEF Setting!Init, Setting!SeqOf
<1>4. SettingTypes
  <2>1. <<>> \in Seq(Setting!Entries) /\ Setting!Distinct(<<>>)
    BY DEF Setting!Distinct
  <2> QED BY <1>1, <1>2, <1>3, <2>1 DEF Setting!Init, SettingTypes, Setting!TypeOK
<1>5. RestoreInv
  BY <1>1 DEF Setting!Init, RestoreInv
<1> QED BY <1>4, <1>5 DEF SettingInv

LEMMA RestoreStep ==
  ASSUME SettingTypes, OnePackage, RestoreInv, Setting!Next
  PROVE  RestoreInv'
<1>1. PICK p : Packages = {p}
  BY DEF OnePackage
<1>2. Setting!Read(p) \/ Setting!Write(p) \/ Setting!Restore(p)
  BY <1>1 DEF Setting!Next
<1>3. p \in Packages /\ Setting!TypeOK
  BY <1>1 DEF SettingTypes
<1>4. SUFFICES ASSUME ~lost'
               PROVE  /\ testPc'[p] # "body" => setting' = initial'
                      /\ testPc'[p] \in {"write", "body"} => original'[p] = initial'
                      /\ testPc'[p] = "body" =>
                           setting' = Setting!ApplyGrant(original[p], Setting!Test(p).grant,
                                                         Setting!Test(p).enabled)'
  BY <1>1 DEF RestoreInv
<1>5. CASE Setting!Read(p)
  <2>1. testPc[p] = "read" /\ ~lost /\ setting = initial
    BY <1>3, <1>4, <1>5 DEF Setting!Read, RestoreInv
  <2>2. testPc'[p] = "write" /\ original'[p] = setting
    BY <1>3, <1>5 DEF Setting!Read, Setting!TypeOK
  <2> QED BY <1>5, <2>1, <2>2 DEF Setting!Read
<1>6. CASE Setting!Write(p)
  <2> DEFINE desired == Setting!ApplyGrant(original[p], Setting!Test(p).grant,
                                           Setting!Test(p).enabled)
  <2>1. ~Setting!Put(desired, FALSE)
    BY <1>4 DEF Setting!Put
  <2>2. /\ IF desired = original[p] THEN UNCHANGED <<setting, lost>>
           ELSE Setting!Put(desired, TRUE)
        /\ testPc' = [testPc EXCEPT ![p] = "body"] /\ UNCHANGED <<initial, original, test>>
        /\ testPc[p] = "write"
    BY <1>6, <2>1 DEF Setting!Write
  <2>3. ~lost /\ setting = initial /\ original[p] = initial
    <3>1. ~lost
      BY <1>4, <2>2 DEF Setting!Put
    <3> QED BY <1>3, <2>2, <3>1 DEF RestoreInv
  <2>4. setting' = desired
    BY <2>2, <2>3 DEF Setting!Put
  <2>5. testPc'[p] = "body"
    BY <1>3, <2>2 DEF Setting!TypeOK
  <2>6. Setting!ApplyGrant(original[p], Setting!Test(p).grant, Setting!Test(p).enabled)' = desired
    BY <2>2 DEF Setting!ApplyGrant, Setting!Without, Setting!HasGrant, Setting!EqualFold,
                Setting!Test
  <2> QED BY <2>2, <2>3, <2>4, <2>5, <2>6
<1>7. CASE Setting!Restore(p)
  <2>1. PICK ok \in BOOLEAN : Setting!Put(original[p], ok)
    BY <1>7 DEF Setting!Restore
  <2>2. testPc[p] = "body" /\ Setting!NextTest(p) /\ UNCHANGED <<initial, original>>
    BY <1>7 DEF Setting!Restore
  <2>3. ~lost /\ setting' = original[p]
    BY <1>4, <2>1 DEF Setting!Put
  <2>4. original[p] = initial
    BY <1>3, <2>2, <2>3 DEF RestoreInv
  <2>5. testPc'[p] \in {"read", "done"}
    BY <1>3, <2>2, NextTestTypes
  <2> QED BY <2>2, <2>3, <2>4, <2>5
<1> QED BY <1>2, <1>5, <1>6, <1>7

LEMMA SettingSafe == SettingInv /\ OnePackage => SettingRestored
<1> SUFFICES ASSUME SettingInv, OnePackage PROVE SettingRestored
  OBVIOUS
<1>1. SettingTypes /\ RestoreInv
  BY DEF SettingInv
<1>2. Setting!SettingRestored
  BY <1>1 DEF Setting!SettingRestored, RestoreInv, OnePackage
<1>3. ASSUME NEW p \in Packages, testPc[p] = "body", ~lost
      PROVE  Setting!HasGrant(setting, Setting!Test(p).grant) <=> Setting!Test(p).enabled
  <2>1. setting = Setting!ApplyGrant(original[p], Setting!Test(p).grant, Setting!Test(p).enabled)
    BY <1>1, <1>3 DEF RestoreInv
  <2>2. original[p] \in Seq(Setting!Entries) /\ Setting!Distinct(original[p])
    BY <1>1 DEF SettingTypes, Setting!TypeOK
  <2> QED BY <1>1, <2>1, <2>2, TestTypes, ApplyFacts
<1> QED BY <1>2, <1>3 DEF SettingRestored, Setting!GrantInEffect

-----------------------------------------------------------------------------
(***************************************************************************)
(* Provisioning.                                                           *)
(***************************************************************************)
Undoing == <<"admin", "certUser", "trusted">>

(* What the first k - 1 deletions of a plan's cleanup were of.             *)
Passed(p, k) == {Objects!Cleanup(p)[j] : j \in 1 .. k - 1}

(* The objects a plan creates: those that its cleanup deletes.             *)
Planned(p) == Objects!Objects \cap Passed(p, Len(Objects!Cleanup(p)) + 1)

(* A list of deletions, or the rest of one.                                *)
IsRemains(list) == \E t \in {Objects!Cleanup(plan), Undoing} :
                     \E k \in 1 .. Len(t) + 1 : list = SubSeq(t, k, Len(t))

ObjectTypes ==
  /\ plan \in Plans /\ run \in 0 .. MaxRuns
  /\ phase \in {"provision", "body", "teardown", "done"}
  /\ at \in 1 .. Len(Objects!Steps(plan))
  /\ known \subseteq Planned(plan)
  /\ tracked \in BOOLEAN /\ open \in BOOLEAN /\ left \in BOOLEAN /\ conflict \in BOOLEAN
  /\ IsRemains(todo)
  /\ objects \subseteq Objects!Objects \X (0 .. MaxRuns)
  /\ faults \in 0 .. MaxFaults

(* The deferred cleanup, the temporary admin and its client appear at the  *)
(* steps that create them, and no certificate is left when one is to be    *)
(* trusted, unless its deletion was lost.                                  *)
ProvisionInv ==
  phase = "provision" =>
    /\ tracked <=> at > 7
    /\ open <=> at > 7
    /\ at > 5 => Objects!Exists("admin")
    /\ at = 3 /\ ~left => ~Objects!Exists("trusted")

BodyInv == phase = "body" => tracked /\ open /\ Objects!Exists("admin")

(* Of the deletions made, those of objects this test knows of have left    *)
(* only what something refers to; the admin and its client are there until *)
(* their own turn comes.                                                   *)
DownTo(k) ==
  /\ \A o \in Passed(plan, k) \cap known :
       Objects!Exists(o) => \E x \in Objects!Refers(o) : Objects!Exists(x)
  /\ "close" \notin Passed(plan, k) => open
  /\ "admin" \notin Passed(plan, k) => Objects!Exists("admin")

TeardownInv ==
  phase = "teardown" /\ tracked /\ ~left =>
    \E k \in 1 .. Len(Objects!Cleanup(plan)) + 1 :
      /\ todo = SubSeq(Objects!Cleanup(plan), k, Len(Objects!Cleanup(plan)))
      /\ DownTo(k)

ObjectsInv ==
  /\ ObjectTypes /\ ProvisionInv /\ BodyInv /\ TeardownInv
  /\ Objects!TrackedTornDown /\ Objects!RerunNotBlocked

(* What the plans begin with, and what each does after it.                 *)
Beginning ==
  <<"enable", "clear", "trusted", "certUser", "admin", "adminPassword", "connect">>
Rest(p) ==
  IF p = "a2a"
    THEN {"asset", "account", "accountPassword", "sshKey", "apiKey", "clientSecret",
          "registration", "retrievable"}
    ELSE {"asset", "account", "accountPassword", "forUser", "forUserPassword", "role",
          "policy", "registration", "broker"}

LEMMA StepsFacts ==
  ASSUME NEW p \in {"a2a", "broker"}
  PROVE  /\ Len(Objects!Steps(p)) \in Nat /\ Len(Objects!Steps(p)) > 7
         /\ \A i \in 1 .. 7 : Objects!Steps(p)[i] = Beginning[i]
         /\ \A i \in 8 .. Len(Objects!Steps(p)) : Objects!Steps(p)[i] \in Rest(p)
<1>1. CASE p = "a2a"
  <2>0. Objects!Steps(p) = Objects!A2ASteps /\ Rest(p) = Rest("a2a")
    BY <1>1 DEF Objects!Steps
  <2>1. Len(Objects!A2ASteps) = 17
    BY DEF Objects!A2ASteps
  <2>2. \A i \in 1 .. 7 : Objects!A2ASteps[i] = Beginning[i]
    BY DEF Beginning, Objects!A2ASteps
  <2>3. \A i \in 8 .. 17 : Objects!A2ASteps[i] \in Rest("a2a")
    BY DEF Rest, Objects!A2ASteps
  <2>4. /\ Len(Objects!A2ASteps) \in Nat /\ Len(Objects!A2ASteps) > 7
        /\ \A i \in 8 .. Len(Objects!A2ASteps) : Objects!A2ASteps[i] \in Rest("a2a")
    BY <2>1, <2>3
  <2> QED BY <2>0, <2>2, <2>4
<1>2. CASE p = "broker"
  <2>0. Objects!Steps(p) = Objects!BrokerSteps /\ Rest(p) = Rest("broker")
    BY <1>2 DEF Objects!Steps
  <2>1. Len(Objects!BrokerSteps) = 16
    BY DEF Objects!BrokerSteps
  <2>2. \A i \in 1 .. 7 : Objects!BrokerSteps[i] = Beginning[i]
    BY DEF Beginning, Objects!BrokerSteps
  <2>3. \A i \in 8 .. 16 : Objects!BrokerSteps[i] \in Rest("broker")
    BY DEF Rest, Objects!BrokerSteps
  <2>4. /\ Len(Objects!BrokerSteps) \in Nat /\ Len(Objects!BrokerSteps) > 7
        /\ \A i \in 8 .. Len(Objects!BrokerSteps) : Objects!BrokerSteps[i] \in Rest("broker")
    BY <2>1, <2>3
  <2> QED BY <2>0, <2>2, <2>4
<1> QED BY <1>1, <1>2

(* The order of each cleanup: an object goes after those that refer to it, *)
(* and what the temporary admin deletes before the admin and its client.   *)
LEMMA CleanupFacts ==
  ASSUME NEW p \in {"a2a", "broker"}
  PROVE  LET C == Objects!Cleanup(p)
             N == 1 .. Len(C)
         IN  /\ C \in Seq(Objects!Objects \cup {"close"}) /\ Len(C) \in Nat
             /\ \A i, j \in N : C[i] = C[j] => i = j
             /\ \A i, j \in N : C[i] \in Objects!Refers(C[j]) => i < j
             /\ \A i, j \in N : C[i] \in Objects!ByAdmin /\ C[j] \in {"close", "admin"} => i < j
<1>1. CASE p = "a2a"
  <2>0. Objects!Cleanup(p) = Objects!A2ACleanup
    BY <1>1 DEF Objects!Cleanup
  <2> DEFINE C == Objects!A2ACleanup
  <2>1. C \in Seq(Objects!Objects \cup {"close"}) /\ Len(C) = 7
    BY DEF Objects!A2ACleanup, Objects!Objects
  <2>2. \A i, j \in 1 .. 7 : C[i] = C[j] => i = j
    BY DEF Objects!A2ACleanup
  <2>3. \A i, j \in 1 .. 7 : C[i] \in Objects!Refers(C[j]) => i < j
    BY DEF Objects!A2ACleanup, Objects!Refers
  <2>4. \A i, j \in 1 .. 7 : C[i] \in Objects!ByAdmin /\ C[j] \in {"close", "admin"} => i < j
    BY DEF Objects!A2ACleanup, Objects!ByAdmin
  <2> HIDE DEF C
  <2> QED BY <2>0, <2>1, <2>2, <2>3, <2>4 DEF C
<1>2. CASE p = "broker"
  <2>0. Objects!Cleanup(p) = Objects!BrokerCleanup
    BY <1>2 DEF Objects!Cleanup
  <2> DEFINE C == Objects!BrokerCleanup
  <2>1. C \in Seq(Objects!Objects \cup {"close"}) /\ Len(C) = 11
    BY DEF Objects!BrokerCleanup, Objects!Objects
  <2>2. \A i, j \in 1 .. 11 : C[i] = C[j] => i = j
    BY DEF Objects!BrokerCleanup
  <2>3. \A i, j \in 1 .. 11 : C[i] \in Objects!Refers(C[j]) => i < j
    BY DEF Objects!BrokerCleanup, Objects!Refers
  <2>4. \A i, j \in 1 .. 11 : C[i] \in Objects!ByAdmin /\ C[j] \in {"close", "admin"} => i < j
    BY DEF Objects!BrokerCleanup, Objects!ByAdmin
  <2> HIDE DEF C
  <2> QED BY <2>0, <2>1, <2>2, <2>3, <2>4 DEF C
<1> QED BY <1>1, <1>2

(* Every object a step of a plan creates is one its cleanup deletes.       *)
LEMMA CreatedPlanned ==
  ASSUME NEW p \in {"a2a", "broker"}, NEW i \in 1 .. Len(Objects!Steps(p)),
         Objects!Steps(p)[i] \in Objects!Objects
  PROVE  Objects!Steps(p)[i] \in Planned(p)
<1> DEFINE s == Objects!Steps(p)[i]
<1>1. CASE p = "a2a"
  <2>1. s \in {Beginning[j] : j \in 1 .. 7} \cup Rest("a2a")
    BY <1>1, StepsFacts
  <2>2. s \in {"trusted", "certUser", "admin", "asset", "account", "registration"}
    BY <2>1 DEF Beginning, Rest, Objects!Objects
  <2>3. Objects!Cleanup(p) = Objects!A2ACleanup
    BY <1>1 DEF Objects!Cleanup
  <2> DEFINE C == Objects!A2ACleanup
  <2>4. /\ Len(C) = 7 /\ C[1] = "registration" /\ C[2] = "account" /\ C[3] = "asset"
        /\ C[5] = "certUser" /\ C[6] = "trusted" /\ C[7] = "admin"
    BY DEF Objects!A2ACleanup
  <2> HIDE DEF C, s
  <2>5. \E j \in 1 .. (Len(C) + 1) - 1 : s = C[j]
    BY <2>2, <2>4
  <2> QED BY <2>3, <2>5 DEF Planned, Passed, C, s
<1>2. CASE p = "broker"
  <2>1. s \in Objects!Objects
    OBVIOUS
  <2>3. Objects!Cleanup(p) = Objects!BrokerCleanup
    BY <1>2 DEF Objects!Cleanup
  <2> DEFINE C == Objects!BrokerCleanup
  <2>4. /\ Len(C) = 11 /\ C[1] = "policy" /\ C[2] = "role" /\ C[3] = "broker"
        /\ C[4] = "registration" /\ C[5] = "account" /\ C[6] = "asset" /\ C[8] = "forUser"
        /\ C[9] = "certUser" /\ C[10] = "trusted" /\ C[11] = "admin"
    BY DEF Objects!BrokerCleanup
  <2> HIDE DEF C, s
  <2>5. \E j \in 1 .. (Len(C) + 1) - 1 : s = C[j]
    BY <2>1, <2>4 DEF Objects!Objects
  <2> QED BY <2>3, <2>5 DEF Planned, Passed, C, s
<1> QED BY <1>1, <1>2

(* One more deletion.                                                      *)
LEMMA PassedNext ==
  ASSUME NEW p, NEW k \in Nat, k > 0
  PROVE  Passed(p, k + 1) = Passed(p, k) \cup {Objects!Cleanup(p)[k]}
<1>1. 1 .. (k + 1) - 1 = (1 .. k - 1) \cup {k}
  OBVIOUS
<1> QED BY <1>1 DEF Passed

(* What is left of a list after the next deletion.                         *)
LEMMA RemainsFacts ==
  ASSUME NEW S, NEW list \in Seq(S), NEW k \in 1 .. Len(list) + 1
  PROVE  LET r == SubSeq(list, k, Len(list))
         IN  /\ r = <<>> <=> k = Len(list) + 1
             /\ r # <<>> => /\ k \in 1 .. Len(list) /\ Head(r) = list[k]
                            /\ Tail(r) = SubSeq(list, k + 1, Len(list))
             /\ Objects!IsSuffix(r, list)
<1> DEFINE r == SubSeq(list, k, Len(list))
<1>1. Len(list) \in Nat /\ r \in Seq(S) /\ Len(r) = Len(list) - k + 1
  OBVIOUS
<1>2. r = <<>> <=> k = Len(list) + 1
  <2> HIDE DEF r
  <2> QED BY <1>1
<1>3. ASSUME r # <<>>
      PROVE  k \in 1 .. Len(list) /\ Head(r) = list[k] /\ Tail(r) = SubSeq(list, k + 1, Len(list))
  BY <1>2, <1>3
<1>4. Objects!IsSuffix(r, list)
  BY DEF Objects!IsSuffix, Objects!IsPrefix, Objects!Reverse
<1> QED BY <1>2, <1>3, <1>4

-----------------------------------------------------------------------------
(* What is on the appliance after an object is created or deleted.         *)
LEMMA ExistsAfter ==
  ASSUME UNCHANGED run, NEW o
  PROVE  /\ objects' = objects \cup {Objects!Name(o)} =>
              \A x : Objects!Exists(x)' <=> (Objects!Exists(x) \/ x = o)
         /\ objects' = objects \ {Objects!Name(o)} =>
              \A x : Objects!Exists(x)' <=> (Objects!Exists(x) /\ x # o)
         /\ UNCHANGED objects => \A x : Objects!Exists(x)' <=> Objects!Exists(x)
BY DEF Objects!Exists, Objects!Name

LEMMA NameTypes ==
  ASSUME ObjectTypes, NEW o \in Objects!Objects
  PROVE  Objects!Name(o) \in Objects!Objects \X (0 .. MaxRuns)
BY LiveTestsAssumption DEF ObjectTypes, Objects!Name, Objects!Assumptions

LEMMA PlanFacts ==
  ASSUME ObjectTypes
  PROVE  /\ plan \in {"a2a", "broker"}
         /\ MaxRuns \in Nat /\ MaxFaults \in Nat
         /\ Len(Objects!Steps(plan)) \in Nat /\ Len(Objects!Steps(plan)) > 7
         /\ at \in Nat
         /\ at <= 7 => Objects!Step = Beginning[at]
         /\ at > 7 => Objects!Step \in Rest(plan)
         /\ Objects!Step \in Objects!Objects => Objects!Step \in Planned(plan)
<1>1. plan \in {"a2a", "broker"} /\ MaxRuns \in Nat /\ MaxFaults \in Nat
  BY LiveTestsAssumption DEF ObjectTypes, Objects!Assumptions
<1>2. at \in 1 .. Len(Objects!Steps(plan))
  BY DEF ObjectTypes
<1>3. Objects!Step = Objects!Steps(plan)[at]
  BY DEF Objects!Step
<1>4. /\ Len(Objects!Steps(plan)) \in Nat /\ Len(Objects!Steps(plan)) > 7
      /\ \A i \in 1 .. 7 : Objects!Steps(plan)[i] = Beginning[i]
      /\ \A i \in 8 .. Len(Objects!Steps(plan)) : Objects!Steps(plan)[i] \in Rest(plan)
  BY <1>1, StepsFacts
<1>5. at <= 7 => at \in 1 .. 7
  BY <1>2, <1>4
<1>6. at > 7 => at \in 8 .. Len(Objects!Steps(plan))
  BY <1>2, <1>4
<1>7. Objects!Step \in Objects!Objects => Objects!Step \in Planned(plan)
  BY <1>1, <1>2, <1>3, CreatedPlanned
<1> QED BY <1>1, <1>2, <1>3, <1>4, <1>5, <1>6, <1>7

(* Which step it is, of those that the invariant speaks of.                *)
LEMMA StepAt ==
  ASSUME ObjectTypes
  PROVE  /\ Objects!Step = "clear" <=> at = 2
         /\ Objects!Step = "trusted" <=> at = 3
         /\ Objects!Step = "certUser" <=> at = 4
         /\ Objects!Step = "admin" <=> at = 5
         /\ Objects!Step = "connect" <=> at = 7
<1>1. /\ at \in Nat /\ at > 0
      /\ at <= 7 => Objects!Step = Beginning[at]
      /\ at > 7 => Objects!Step \in Rest(plan)
  <2>1. at > 0
    BY PlanFacts DEF ObjectTypes
  <2> QED BY <2>1, PlanFacts
<1>2. CASE at > 7
  BY <1>1, <1>2 DEF Rest
<1>3. CASE at <= 7
  <2>1. at \in 1 .. 7
    BY <1>1, <1>3
  <2>2. \A i \in 1 .. 7 : /\ (Beginning[i] = "clear" <=> i = 2)
                          /\ (Beginning[i] = "trusted" <=> i = 3)
                          /\ (Beginning[i] = "certUser" <=> i = 4)
                          /\ (Beginning[i] = "admin" <=> i = 5)
                          /\ (Beginning[i] = "connect" <=> i = 7)
    BY DEF Beginning
  <2> QED BY <1>1, <1>3, <2>1, <2>2
<1> QED BY <1>1, <1>2, <1>3

LEMMA UndoesFacts ==
  ASSUME ObjectTypes, tracked => at > 7
  PROVE  /\ tracked => Objects!Undoes(Objects!Step) = Objects!Cleanup(plan)
         /\ ~tracked => Objects!Undoes(Objects!Step) \in {<<"trusted">>, Undoing, <<>>}
<1>1. ASSUME tracked PROVE Objects!Step \notin {"certUser", "adminPassword", "connect"}
  <2>1. Objects!Step \in Rest(plan)
    BY <1>1, PlanFacts
  <2> QED BY <2>1 DEF Rest
<1>2. ASSUME NEW s, tracked, s \notin {"certUser", "adminPassword", "connect"}
      PROVE  Objects!Undoes(s) = Objects!Cleanup(plan)
  BY <1>2 DEF Objects!Undoes
<1>3. ASSUME NEW s, ~tracked PROVE Objects!Undoes(s) \in {<<"trusted">>, Undoing, <<>>}
  <2>1. CASE s = "certUser"
    BY <1>3, <2>1 DEF Objects!Undoes
  <2>2. CASE s \in {"adminPassword", "connect"}
    BY <1>3, <2>2 DEF Objects!Undoes, Undoing
  <2>3. CASE s \notin {"certUser", "adminPassword", "connect"}
    BY <1>3, <2>3 DEF Objects!Undoes
  <2> QED BY <2>1, <2>2, <2>3
<1> QED BY <1>1, <1>2, <1>3

LEMMA RemainsLists ==
  /\ \A list \in {<<"trusted">>, Undoing, <<>>} : IsRemains(list)
  /\ plan \in {"a2a", "broker"} => IsRemains(Objects!Cleanup(plan))
<1>1. /\ SubSeq(Undoing, 1, Len(Undoing)) = Undoing /\ 1 \in 1 .. Len(Undoing) + 1
      /\ SubSeq(Undoing, 3, Len(Undoing)) = <<"trusted">> /\ 3 \in 1 .. Len(Undoing) + 1
      /\ SubSeq(Undoing, 4, Len(Undoing)) = <<>> /\ 4 \in 1 .. Len(Undoing) + 1
  <2>1. /\ Undoing \in Seq(Objects!Objects) /\ Len(Undoing) = 3 /\ Undoing[3] = "trusted"
    BY DEF Undoing, Objects!Objects
  <2> DEFINE one == SubSeq(Undoing, 3, 3)
  <2>2. SubSeq(Undoing, 1, 3) = Undoing /\ SubSeq(Undoing, 4, 3) = <<>>
    BY <2>1
  <2>3. one \in Seq(Objects!Objects) /\ Len(one) = 1 /\ one[1] = "trusted"
    BY <2>1
  <2> HIDE DEF one
  <2>4. one = <<"trusted">>
    BY <2>3
  <2> QED BY <2>1, <2>2, <2>4 DEF one
<1>2. ASSUME plan \in {"a2a", "broker"} PROVE IsRemains(Objects!Cleanup(plan))
  <2> DEFINE C == Objects!Cleanup(plan)
  <2>1. C \in Seq(Objects!Objects \cup {"close"}) /\ Len(C) \in Nat
    BY <1>2, CleanupFacts
  <2> HIDE DEF C
  <2>2. SubSeq(C, 1, Len(C)) = C /\ 1 \in 1 .. Len(C) + 1
    BY <2>1
  <2> QED BY <2>2 DEF IsRemains, C
<1>3. \A list \in {<<"trusted">>, Undoing, <<>>} : IsRemains(list)
  <2>1. ASSUME NEW list, NEW k \in 1 .. Len(Undoing) + 1,
               SubSeq(Undoing, k, Len(Undoing)) = list
        PROVE  IsRemains(list)
    BY <2>1 DEF IsRemains
  <2> QED BY <1>1, <2>1
<1> QED BY <1>2, <1>3

(* What a failure leaves to do is one of them, even when the deferred      *)
(* cleanup is in place already.                                            *)
LEMMA UndoesRemains ==
  ASSUME plan \in {"a2a", "broker"}
  PROVE  IsRemains(Objects!Undoes(Objects!Step))
<1> DEFINE s == Objects!Step   u == Objects!Undoes(s)
<1>1. u \in {Objects!Cleanup(plan), <<"trusted">>, Undoing, <<>>}
  BY DEF Objects!Undoes, Undoing
<1> HIDE DEF u
<1> QED BY <1>1, RemainsLists DEF u

LEMMA RemainsNext ==
  ASSUME plan \in {"a2a", "broker"}, IsRemains(todo), todo # <<>>
  PROVE  IsRemains(Tail(todo)) /\ Head(todo) \in Objects!Objects \cup {"close"}
<1>1. PICK t \in {Objects!Cleanup(plan), Undoing} :
        \E k \in 1 .. Len(t) + 1 : todo = SubSeq(t, k, Len(t))
  BY DEF IsRemains
<1>2. t \in Seq(Objects!Objects \cup {"close"}) /\ Len(t) \in Nat
  <2>1. Undoing \in Seq(Objects!Objects \cup {"close"}) /\ Len(Undoing) \in Nat
    BY DEF Undoing, Objects!Objects
  <2> QED BY <2>1, CleanupFacts
<1>3. PICK k \in 1 .. Len(t) + 1 : todo = SubSeq(t, k, Len(t))
  BY <1>1
<1>4. k \in 1 .. Len(t) /\ Head(todo) = t[k] /\ Tail(todo) = SubSeq(t, k + 1, Len(t))
  BY <1>2, <1>3, RemainsFacts
<1>5. k + 1 \in 1 .. Len(t) + 1
  BY <1>2, <1>4
<1>6. t[k] \in Objects!Objects \cup {"close"}
  BY <1>2, <1>4
<1>7. IsRemains(Tail(todo))
  <2>1. \E i \in 1 .. Len(t) + 1 : Tail(todo) = SubSeq(t, i, Len(t))
    BY <1>4, <1>5
  <2> QED BY <2>1 DEF IsRemains
<1> QED BY <1>4, <1>6, <1>7

LEMMA BeginTypes == ObjectTypes /\ Objects!Begin => ObjectTypes'
<1> SUFFICES ASSUME ObjectTypes, Objects!Begin PROVE ObjectTypes'
  OBVIOUS
<1>1. /\ plan' \in Plans /\ run' = run + 1 /\ run < MaxRuns /\ phase' = "provision" /\ at' = 1
      /\ known' = {} /\ todo' = <<>> /\ tracked' = FALSE /\ open' = FALSE /\ left' = FALSE
      /\ UNCHANGED <<objects, faults, conflict>>
  BY DEF Objects!Begin
<1>2. plan' \in {"a2a", "broker"} /\ MaxRuns \in Nat
  BY <1>1, LiveTestsAssumption DEF Objects!Assumptions
<1>3. 1 \in 1 .. Len(Objects!Steps(plan'))
  BY <1>2, StepsFacts
<1>4. IsRemains(todo)'
  <2>1. SubSeq(Undoing, 4, Len(Undoing)) = <<>> /\ 4 \in 1 .. Len(Undoing) + 1
    BY DEF Undoing
  <2> QED BY <1>1, <2>1 DEF IsRemains
<1>5. run' \in 0 .. MaxRuns
  BY <1>1, <1>2 DEF ObjectTypes
<1> QED BY <1>1, <1>3, <1>4, <1>5 DEF ObjectTypes

LEMMA ObjectTypesStep == ObjectTypes /\ Objects!Next => ObjectTypes'
<1> SUFFICES ASSUME ObjectTypes, Objects!Next PROVE ObjectTypes'
  OBVIOUS
<1> DEFINE N == Len(Objects!Steps(plan))
<1>1. /\ plan \in {"a2a", "broker"} /\ MaxRuns \in Nat /\ MaxFaults \in Nat
      /\ N \in Nat /\ N > 7 /\ at \in 1 .. N /\ faults \in 0 .. MaxFaults
      /\ Objects!Step \in Objects!Objects => Objects!Step \in Planned(plan)
  BY PlanFacts DEF ObjectTypes
<1>2. ASSUME UNCHANGED <<plan, run>>,
             phase' \in {"provision", "body", "teardown", "done"}, at' \in 1 .. N,
             known' \in {known, known \cup {Objects!Step}},
             known' # known => Objects!Step \in Objects!Objects,
             {tracked', open', left', conflict'} \subseteq BOOLEAN,
             \E list : IsRemains(list) /\ todo' = list,
             objects' \subseteq objects \cup {Objects!Name(o) : o \in Objects!Objects},
             faults' \in {faults, faults + 1}, faults' # faults => faults < MaxFaults
      PROVE  ObjectTypes'
  <2>1. known' \subseteq Planned(plan)
    BY <1>1, <1>2 DEF ObjectTypes
  <2>2. objects' \subseteq Objects!Objects \X (0 .. MaxRuns)
    BY <1>2, NameTypes DEF ObjectTypes
  <2>3. faults' \in 0 .. MaxFaults
    BY <1>1, <1>2
  <2>4. IsRemains(todo)'
    BY <1>2 DEF IsRemains
  <2> QED BY <1>2, <2>1, <2>2, <2>3, <2>4 DEF ObjectTypes
<1> HIDE DEF N
<1>3. CASE Objects!Begin
  BY <1>3, BeginTypes
<1>4. CASE Objects!Clear
  <2>1. at + 1 \in 1 .. N
    BY <1>1, <1>4, StepAt DEF Objects!Clear
  <2> QED BY <1>2, <1>4, <2>1 DEF Objects!Clear, ObjectTypes
<1>5. CASE Objects!StepDone
  <2>1. at' \in 1 .. N /\ phase' \in {"provision", "body"}
    BY <1>1, <1>5 DEF Objects!StepDone, ObjectTypes, N
  <2>2. /\ known' \in {known, known \cup {Objects!Step}}
        /\ known' # known => Objects!Step \in Objects!Objects
        /\ objects' \subseteq objects \cup {Objects!Name(o) : o \in Objects!Objects}
    BY <1>5 DEF Objects!StepDone, Objects!Creates
  <2> QED BY <1>2, <1>5, <2>1, <2>2 DEF Objects!StepDone, ObjectTypes
<1>6. CASE Objects!StepFails
  <2>1. IsRemains(Objects!Undoes(Objects!Step))
    BY <1>1, UndoesRemains
  <2>2. /\ known' \in {known, known \cup {Objects!Step}}
        /\ known' # known => Objects!Step \in Objects!Objects
        /\ objects' \subseteq objects \cup {Objects!Name(o) : o \in Objects!Objects}
    BY <1>6 DEF Objects!StepFails, Objects!Creates
  <2>3. /\ faults' \in {faults, faults + 1} /\ faults' # faults => faults < MaxFaults
    BY <1>1, <1>6 DEF Objects!StepFails
  <2> QED BY <1>1, <1>2, <1>6, <2>1, <2>2, <2>3
          DEF Objects!StepFails, Objects!Teardown, ObjectTypes
<1>7. CASE Objects!CertUserUndecoded
  <2>1. IsRemains(<<>>)
    BY RemainsLists
  <2>2. "certUser" \in Objects!Objects
    BY DEF Objects!Objects
  <2> QED BY <1>1, <1>2, <1>7, <2>1, <2>2
          DEF Objects!CertUserUndecoded, Objects!Teardown, ObjectTypes
<1>8. CASE Objects!BodyEnds
  <2>1. IsRemains(Objects!Cleanup(plan))
    BY <1>1, RemainsLists
  <2> QED BY <1>1, <1>2, <1>8, <2>1 DEF Objects!BodyEnds, Objects!Teardown, ObjectTypes
<1>9. CASE Objects!Delete
  <2>1. IsRemains(Tail(todo)) /\ todo' = Tail(todo)
    BY <1>1, <1>9, RemainsNext DEF Objects!Delete, ObjectTypes
  <2>2. /\ {open', left'} \subseteq BOOLEAN
        /\ objects' \subseteq objects
        /\ faults' \in {faults, faults + 1} /\ faults' # faults => faults < MaxFaults
    BY <1>9 DEF Objects!Delete, ObjectTypes
  <2> QED BY <1>1, <1>2, <1>9, <2>1, <2>2 DEF Objects!Delete, ObjectTypes
<1>10. CASE Objects!TornDown
  BY <1>1, <1>2, <1>10 DEF Objects!TornDown, ObjectTypes
<1>11. CASE Objects!Kill
  BY <1>1, <1>2, <1>11 DEF Objects!Kill, ObjectTypes
<1>12. CASE Objects!CertUserWithoutId
  <2>1. at + 1 \in 1 .. N /\ "certUser" \in Objects!Objects
    BY <1>1, <1>12, StepAt DEF Objects!CertUserWithoutId, Objects!Objects
  <2> QED BY <1>2, <1>12, <2>1 DEF Objects!CertUserWithoutId, ObjectTypes
<1> QED BY <1>3, <1>4, <1>5, <1>6, <1>7, <1>8, <1>9, <1>10, <1>11, <1>12 DEF Objects!Next

-----------------------------------------------------------------------------
(* While a test provisions.                                                *)
LEMMA ProvisionStep ==
  ASSUME ObjectTypes, ProvisionInv, Objects!Next
  PROVE  ProvisionInv'
<1> SUFFICES ASSUME phase' = "provision"
             PROVE  /\ (tracked' <=> at' > 7)
                    /\ (open' <=> at' > 7)
                    /\ at' > 5 => Objects!Exists("admin")'
                    /\ at' = 3 /\ ~left' => ~Objects!Exists("trusted")'
  BY DEF ProvisionInv
<1>1. /\ at \in Nat /\ Len(Objects!Steps(plan)) \in Nat /\ Len(Objects!Steps(plan)) > 7
      /\ tracked \in BOOLEAN /\ open \in BOOLEAN
  BY PlanFacts DEF ObjectTypes
<1>2. CASE Objects!Begin
  BY <1>2 DEF Objects!Begin
<1>3. CASE Objects!Clear
  <2>1. /\ at = 2 /\ at' = 3 /\ phase = "provision" /\ UNCHANGED <<run, tracked, open>>
        /\ objects' = objects \ {Objects!Name("trusted")} \/ left' = TRUE
    BY <1>1, <1>3, StepAt DEF Objects!Clear
  <2>2. ~tracked /\ ~open
    BY <2>1 DEF ProvisionInv
  <2>3. ~left' => ~Objects!Exists("trusted")'
    BY <2>1, ExistsAfter
  <2> QED BY <2>1, <2>2, <2>3
<1>4. CASE Objects!StepDone
  <2>1. /\ phase = "provision" /\ at' = at + 1 /\ at # 2 /\ UNCHANGED <<run, left>>
        /\ (tracked' <=> tracked \/ at = 7) /\ (open' <=> open \/ at = 7)
        /\ objects \subseteq objects'
        /\ at = 5 => objects' = objects \cup {Objects!Name("admin")}
    <3>1. Objects!Step = "admin" => Objects!Creates
      BY DEF Objects!Creates, Objects!Objects
    <3> QED BY <1>1, <1>4, <3>1, StepAt DEF Objects!StepDone
  <2>2. /\ (tracked <=> at > 7) /\ (open <=> at > 7)
        /\ at > 5 => Objects!Exists("admin")
    BY <2>1 DEF ProvisionInv
  <2>3. (tracked' <=> at' > 7) /\ (open' <=> at' > 7)
    BY <1>1, <2>1, <2>2
  <2>4. at' > 5 => Objects!Exists("admin")'
    BY <1>1, <2>1, <2>2 DEF Objects!Exists, Objects!Name
  <2>5. at' # 3
    BY <1>1, <2>1
  <2> QED BY <2>3, <2>4, <2>5
<1>5. CASE \/ Objects!StepFails \/ Objects!CertUserUndecoded \/ Objects!BodyEnds
           \/ Objects!TornDown \/ Objects!Kill
  BY <1>5 DEF Objects!StepFails, Objects!CertUserUndecoded, Objects!BodyEnds, Objects!TornDown,
              Objects!Kill, Objects!Teardown
<1>6. CASE Objects!Delete
  BY <1>6 DEF Objects!Delete
<1>7. CASE Objects!CertUserWithoutId
  <2>1. at = 4 /\ at' = 5 /\ phase = "provision" /\ UNCHANGED <<tracked, open>>
    BY <1>1, <1>7, StepAt DEF Objects!CertUserWithoutId
  <2> QED BY <2>1 DEF ProvisionInv
<1> QED BY <1>2, <1>3, <1>4, <1>5, <1>6, <1>7 DEF Objects!Next

(* The body starts with the cleanup deferred and the client open.          *)
LEMMA BodyStep ==
  ASSUME ObjectTypes, ProvisionInv, BodyInv, Objects!Next
  PROVE  BodyInv'
<1> SUFFICES ASSUME phase' = "body" PROVE tracked' /\ open' /\ Objects!Exists("admin")'
  BY DEF BodyInv
<1>1. Objects!StepDone
  BY DEF Objects!Next, Objects!Begin, Objects!Clear, Objects!StepFails, Objects!CertUserUndecoded,
         Objects!CertUserWithoutId, Objects!BodyEnds, Objects!Delete, Objects!TornDown, Objects!Kill, Objects!Teardown
<1>2. /\ phase = "provision" /\ at = Len(Objects!Steps(plan)) /\ UNCHANGED run
      /\ tracked => tracked'
      /\ open => open'
      /\ objects \subseteq objects'
  BY <1>1 DEF Objects!StepDone
<1>3. at > 7
  BY <1>2, PlanFacts
<1>4. tracked /\ open /\ Objects!Exists("admin")
  BY <1>2, <1>3, PlanFacts DEF ProvisionInv
<1>5. Objects!Exists("admin")'
  BY <1>2, <1>4 DEF Objects!Exists, Objects!Name
<1>6. tracked' /\ open'
  BY <1>2, <1>4, Zenon
<1> QED BY <1>5, <1>6

(* A certificate is refused only after a deletion of it was lost.          *)
LEMMA ConflictStep ==
  ASSUME ObjectTypes, ProvisionInv, Objects!RerunNotBlocked, Objects!Next
  PROVE  Objects!RerunNotBlocked'
<1>1. ASSUME Objects!StepFails PROVE UNCHANGED conflict
  <2>1. Objects!Refused => left
    <3>1. Objects!Refused => at = 3 /\ Objects!Exists("trusted")
      BY StepAt DEF Objects!Refused
    <3>2. phase = "provision"
      BY <1>1 DEF Objects!StepFails
    <3>3. left \in BOOLEAN
      BY DEF ObjectTypes
    <3> QED BY <3>1, <3>2, <3>3 DEF ProvisionInv
  <2>2. conflict' = (conflict \/ (Objects!Refused /\ ~left))
    BY <1>1 DEF Objects!StepFails
  <2> QED BY <2>1, <2>2 DEF ObjectTypes
<1>2. CASE ~Objects!StepFails
  BY <1>2 DEF Objects!RerunNotBlocked, Objects!Next, Objects!Begin, Objects!Clear, Objects!StepDone,
         Objects!CertUserUndecoded, Objects!CertUserWithoutId, Objects!BodyEnds, Objects!Delete,
         Objects!TornDown, Objects!Kill
<1> QED BY <1>1, <1>2 DEF Objects!RerunNotBlocked

(* The cleanup starts with nothing deleted and all there to delete with.   *)
LEMMA TeardownStart ==
  ASSUME plan \in {"a2a", "broker"}, UNCHANGED plan,
         todo' = Objects!Cleanup(plan), open', Objects!Exists("admin")'
  PROVE  TeardownInv'
<1> DEFINE C == Objects!Cleanup(plan)
<1>1. C \in Seq(Objects!Objects \cup {"close"}) /\ Len(C) \in Nat
  BY CleanupFacts
<1>2. Passed(plan, 1) = {}
  BY DEF Passed
<1>3. DownTo(1)'
  BY <1>2 DEF DownTo, Passed
<1> HIDE DEF C
<1>4. todo' = SubSeq(C, 1, Len(C)) /\ 1 \in 1 .. Len(C) + 1
  BY <1>1 DEF C
<1>5. \E k \in 1 .. Len(Objects!Cleanup(plan')) + 1 :
        /\ todo' = SubSeq(Objects!Cleanup(plan'), k, Len(Objects!Cleanup(plan')))
        /\ DownTo(k)'
  BY <1>3, <1>4 DEF C
<1> QED BY <1>5 DEF TeardownInv

(* A deletion keeps what it finds: what refers to an object left earlier   *)
(* was passed before that object, so it is not the one deleted now.        *)
LEMMA DownOne ==
  ASSUME ObjectTypes, Objects!Delete, ~left', NEW k \in 1 .. Len(Objects!Cleanup(plan)),
         todo = SubSeq(Objects!Cleanup(plan), k, Len(Objects!Cleanup(plan))), DownTo(k)
  PROVE  DownTo(k + 1)'
<1> DEFINE C == Objects!Cleanup(plan)   o == C[k]
<1>1. plan \in {"a2a", "broker"} /\ UNCHANGED <<plan, run, known>> /\ todo # <<>>
  BY PlanFacts DEF Objects!Delete
<1>2. /\ C \in Seq(Objects!Objects \cup {"close"}) /\ Len(C) \in Nat /\ k \in 1 .. Len(C)
      /\ \A i, j \in 1 .. Len(C) : C[i] = C[j] => i = j
      /\ \A i, j \in 1 .. Len(C) : C[i] \in Objects!Refers(C[j]) => i < j
      /\ \A i, j \in 1 .. Len(C) :
           C[i] \in Objects!ByAdmin /\ C[j] \in {"close", "admin"} => i < j
  BY <1>1, CleanupFacts
<1>3. Head(todo) = o
  <2>1. k \in 1 .. Len(C) + 1
    BY <1>2
  <2> QED BY <1>1, <1>2, <2>1, RemainsFacts
<1> HIDE DEF C
<1>4. Passed(plan', k + 1) = Passed(plan, k) \cup {o}
  BY <1>1, PassedNext DEF C
<1>5. \A c \in Passed(plan, k) : \E j \in 1 .. k - 1 : c = C[j] /\ j \in 1 .. Len(C) /\ j < k
  BY <1>2 DEF Passed, C
<1>6. o \notin Passed(plan, k)
  BY <1>2, <1>5
<1>7. \A c \in Passed(plan, k) : o \notin Objects!Refers(c)
  BY <1>2, <1>5
<1>8. o \in Objects!ByAdmin => {"close", "admin"} \cap Passed(plan, k) = {}
  BY <1>2, <1>5
<1> DEFINE allowed == /\ \A x \in Objects!Refers(o) : ~Objects!Exists(x)
                      /\ o \in Objects!ByAdmin => open /\ Objects!Exists("admin")
<1>9. IF o = "close" THEN open' = FALSE /\ UNCHANGED objects
      ELSE /\ UNCHANGED open
           /\ IF o \notin known THEN UNCHANGED objects
              ELSE objects' = IF allowed THEN objects \ {Objects!Name(o)} ELSE objects
  BY <1>3 DEF Objects!Delete
<1>10. /\ \A c \in Passed(plan, k) \cap known :
            Objects!Exists(c) => \E x \in Objects!Refers(c) : Objects!Exists(x)
       /\ "close" \notin Passed(plan, k) => open
       /\ "admin" \notin Passed(plan, k) => Objects!Exists("admin")
  BY DEF DownTo
<1>11. o \in Objects!ByAdmin => open /\ Objects!Exists("admin")
  BY <1>8, <1>10
<1>12. \A x : Objects!Exists(x)' <=> Objects!Exists(x) /\ (x # o \/ UNCHANGED objects)
  BY <1>1, <1>9, ExistsAfter
<1> HIDE DEF o
<1>13. ASSUME NEW c \in (Passed(plan, k) \cup {o}) \cap known, Objects!Exists(c)'
       PROVE  \E x \in Objects!Refers(c) : Objects!Exists(x)'
  <2>1. CASE c \in Passed(plan, k)
    <3>1. PICK x \in Objects!Refers(c) : Objects!Exists(x)
      BY <1>10, <1>12, <1>13, <2>1
    <3>2. x # o
      BY <1>7, <2>1, <3>1
    <3> QED BY <1>12, <3>1, <3>2
  <2>2. CASE c = o
    <3>1. o # "close" => UNCHANGED objects /\ ~allowed
      BY <1>9, <1>12, <1>13, <2>2, ExistsAfter, <1>1
    <3>2. o # "close"
      <4>1. "close" \notin known
        BY DEF ObjectTypes, Planned, Objects!Objects
      <4> QED BY <1>13, <2>2, <4>1
    <3> QED BY <1>11, <1>12, <2>2, <3>1, <3>2
  <2> QED BY <1>13, <2>1, <2>2
<1>14. "close" \notin Passed(plan, k) \cup {o} => open'
  BY <1>9, <1>10
<1>15. "admin" \notin Passed(plan, k) \cup {o} => Objects!Exists("admin")'
  BY <1>10, <1>12
<1> QED BY <1>1, <1>4, <1>13, <1>14, <1>15 DEF DownTo

LEMMA TeardownStep ==
  ASSUME ObjectTypes, ProvisionInv, BodyInv, TeardownInv, Objects!Next
  PROVE  TeardownInv'
<1> SUFFICES ASSUME phase' = "teardown", tracked', ~left' PROVE TeardownInv'
  BY DEF TeardownInv
<1>1. plan \in {"a2a", "broker"}
  BY PlanFacts
<1>2. CASE Objects!StepFails
  <2>1. /\ phase = "provision" /\ UNCHANGED <<plan, run, tracked, open>>
        /\ todo' = Objects!Undoes(Objects!Step) /\ objects \subseteq objects'
    BY <1>2 DEF Objects!StepFails, Objects!Teardown
  <2>2. /\ (tracked <=> at > 7) /\ (open <=> at > 7)
        /\ at > 5 => Objects!Exists("admin")
    BY <2>1 DEF ProvisionInv
  <2>3. tracked /\ open /\ at > 7
    BY <2>1, <2>2
  <2>4. todo' = Objects!Cleanup(plan)
    BY <2>1, <2>3, UndoesFacts
  <2>5. Objects!Exists("admin")'
    BY <2>1, <2>2, <2>3, PlanFacts DEF Objects!Exists, Objects!Name
  <2>6. open'
    BY <2>1, <2>3
  <2> QED BY <1>1, <2>1, <2>4, <2>5, <2>6, TeardownStart
<1>3. CASE Objects!CertUserUndecoded
  <2>1. phase = "provision" /\ at <= 7 /\ tracked
    <3>1. /\ phase = "provision" /\ Objects!Step = "certUser" /\ UNCHANGED tracked
      BY <1>3 DEF Objects!CertUserUndecoded
    <3>2. at \in Nat /\ (at > 7 => Objects!Step \in Rest(plan))
      BY PlanFacts
    <3>3. "certUser" \notin Rest(plan)
      BY DEF Rest
    <3> QED BY <3>1, <3>2, <3>3
  <2> QED BY <2>1, PlanFacts DEF ProvisionInv
<1>4. CASE Objects!BodyEnds
  <2>1. /\ phase = "body" /\ UNCHANGED <<plan, run, open, objects>>
        /\ todo' = Objects!Cleanup(plan)
    BY <1>4 DEF Objects!BodyEnds, Objects!Teardown
  <2>2. open' /\ Objects!Exists("admin")'
    BY <2>1 DEF BodyInv, Objects!Exists, Objects!Name
  <2> QED BY <1>1, <2>1, <2>2, TeardownStart
<1>5. CASE Objects!Delete
  <2>1. /\ phase = "teardown" /\ UNCHANGED <<plan, tracked>>
        /\ todo # <<>> /\ todo' = Tail(todo)
    BY <1>5 DEF Objects!Delete
  <2>2. left' # left => left' = TRUE
    BY <1>5 DEF Objects!Delete
  <2>3. ~left
    BY <2>2 DEF ObjectTypes
  <2> DEFINE C == Objects!Cleanup(plan)
  <2>4. PICK k \in 1 .. Len(C) + 1 : todo = SubSeq(C, k, Len(C)) /\ DownTo(k)
    BY <2>1, <2>3 DEF TeardownInv
  <2>5. C \in Seq(Objects!Objects \cup {"close"}) /\ Len(C) \in Nat
    BY <1>1, CleanupFacts
  <2>6. k \in 1 .. Len(C) /\ Tail(todo) = SubSeq(C, k + 1, Len(C))
    BY <2>1, <2>4, <2>5, RemainsFacts
  <2>7. DownTo(k + 1)'
    BY <1>5, <2>4, <2>6, DownOne
  <2>8. k + 1 \in 1 .. Len(C) + 1
    BY <2>5, <2>6
  <2>9. \E i \in 1 .. Len(C) + 1 : todo' = SubSeq(C, i, Len(C)) /\ DownTo(i)'
    BY <2>1, <2>6, <2>7, <2>8
  <2> QED BY <2>1, <2>9 DEF TeardownInv
<1>6. CASE \/ Objects!Begin \/ Objects!Clear \/ Objects!StepDone \/ Objects!CertUserWithoutId
           \/ Objects!TornDown \/ Objects!Kill
  BY <1>6 DEF Objects!Begin, Objects!Clear, Objects!StepDone, Objects!CertUserWithoutId,
              Objects!TornDown, Objects!Kill
<1> QED BY <1>2, <1>3, <1>4, <1>5, <1>6 DEF Objects!Next

(* A cleanup that is over has passed every object of the plan.             *)
LEMMA ClearedStep ==
  ASSUME ObjectTypes, TeardownInv, Objects!TrackedTornDown, Objects!Next
  PROVE  Objects!TrackedTornDown'
<1> SUFFICES ASSUME phase' = "done", ~left', tracked' PROVE Objects!Cleared'
  BY DEF Objects!TrackedTornDown
<1>1. Objects!TornDown
  BY DEF Objects!Next, Objects!Begin, Objects!Clear, Objects!StepDone, Objects!StepFails,
         Objects!CertUserUndecoded, Objects!CertUserWithoutId, Objects!BodyEnds, Objects!Delete,
         Objects!Kill, Objects!Teardown
<1>2. /\ phase = "teardown" /\ todo = <<>> /\ ~left /\ tracked
      /\ UNCHANGED <<plan, run, known, objects>>
  BY <1>1 DEF Objects!TornDown
<1> DEFINE C == Objects!Cleanup(plan)
<1>3. PICK k \in 1 .. Len(C) + 1 : todo = SubSeq(C, k, Len(C)) /\ DownTo(k)
  BY <1>2 DEF TeardownInv
<1>4. k = Len(C) + 1
  <2>1. C \in Seq(Objects!Objects \cup {"close"})
    BY PlanFacts, CleanupFacts
  <2> QED BY <1>2, <1>3, <2>1, RemainsFacts
<1>5. \A o \in known : o \in Passed(plan, k)
  BY <1>4 DEF ObjectTypes, Planned
<1>6. Objects!Cleared
  BY <1>3, <1>5 DEF DownTo, Objects!Cleared
<1> QED BY <1>2, <1>6 DEF Objects!Cleared, Objects!Exists, Objects!Name

LEMMA InitObjects == TestsInit => ObjectsInv
<1> SUFFICES ASSUME TestsInit PROVE ObjectsInv
  OBVIOUS
<1>1. Objects!Init
  BY DEF TestsInit
<1>2. ObjectTypes
  <2>1. IsRemains(todo)
    BY <1>1, RemainsLists DEF Objects!Init
  <2>2. /\ plan \in {"a2a", "broker"} /\ 0 \in 0 .. MaxRuns /\ 0 \in 0 .. MaxFaults
    BY <1>1, LiveTestsAssumption DEF Objects!Init, Objects!Assumptions
  <2>3. 1 \in 1 .. Len(Objects!Steps(plan))
    BY <2>2, StepsFacts
  <2> QED BY <1>1, <2>1, <2>2, <2>3 DEF Objects!Init, ObjectTypes
<1>3. ProvisionInv /\ BodyInv /\ TeardownInv
  BY <1>1 DEF Objects!Init, ProvisionInv, BodyInv, TeardownInv
<1>4. Objects!TrackedTornDown /\ Objects!RerunNotBlocked
  BY <1>1 DEF Objects!Init, Objects!TrackedTornDown, Objects!RerunNotBlocked
<1> QED BY <1>2, <1>3, <1>4 DEF ObjectsInv

LEMMA ObjectsTypeOK == ObjectTypes => Objects!TypeOK
<1> SUFFICES ASSUME ObjectTypes PROVE Objects!TypeOK
  OBVIOUS
<1>1. known \subseteq Objects!Objects
  BY DEF ObjectTypes, Planned
<1>2. PICK t \in {Objects!Cleanup(plan), Undoing} :
        \E k \in 1 .. Len(t) + 1 : todo = SubSeq(t, k, Len(t))
  BY DEF ObjectTypes, IsRemains
<1>3. t \in Seq(Objects!Objects \cup {"close"})
  <2>1. Undoing \in Seq(Objects!Objects \cup {"close"})
    BY DEF Undoing, Objects!Objects
  <2>2. Objects!Cleanup(plan) \in Seq(Objects!Objects \cup {"close"})
    BY PlanFacts, CleanupFacts
  <2> QED BY <2>1, <2>2
<1>4. Objects!IsSuffix(todo, t)
  BY <1>2, <1>3, RemainsFacts
<1>5. \/ Objects!IsSuffix(todo, Objects!Cleanup(plan))
      \/ Objects!IsSuffix(todo, <<"admin", "certUser", "trusted">>)
  BY <1>4 DEF Undoing
<1> QED BY <1>1, <1>5 DEF ObjectTypes, Objects!TypeOK

-----------------------------------------------------------------------------
(***************************************************************************)
(* The live tests: the steps of either program keep both invariants.       *)
(***************************************************************************)
LiveInv == ObjectsInv /\ SettingInv

LEMMA LiveInvStep == LiveInv /\ [TestsNext]_testsVars => LiveInv'
<1> SUFFICES ASSUME LiveInv, [TestsNext]_testsVars PROVE LiveInv'
  OBVIOUS
<1>1. ASSUME UNCHANGED settingVars PROVE SettingInv'
  <2>1. UNCHANGED <<setting, initial, testPc, test, original, lost>>
    BY <1>1 DEF settingVars
  <2>2. SettingTypes'
    BY <2>1 DEF LiveInv, SettingInv, SettingTypes, Setting!TypeOK, Setting!Distinct
  <2>3. ASSUME NEW p \in Packages
        PROVE  UNCHANGED Setting!ApplyGrant(original[p], Setting!Test(p).grant,
                                            Setting!Test(p).enabled)
    BY <2>1 DEF Setting!Test, Setting!ApplyGrant, Setting!Without, Setting!HasGrant,
                Setting!EqualFold
  <2>4. ASSUME RestoreInv PROVE RestoreInv'
    BY <2>1, <2>3, <2>4 DEF RestoreInv
  <2>5. (OnePackage => RestoreInv)'
    BY <2>4 DEF LiveInv, SettingInv, OnePackage
  <2> QED BY <2>2, <2>5 DEF SettingInv
<1>2. ASSUME UNCHANGED objectVars PROVE ObjectsInv'
  <2>1. UNCHANGED <<plan, run, phase, at, known, tracked, todo, open, objects, faults, left,
                    conflict>>
    BY <1>2 DEF objectVars
  <2>2. ObjectTypes'
    BY <2>1 DEF LiveInv, ObjectsInv, ObjectTypes, IsRemains
  <2>3. (ProvisionInv /\ BodyInv)'
    BY <2>1 DEF LiveInv, ObjectsInv, ProvisionInv, BodyInv, Objects!Exists, Objects!Name
  <2>4. TeardownInv'
    BY <2>1 DEF LiveInv, ObjectsInv, TeardownInv, DownTo, Objects!Exists, Objects!Name
  <2>5. (Objects!TrackedTornDown /\ Objects!RerunNotBlocked)'
    BY <2>1 DEF LiveInv, ObjectsInv, Objects!TrackedTornDown, Objects!Cleared, Objects!Exists,
                Objects!Name, Objects!RerunNotBlocked
  <2> QED BY <2>2, <2>3, <2>4, <2>5 DEF ObjectsInv
<1>3. CASE Objects!Next /\ UNCHANGED settingVars
  <2>1. ObjectsInv'
    BY <1>3, ObjectTypesStep, ProvisionStep, BodyStep, TeardownStep, ClearedStep, ConflictStep
    DEF LiveInv, ObjectsInv
  <2> QED BY <1>1, <1>3, <2>1 DEF LiveInv
<1>4. CASE Setting!Next /\ UNCHANGED objectVars
  <2>1. SettingInv'
    BY <1>4, SettingTypesStep, RestoreStep DEF LiveInv, SettingInv, OnePackage
  <2> QED BY <1>2, <1>4, <2>1 DEF LiveInv
<1>5. CASE UNCHANGED testsVars
  <2>1. UNCHANGED objectVars /\ UNCHANGED settingVars
    BY <1>5 DEF testsVars
  <2> QED BY <1>1, <1>2, <2>1 DEF LiveInv
<1> QED BY <1>3, <1>4, <1>5 DEF TestsNext

(* The inductive invariant: what a test that provisions, or tears down, has *)
(* on the appliance at each step (livetest.go:177-347, 446-519), and what a *)
(* grant test will put back (livetest.go:126-141).                          *)
THEOREM LiveInvariant == TestsSpec => []LiveInv
<1>1. TestsInit => LiveInv
  BY InitObjects, InitSetting DEF LiveInv
<1> QED BY <1>1, LiveInvStep, PTL DEF TestsSpec

(* livetest.go:274-347, 484-519: whatever is planned, and however many     *)
(* calls fail in however many tests, a test whose temporary admin was      *)
(* connected ends with every object it knows deleted, unless one whose Id  *)
(* never arrived refers to it.                                             *)
THEOREM TornDownWhenTracked == TestsSpec => []TrackedTornDown
<1>1. LiveInv => TrackedTornDown
  BY ObjectsTypeOK DEF LiveInv, ObjectsInv, SettingInv, SettingTypes, TrackedTornDown, TestsTypeOK
<1> QED BY <1>1, LiveInvariant, PTL

(* livetest.go:185-188: no number of interrupted tests makes the next one  *)
(* fail on the certificate they left.                                      *)
THEOREM NeverBlocked == TestsSpec => []RerunNotBlocked
<1>1. LiveInv => RerunNotBlocked
  BY DEF LiveInv, ObjectsInv, RerunNotBlocked
<1> QED BY <1>1, LiveInvariant, PTL

(* livetest.go:120-141: for every list of grants and every list of tests   *)
(* that one package toggles them in.                                       *)
THEOREM SettingAlone == OnePackage => (TestsSpec => []SettingRestored)
<1>1. OnePackage /\ LiveInv => SettingRestored
  BY SettingSafe DEF LiveInv
<1> SUFFICES ASSUME OnePackage PROVE TestsSpec => []SettingRestored
  OBVIOUS
<1>2. LiveInv => SettingRestored
  BY <1>1
<1> QED BY <1>2, LiveInvariant, PTL
=============================================================================
