----------------------------- MODULE A2AProofs -----------------------------
(***************************************************************************)
(* The safety theorems of module A2A, for every set of callers,            *)
(* registrations, accounts and passwords and every bound.  They rest on    *)
(* what an answer that is on its way says about the appliance since the    *)
(* call began, and on what a discovery has yet to ask for.                 *)
(***************************************************************************)
EXTENDS A2A, TLAPS

Contents == SUBSET (Regs \cup Accounts \cup Passwords \cup {Unset, Empty})

TypeInv ==
  /\ TypeOK
  /\ answer \in [Callers -> [kind : Failures \cup {"ok", "none"}, content : Contents]]

(* What has been retrievable ever since the call began is so now, and what *)
(* is so now was so at some moment of the call.                            *)
SeenInv ==
  \A c \in Callers : /\ always[c] \subseteq Retrievable
                     /\ pc[c] # "idle" => Retrievable \subseteq ever[c]

(* What the answer to a discovery's request holds. *)
ListAnswer(c) ==
  pc[c] = "receive" /\ op[c] = "list" /\ answer[c].kind = "ok" =>
    IF asking[c] = Listing
      THEN answer[c].content \subseteq Regs /\ \A e \in always[c] : e[1] \in answer[c].content
      ELSE /\ answer[c].content \subseteq Accounts
           /\ {asking[c]} \X answer[c].content \subseteq ever[c]
           /\ \A e \in always[c] : e[1] = asking[c] => e[2] \in answer[c].content

SecretAnswer(c) ==
  pc[c] = "receive" /\ op[c] = "retrieve" /\ answer[c].kind = "ok" =>
    \E v \in held[c] : answer[c].content = {v}

(* What a discovery under way has gathered, and has yet to ask for. *)
ListInv(c) ==
  /\ out[c] \subseteq ever[c]
  /\ pc[c] # "idle" /\ op[c] = "list" =>
       IF asking[c] = Listing THEN out[c] = Nothing
       ELSE \A e \in always[c] : e \in out[c] \/ e[1] = asking[c] \/ e[1] \in todo[c]

(* A call that was not sent has had no effect, and one answered has. *)
EffectInv(c) ==
  /\ effects[c] <= 1
  /\ pc[c] # "idle" => result[c] = "none"
  /\ pc[c] \in {"check", "send"} => effects[c] = 0
  /\ op[c] \notin Effectful => effects[c] = 0
  /\ op[c] # "list" => out[c] = Nothing
  /\ pc[c] = "receive" /\ op[c] \in Effectful /\ answer[c].kind \in {"ok", "garbled"}
       => effects[c] = 1
  /\ result[c] = "ok" /\ op[c] \in Effectful => effects[c] = 1

OutcomeInv(c) ==
  /\ Discovered(c) => always[c] \subseteq out[c]
  /\ pc[c] = "idle" /\ result[c] \notin {"none", "ok"} => out[c] = Nothing
  /\ pc[c] = "idle" /\ op[c] = "retrieve" /\ result[c] = "ok"
       => \E v \in held[c] : secret[c] = Decoded(v)

CallerInv(c) ==
  ListAnswer(c) /\ SecretAnswer(c) /\ ListInv(c) /\ EffectInv(c) /\ OutcomeInv(c)

IInv == TypeInv /\ SeenInv /\ \A c \in Callers : CallerInv(c)

-----------------------------------------------------------------------------
USE DEF applVars, callerVars, seenVars

(* Going on to the next registration keeps the types. *)
LEMMA GoOnType ==
  ASSUME TypeInv, NEW c \in Callers, NEW left \in SUBSET Regs, GoOn(c, left)
  PROVE  /\ pc' \in [Callers -> {"idle", "check", "send", "receive"}]
         /\ result' \in [Callers -> Failures \cup {"none", "ok", "closed"}]
         /\ todo' \in [Callers -> SUBSET Regs]
         /\ asking' \in [Callers -> Regs \cup {Listing}]
<1>1. CASE left = {}
  BY <1>1 DEF GoOn, Return, TypeInv, TypeOK
<1>2. CASE left # {}
  <2>1. PICK r \in left : /\ asking' = [asking EXCEPT ![c] = r]
                          /\ todo' = [todo EXCEPT ![c] = left \ {r}]
    BY <1>2 DEF GoOn
  <2>2. pc' = [pc EXCEPT ![c] = "check"] /\ UNCHANGED result
    BY <1>2 DEF GoOn
  <2>3. QED
    BY <2>1, <2>2 DEF TypeInv, TypeOK
<1>3. QED
  BY <1>1, <1>2

LEMMA TypeStep == IInv /\ [Next]_vars => TypeInv'
<1> SUFFICES ASSUME IInv, [Next]_vars PROVE TypeInv'
  OBVIOUS
<1> USE OpsAssumption, BoundsAssumption DEF IInv, TypeInv, TypeOK, Contents, Failures
<1>1. CASE UNCHANGED vars
  BY <1>1 DEF vars
<1>2. CASE Close
  BY <1>2 DEF Close
<1>3. CASE Change
  <2>1. /\ regs' \subseteq Regs
        /\ entries' \in [Regs -> SUBSET Accounts]
        /\ Retrievable' \subseteq Regs \X Accounts
    <3>1. regs' \subseteq Regs
      BY <1>3 DEF Change
    <3>2. \/ UNCHANGED entries
          \/ \E r \in Regs, a \in Accounts :
               entries' = [entries EXCEPT ![r] = IF a \in @ THEN @ \ {a} ELSE @ \cup {a}]
      BY <1>3 DEF Change
    <3>3. entries' \in [Regs -> SUBSET Accounts]
      BY <3>2
    <3>4. QED
      BY <3>1, <3>3 DEF Retrievable
  <2>2. stored' \in {Unset, Empty} \cup Passwords /\ changes' \in 0 .. MaxChanges
    BY <1>3 DEF Change
  <2>3. /\ always' \in [Callers -> SUBSET (Regs \X Accounts)]
        /\ ever' \in [Callers -> SUBSET (Regs \X Accounts)]
        /\ held' \in [Callers -> SUBSET ({Unset, Empty} \cup Passwords)]
    BY <1>3, <2>1, <2>2 DEF Change
  <2>4. UNCHANGED <<closed, effects, calls, callerVars>>
    BY <1>3 DEF Change
  <2>5. QED
    BY <2>1, <2>2, <2>3, <2>4
<1>4. ASSUME NEW c \in Callers, Begin(c) PROVE TypeInv'
  <2>1. Retrievable \subseteq Regs \X Accounts
    BY DEF Retrievable
  <2>2. /\ calls' \in 0 .. MaxCalls /\ op' \in [Callers -> Ops]
        /\ pc' \in [Callers -> {"idle", "check", "send", "receive"}]
    BY <1>4 DEF Begin
  <2>3. secret' \in [Callers -> {Empty} \cup Passwords]
    BY <1>4 DEF Begin
  <2>4. /\ todo' \in [Callers -> SUBSET Regs]
        /\ asking' \in [Callers -> Regs \cup {Listing}]
        /\ out' \in [Callers -> SUBSET (Regs \X Accounts)]
        /\ result' \in [Callers -> Failures \cup {"none", "ok", "closed"}]
        /\ effects' \in [Callers -> Nat]
    BY <1>4 DEF Begin, Nothing
  <2>5. /\ always' \in [Callers -> SUBSET (Regs \X Accounts)]
        /\ ever' \in [Callers -> SUBSET (Regs \X Accounts)]
        /\ held' \in [Callers -> SUBSET ({Unset, Empty} \cup Passwords)]
    BY <1>4, <2>1 DEF Begin
  <2>6. UNCHANGED <<closed, regs, entries, stored, changes, answer>>
    BY <1>4 DEF Begin
  <2>7. QED
    BY <2>2, <2>3, <2>4, <2>5, <2>6
<1>5. ASSUME NEW c \in Callers, Check(c) PROVE TypeInv'
  BY <1>5 DEF Check, Fail, Return, Nothing
<1>6. ASSUME NEW c \in Callers, Send(c) PROVE TypeInv'
  <2>1. Content(c) \in Contents
    BY DEF Content, Nothing
  <2>2. /\ stored' \in {Unset, Empty} \cup Passwords
        /\ held' \in [Callers -> SUBSET ({Unset, Empty} \cup Passwords)]
    <3>1. stored' \in {Unset, Empty} \cup Passwords
      BY <1>6 DEF Send
    <3>2. held' = held \/ held' = [d \in Callers |-> held[d] \cup {stored'}]
      BY <1>6 DEF Send
    <3>3. QED
      BY <3>1, <3>2
  <2>3. answer' \in [Callers -> [kind : Failures \cup {"ok", "none"}, content : Contents]]
    <3>1. answer' = answer \/ \E kind \in Failures \cup {"ok"} :
             answer' = [answer EXCEPT ![c] = [kind |-> kind, content |-> Content(c)]]
      BY <1>6 DEF Send
    <3>2. QED
      BY <3>1, <2>1
  <2>4. /\ pc' \in [Callers -> {"idle", "check", "send", "receive"}]
        /\ result' \in [Callers -> Failures \cup {"none", "ok", "closed"}]
        /\ out' \in [Callers -> SUBSET (Regs \X Accounts)]
    BY <1>6 DEF Send, Fail, Return, Nothing
  <2>5. effects' \in [Callers -> Nat]
    BY <1>6 DEF Send
  <2>6. UNCHANGED <<closed, regs, entries, changes, calls, op, secret, todo, asking, always, ever>>
    BY <1>6 DEF Send
  <2>7. QED
    BY <2>2, <2>3, <2>4, <2>5, <2>6
<1>7. ASSUME NEW c \in Callers, ReceiveError(c) PROVE TypeInv'
  BY <1>7 DEF ReceiveError, Fail, Return, Nothing
<1>8. ASSUME NEW c \in Callers, ReceiveDone(c) PROVE TypeInv'
  BY <1>8 DEF ReceiveDone, Return
<1>9. ASSUME NEW c \in Callers, ReceiveSecret(c) PROVE TypeInv'
  BY <1>9 DEF ReceiveSecret, Return, Decoded, CallerInv, SecretAnswer
<1>10. ASSUME NEW c \in Callers, ReceiveRegistrations(c) PROVE TypeInv'
  <2>1. answer[c].content \in SUBSET Regs
    BY <1>10 DEF ReceiveRegistrations, CallerInv, ListAnswer
  <2>2. GoOn(c, answer[c].content)
        /\ UNCHANGED <<closed, applVars, effects, calls, op, secret, answer, out, seenVars>>
    BY <1>10 DEF ReceiveRegistrations
  <2>3. QED
    BY <2>1, <2>2, GoOnType
<1>11. ASSUME NEW c \in Callers, ReceiveAccounts(c) PROVE TypeInv'
  <2>1. {asking[c]} \X answer[c].content \subseteq Regs \X Accounts
    BY <1>11 DEF ReceiveAccounts, CallerInv, ListAnswer
  <2>2. GoOn(c, todo[c]) /\ todo[c] \in SUBSET Regs
        /\ UNCHANGED <<closed, applVars, effects, calls, op, secret, answer, seenVars>>
        /\ out' = [out EXCEPT ![c] = @ \cup ({asking[c]} \X answer[c].content)]
    BY <1>11 DEF ReceiveAccounts
  <2>3. out' \in [Callers -> SUBSET (Regs \X Accounts)]
    BY <2>1, <2>2
  <2>4. QED
    BY <2>2, <2>3, GoOnType
<1>12. QED
  BY <1>1, <1>2, <1>3, <1>4, <1>5, <1>6, <1>7, <1>8, <1>9, <1>10, <1>11 DEF Next, CallerStep
(* The administrator's changes alone make accounts appear and disappear. *)
LEMMA SeenStep == IInv /\ [Next]_vars => SeenInv'
<1> SUFFICES ASSUME IInv, [Next]_vars PROVE SeenInv'
  OBVIOUS
<1> USE DEF IInv, TypeInv, TypeOK, SeenInv
<1>1. CASE Change
  BY <1>1 DEF Change
<1>2. ASSUME NEW c \in Callers, Begin(c) PROVE SeenInv'
  <2>1. /\ Retrievable' = Retrievable /\ always' = [always EXCEPT ![c] = Retrievable]
        /\ ever' = [ever EXCEPT ![c] = Retrievable] /\ pc' = [pc EXCEPT ![c] = "check"]
    BY <1>2 DEF Begin, Retrievable
  <2>2. QED
    BY <2>1
<1>3. ASSUME UNCHANGED <<regs, entries, always, ever>>,
             \A d \in Callers : pc[d] = "idle" => pc'[d] = "idle"
      PROVE  SeenInv'
  <2>1. Retrievable' = Retrievable
    BY <1>3 DEF Retrievable
  <2>2. QED
    BY <1>3, <2>1
<1>4. ASSUME NEW c \in Callers, Check(c) \/ Send(c) \/ ReceiveError(c) \/ ReceiveDone(c)
             \/ ReceiveSecret(c) \/ ReceiveRegistrations(c) \/ ReceiveAccounts(c)
      PROVE  /\ UNCHANGED <<regs, entries, always, ever>>
             /\ \A d \in Callers : pc[d] = "idle" => pc'[d] = "idle"
  BY <1>4 DEF Check, Send, ReceiveError, ReceiveDone, ReceiveSecret, ReceiveRegistrations,
              ReceiveAccounts, GoOn, Fail, Return
<1>5. CASE UNCHANGED vars \/ Close
  BY <1>3, <1>5 DEF vars, Close
<1>6. QED
  BY <1>1, <1>2, <1>3, <1>4, <1>5 DEF Next, CallerStep

(* What a step does not change for a caller, it does not disturb: an       *)
(* administrator only takes from always, and only adds to ever and held.   *)
LEMMA Others ==
  ASSUME IInv, NEW d \in Callers,
         pc'[d] = pc[d], op'[d] = op[d], secret'[d] = secret[d], todo'[d] = todo[d],
         asking'[d] = asking[d], answer'[d] = answer[d], out'[d] = out[d],
         result'[d] = result[d], effects'[d] = effects[d],
         always'[d] \subseteq always[d], ever[d] \subseteq ever'[d], held[d] \subseteq held'[d]
  PROVE  CallerInv(d)'
<1> USE DEF IInv, CallerInv
<1>1. ListAnswer(d)'
  BY DEF ListAnswer
<1>2. SecretAnswer(d)'
  BY DEF SecretAnswer
<1>3. ListInv(d)'
  BY DEF ListInv
<1>4. EffectInv(d)'
  BY DEF EffectInv
<1>5. OutcomeInv(d)'
  BY DEF OutcomeInv, Discovered
<1>6. QED
  BY <1>1, <1>2, <1>3, <1>4, <1>5

(***************************************************************************)
(* The caller that moves.                                                  *)
(***************************************************************************)
LEMMA BeginCaller == ASSUME IInv, NEW c \in Callers, Begin(c) PROVE CallerInv(c)'
<1> USE DEF IInv, TypeInv, TypeOK
<1>1. pc'[c] = "check" /\ out'[c] = Nothing /\ result'[c] = "none" /\ effects'[c] = 0
      /\ asking'[c] = Listing
  BY DEF Begin
<1>2. QED
  BY <1>1 DEF CallerInv, ListAnswer, SecretAnswer, ListInv, EffectInv, OutcomeInv, Discovered,
              Nothing

LEMMA CheckCaller == ASSUME IInv, NEW c \in Callers, Check(c) PROVE CallerInv(c)'
<1> USE DEF IInv, TypeInv, TypeOK
<1>1. pc[c] = "check"
      /\ UNCHANGED <<effects, op, secret, todo, asking, answer, always, ever, held>>
  BY DEF Check
<1>2. CASE closed
  <2>1. pc'[c] = "idle" /\ result'[c] = "closed" /\ out'[c] = Nothing
    BY <1>2 DEF Check, Fail, Return
  <2>2. QED
    BY <1>1, <2>1 DEF CallerInv, ListAnswer, SecretAnswer, ListInv, EffectInv, OutcomeInv,
                      Discovered, Nothing
<1>3. CASE ~closed
  <2>1. pc'[c] = "send" /\ UNCHANGED <<result, out>>
    BY <1>3 DEF Check
  <2>2. QED
    BY <1>1, <2>1 DEF CallerInv, ListAnswer, SecretAnswer, ListInv, EffectInv, OutcomeInv,
                      Discovered
<1>4. QED
  BY <1>2, <1>3
(* An answer holds what the appliance had when the request reached it. *)
LEMMA SendCaller == ASSUME IInv, NEW c \in Callers, Send(c) PROVE CallerInv(c)'
<1> USE DEF IInv, TypeInv, TypeOK
<1>1. pc[c] = "send" /\ effects[c] = 0 /\ result[c] = "none"
      /\ UNCHANGED <<op, secret, todo, asking, always, ever>>
  BY DEF Send, CallerInv, EffectInv
<1>2. CASE closed
  <2>1. /\ pc'[c] = "idle" /\ result'[c] = "closed" /\ out'[c] = Nothing
        /\ UNCHANGED <<effects, answer, held>>
    BY <1>2 DEF Send, Fail, Return
  <2>2. QED
    BY <1>1, <2>1 DEF CallerInv, ListAnswer, SecretAnswer, ListInv, EffectInv, OutcomeInv,
                      Discovered, Nothing
<1>3. CASE ~closed
  <2>1. PICK kind \in Failures \cup {"ok"}, processed \in BOOLEAN :
          /\ kind \in {"ok", "garbled"} => processed
          /\ kind = "ok" /\ op[c] = "list" /\ asking[c] # Listing => asking[c] \in regs
          /\ effects' = [effects EXCEPT ![c] =
                           IF op[c] \in Effectful /\ processed THEN @ + 1 ELSE @]
          /\ stored' = IF op[c] = "set" /\ processed THEN secret[c] ELSE stored
          /\ held' = [d \in Callers |-> held[d] \cup {stored'}]
          /\ answer' = [answer EXCEPT ![c] = [kind |-> kind, content |-> Content(c)]]
    BY <1>3 DEF Send
  <2>2. pc'[c] = "receive" /\ UNCHANGED <<out, result>>
    BY <1>3 DEF Send
  <2>3. answer'[c].kind = kind /\ answer'[c].content = Content(c)
    BY <2>1
  <2>4. ListAnswer(c)'
    <3> SUFFICES ASSUME op[c] = "list", kind = "ok" PROVE ListAnswer(c)'
      BY <1>1, <2>3 DEF ListAnswer
    <3>1. Content(c) = IF asking[c] = Listing THEN regs ELSE entries[asking[c]]
      BY DEF Content, Effectful
    <3>2. \A e \in always[c] : e[1] \in regs /\ e[2] \in entries[e[1]]
      BY DEF SeenInv, Retrievable
    <3>3. CASE asking[c] = Listing
      BY <1>1, <2>3, <3>1, <3>2, <3>3 DEF ListAnswer
    <3>4. CASE asking[c] # Listing
      <4>1. asking[c] \in regs
        BY <2>1, <3>4
      <4>2. {asking[c]} \X entries[asking[c]] \subseteq ever[c]
        BY <1>1, <4>1 DEF SeenInv, Retrievable
      <4>3. QED
        BY <1>1, <2>3, <3>1, <3>2, <3>4, <4>1, <4>2 DEF ListAnswer
    <3>5. QED
      BY <3>3, <3>4
  <2>5. SecretAnswer(c)'
    <3>1. op[c] = "retrieve" => Content(c) = {stored} /\ stored' = stored
      BY <2>1 DEF Content, Effectful
    <3>2. stored' \in held'[c]
      BY <2>1
    <3>3. QED
      BY <1>1, <2>3, <3>1, <3>2 DEF SecretAnswer
  <2>6. ListInv(c)'
    BY <1>1, <2>2 DEF CallerInv, ListInv
  <2>7. EffectInv(c)'
    <3>1. effects'[c] = IF op[c] \in Effectful /\ processed THEN 1 ELSE 0
      BY <1>1, <2>1
    <3>2. QED
      BY <1>1, <2>1, <2>2, <2>3, <3>1 DEF CallerInv, EffectInv
  <2>8. OutcomeInv(c)'
    BY <2>2 DEF OutcomeInv, Discovered
  <2>9. QED
    BY <2>4, <2>5, <2>6, <2>7, <2>8 DEF CallerInv
<1>4. QED
  BY <1>2, <1>3

LEMMA ErrorCaller == ASSUME IInv, NEW c \in Callers, ReceiveError(c) PROVE CallerInv(c)'
<1> USE DEF IInv, TypeInv, TypeOK
<1>1. /\ pc'[c] = "idle" /\ result'[c] \in Failures /\ out'[c] = Nothing
      /\ UNCHANGED <<effects, op, secret, todo, asking, answer, always, ever, held>>
  BY DEF ReceiveError, Fail, Return
<1>2. result'[c] \notin {"none", "ok"}
  BY <1>1 DEF Failures
<1>3. QED
  BY <1>1, <1>2 DEF CallerInv, ListAnswer, SecretAnswer, ListInv, EffectInv, OutcomeInv,
                    Discovered, Nothing

LEMMA DoneCaller == ASSUME IInv, NEW c \in Callers, ReceiveDone(c) PROVE CallerInv(c)'
<1> USE DEF IInv, TypeInv, TypeOK
<1>1. /\ pc[c] = "receive" /\ op[c] \in Effectful /\ answer[c].kind \in {"ok", "garbled"}
      /\ pc'[c] = "idle" /\ result'[c] = "ok"
      /\ UNCHANGED <<effects, op, secret, todo, asking, answer, out, always, ever, held>>
  BY DEF ReceiveDone, Return, Effectful
<1>2. op[c] \notin {"list", "retrieve"}
  BY <1>1 DEF Effectful
<1>3. effects[c] = 1
  BY <1>1 DEF CallerInv, EffectInv
<1>4. QED
  BY <1>1, <1>2, <1>3 DEF CallerInv, ListAnswer, SecretAnswer, ListInv, EffectInv, OutcomeInv,
                    Discovered

LEMMA SecretCaller == ASSUME IInv, NEW c \in Callers, ReceiveSecret(c) PROVE CallerInv(c)'
<1> USE DEF IInv, TypeInv, TypeOK
<1>1. /\ pc[c] = "receive" /\ op[c] = "retrieve" /\ answer[c].kind = "ok"
      /\ pc'[c] = "idle" /\ result'[c] = "ok"
      /\ UNCHANGED <<effects, op, todo, asking, answer, out, always, ever, held>>
  BY DEF ReceiveSecret, Return
<1>2. PICK v \in answer[c].content : secret'[c] = Decoded(v)
  BY DEF ReceiveSecret
<1>3. v \in held[c]
  BY <1>1 DEF CallerInv, SecretAnswer
<1>4. op[c] \notin Effectful
  BY <1>1 DEF Effectful
<1>5. QED
  BY <1>1, <1>2, <1>3, <1>4 DEF CallerInv, ListAnswer, SecretAnswer, ListInv, EffectInv, OutcomeInv,
                    Discovered
(* The registrations on the list hold every account that was there then. *)
LEMMA RegistrationsCaller ==
  ASSUME IInv, NEW c \in Callers, ReceiveRegistrations(c) PROVE CallerInv(c)'
<1> USE DEF IInv, TypeInv, TypeOK
<1> DEFINE listed == answer[c].content
<1>1. /\ pc[c] = "receive" /\ op[c] = "list" /\ answer[c].kind = "ok" /\ asking[c] = Listing
      /\ GoOn(c, listed)
      /\ UNCHANGED <<effects, op, secret, answer, out, always, ever, held>>
  BY DEF ReceiveRegistrations
<1>2. /\ listed \subseteq Regs
      /\ \A e \in always[c] : e[1] \in listed
  BY <1>1 DEF CallerInv, ListAnswer
<1>3. CASE listed = {}
  <2>1. pc'[c] = "idle" /\ result'[c] = "ok"
    BY <1>1, <1>3 DEF GoOn, Return
  <2>2. always[c] = {}
    BY <1>2, <1>3
  <2>3. QED
    BY <1>1, <2>1, <2>2 DEF CallerInv, ListAnswer, SecretAnswer, ListInv, EffectInv, OutcomeInv,
                            Discovered, Effectful
<1>4. CASE listed # {}
  <2>1. PICK r \in listed : /\ asking' = [asking EXCEPT ![c] = r]
                            /\ todo' = [todo EXCEPT ![c] = listed \ {r}]
    BY <1>1, <1>4 DEF GoOn
  <2>2. pc'[c] = "check" /\ UNCHANGED result
    BY <1>1, <1>4 DEF GoOn
  <2>3. ListInv(c)'
    <3>1. asking'[c] = r /\ r # Listing /\ todo'[c] = listed \ {r}
      BY <1>2, <2>1, RegsAssumption
    <3>2. \A e \in always[c] : e[1] = r \/ e[1] \in listed \ {r}
      BY <1>2
    <3>3. QED
      BY <1>1, <3>1, <3>2 DEF CallerInv, ListInv
  <2>4. QED
    BY <1>1, <2>2, <2>3 DEF CallerInv, ListAnswer, SecretAnswer, EffectInv, OutcomeInv,
                            Discovered, Effectful
<1>5. QED
  BY <1>3, <1>4

(* The accounts of one registration complete what it holds. *)
LEMMA AccountsCaller ==
  ASSUME IInv, NEW c \in Callers, ReceiveAccounts(c) PROVE CallerInv(c)'
<1> USE DEF IInv, TypeInv, TypeOK
<1> DEFINE found == {asking[c]} \X answer[c].content
<1>1. /\ pc[c] = "receive" /\ op[c] = "list" /\ answer[c].kind = "ok" /\ asking[c] # Listing
      /\ GoOn(c, todo[c])
      /\ out'[c] = out[c] \cup found
      /\ UNCHANGED <<effects, op, secret, answer, always, ever, held>>
  BY DEF ReceiveAccounts
<1>2. found \subseteq ever[c]
  BY <1>1 DEF CallerInv, ListAnswer
<1>3. \A e \in always[c] : e \in out'[c] \/ e[1] \in todo[c]
  <2>1. SUFFICES ASSUME NEW e \in always[c], e \notin out[c], e[1] \notin todo[c]
                 PROVE  e \in found
    BY <1>1
  <2>2. e[1] = asking[c]
    BY <1>1, <2>1 DEF CallerInv, ListInv
  <2>3. e[2] \in answer[c].content
    BY <1>1, <2>2 DEF CallerInv, ListAnswer
  <2>4. e = <<e[1], e[2]>>
    BY <2>1
  <2>5. QED
    BY <2>2, <2>3, <2>4
<1>4. CASE todo[c] = {}
  <2>1. pc'[c] = "idle" /\ result'[c] = "ok"
    BY <1>1, <1>4 DEF GoOn, Return
  <2>2. always[c] \subseteq out'[c]
    BY <1>3, <1>4
  <2>3. out'[c] \subseteq ever[c]
    BY <1>1, <1>2 DEF CallerInv, ListInv
  <2>4. QED
    BY <1>1, <2>1, <2>2, <2>3 DEF CallerInv, ListAnswer, SecretAnswer, ListInv, EffectInv,
                                  OutcomeInv, Discovered, Effectful
<1>5. CASE todo[c] # {}
  <2>1. PICK r \in todo[c] : /\ asking' = [asking EXCEPT ![c] = r]
                             /\ todo' = [todo EXCEPT ![c] = todo[c] \ {r}]
    BY <1>1, <1>5 DEF GoOn
  <2>2. pc'[c] = "check" /\ UNCHANGED result
    BY <1>1, <1>5 DEF GoOn
  <2>3. ListInv(c)'
    <3>1. asking'[c] = r /\ r # Listing /\ todo'[c] = todo[c] \ {r}
      BY <2>1, RegsAssumption
    <3>2. \A e \in always[c] : e \in out'[c] \/ e[1] = r \/ e[1] \in todo'[c]
      BY <1>3, <3>1
    <3>3. out'[c] \subseteq ever[c]
      BY <1>1, <1>2 DEF CallerInv, ListInv
    <3>4. QED
      BY <1>1, <3>1, <3>2, <3>3 DEF ListInv
  <2>4. QED
    BY <1>1, <2>2, <2>3 DEF CallerInv, ListAnswer, SecretAnswer, EffectInv, OutcomeInv,
                            Discovered, Effectful
<1>6. QED
  BY <1>4, <1>5

-----------------------------------------------------------------------------
LEMMA InitIInv == Init => IInv
<1> SUFFICES ASSUME Init PROVE IInv
  OBVIOUS
<1> USE DEF Init
<1>1. TypeInv
  <2>1. op \in [Callers -> Ops]
    <3>1. (CHOOSE o \in Ops : TRUE) \in Ops
      BY OpsAssumption
    <3>2. QED
      BY <3>1
  <2>2. answer \in [Callers -> [kind : Failures \cup {"ok", "none"}, content : Contents]]
    BY DEF Contents, Nothing
  <2>3. changes \in 0 .. MaxChanges /\ calls \in 0 .. MaxCalls
    BY BoundsAssumption
  <2>4. /\ effects \in [Callers -> Nat]
        /\ held \in [Callers -> SUBSET ({Unset, Empty} \cup Passwords)]
        /\ always \in [Callers -> SUBSET (Regs \X Accounts)]
        /\ ever \in [Callers -> SUBSET (Regs \X Accounts)]
    OBVIOUS
  <2>5. QED
    BY <2>1, <2>2, <2>3, <2>4 DEF TypeInv, TypeOK, Nothing
<1>2. SeenInv
  BY DEF SeenInv
<1>3. ASSUME NEW c \in Callers PROVE CallerInv(c)
  BY DEF CallerInv, ListAnswer, SecretAnswer, ListInv, EffectInv, OutcomeInv, Discovered, Nothing
<1>4. QED
  BY <1>1, <1>2, <1>3 DEF IInv

LEMMA NextIInv == IInv /\ [Next]_vars => IInv'
<1> SUFFICES ASSUME IInv, [Next]_vars PROVE IInv'
  OBVIOUS
<1>1. TypeInv' /\ SeenInv'
  BY TypeStep, SeenStep
<1> SUFFICES ASSUME NEW d \in Callers PROVE CallerInv(d)'
  BY <1>1 DEF IInv
<1> USE DEF TypeInv, TypeOK
<1>2. CASE Change
  <2>1. /\ always'[d] \subseteq always[d]
        /\ ever[d] \subseteq ever'[d]
        /\ held[d] \subseteq held'[d]
    BY <1>2 DEF Change
  <2>2. QED
    BY <1>2, <2>1, Others DEF Change
<1>3. CASE Close \/ UNCHANGED vars
  BY <1>3, Others DEF Close, vars
<1>4. ASSUME NEW c \in Callers, CallerStep(c) PROVE CallerInv(d)'
  <2>1. CASE c = d
    BY <1>4, <2>1, BeginCaller, CheckCaller, SendCaller, ErrorCaller, DoneCaller, SecretCaller,
       RegistrationsCaller, AccountsCaller DEF CallerStep
  <2>2. CASE c # d
    <3> USE DEF IInv
    <3>1. CASE Begin(c)
      BY <2>2, <3>1, Others DEF Begin
    <3>2. CASE Check(c)
      BY <2>2, <3>2, Others DEF Check, Fail, Return
    <3>3. CASE Send(c)
      <4>1. held[d] \subseteq held'[d]
        BY <3>3 DEF Send
      <4>2. QED
        BY <2>2, <3>3, <4>1, Others DEF Send, Fail, Return
    <3>4. CASE ReceiveError(c)
      BY <2>2, <3>4, Others DEF ReceiveError, Fail, Return
    <3>5. CASE ReceiveDone(c) \/ ReceiveSecret(c)
      BY <2>2, <3>5, Others DEF ReceiveDone, ReceiveSecret, Return
    <3>6. CASE ReceiveRegistrations(c)
      BY <2>2, <3>6, Others DEF ReceiveRegistrations, GoOn, Return
    <3>7. CASE ReceiveAccounts(c)
      BY <2>2, <3>7, Others DEF ReceiveAccounts, GoOn, Return
    <3>8. QED
      BY <1>4, <3>1, <3>2, <3>3, <3>4, <3>5, <3>6, <3>7 DEF CallerStep
  <2>3. QED
    BY <2>1, <2>2
<1>5. QED
  BY <1>2, <1>3, <1>4 DEF Next

(* What the properties say is in the invariant. *)
LEMMA IInvImplies == IInv => TypeOK /\ EffectOnce /\ DiscoveryIsTrue /\ RetrievedWasStored
<1> SUFFICES ASSUME IInv PROVE TypeOK /\ EffectOnce /\ DiscoveryIsTrue /\ RetrievedWasStored
  OBVIOUS
<1> USE DEF IInv, TypeInv, CallerInv
<1>1. EffectOnce
  BY DEF EffectInv, EffectOnce
<1>2. DiscoveryIsTrue
  BY DEF ListInv, OutcomeInv, DiscoveryIsTrue, NoAccountMissed, AllOrNothing, NoAccountInvented
<1>3. RetrievedWasStored
  BY DEF OutcomeInv, RetrievedWasStored
<1>4. QED
  BY <1>1, <1>2, <1>3

(***************************************************************************)
(* Theorems                                                                *)
(***************************************************************************)

(* Every state a context and its callers can reach keeps the invariant.    *)
THEOREM Invariance == Spec => []IInv
<1>1. QED
  BY InitIInv, NextIInv, PTL DEF Spec

(* Every variable of module A2A stays in its range (a2a.go:93-646).        *)
THEOREM TypeCorrect == Spec => []TypeOK
<1>1. QED
  BY Invariance, IInvImplies, PTL

(* No call stores a password or brokers a request twice, however its       *)
(* answer is lost or garbled (a2a.go:599-603).                             *)
THEOREM EffectsHappenOnce == Spec => []EffectOnce
<1>1. QED
  BY Invariance, IInvImplies, PTL

(* A discovery is complete and true, or empty and an error, whatever the   *)
(* administrator does meanwhile (a2a.go:272-328).                          *)
THEOREM DiscoveryIsComplete == Spec => []DiscoveryIsTrue
<1>1. QED
  BY Invariance, IInvImplies, PTL

(* A password returned is one the account had during the call              *)
(* (a2a.go:178-200).                                                       *)
THEOREM RetrievedIsCurrent == Spec => []RetrievedWasStored
<1>1. QED
  BY Invariance, IInvImplies, PTL
=============================================================================
