-------------------------------- MODULE A2A --------------------------------
(***************************************************************************)
(* Calls of an A2A context (a2a.go:93-646): discovery, which lists the     *)
(* registrations and then the accounts of each, and the single calls:      *)
(* retrieving a credential, and storing one or brokering an access         *)
(* request, which must not happen twice.                                   *)
(*                                                                         *)
(* The appliance is external.  Its administrator changes registrations     *)
(* between any two calls; an answer may be refused, garbled or lost, after *)
(* the appliance did what it was asked as well as before.                  *)
(***************************************************************************)
EXTENDS Naturals, FiniteSets

CONSTANTS
  Callers,     \* goroutines that share the context
  Regs,        \* registrations
  Accounts,    \* accounts, each with the API key of its registration
  Passwords,   \* non-empty passwords of the one account calls read and write
  Ops,         \* the calls made: "list", "retrieve", "set" or "broker"
  MaxCalls,    \* bound: calls begun
  MaxChanges   \* bound: changes the administrator makes

ASSUME OpsAssumption == Ops # {} /\ Ops \subseteq {"list", "retrieve", "set", "broker"}
ASSUME BoundsAssumption == MaxCalls \in Nat /\ MaxChanges \in Nat

VARIABLES
  closed,   \* A2AContext.closed, and its pools with it
  regs,     \* the registrations of the certificate
  entries,  \* the retrievable accounts of each registration
  stored,   \* the password the appliance holds, or Unset
  effects,  \* changes to the appliance made by each caller's present call
  changes,  \* changes made
  calls,    \* calls begun
  pc,       \* a caller: "idle", "check", "send" or "receive"
  op,       \* its call
  secret,   \* set: the password to store; retrieve: the one returned
  todo,     \* list: registrations still to ask for
  asking,   \* list: what the present request asks for
  answer,   \* the answer on its way
  out,      \* list: the entries gathered
  result,   \* what the call returned: "none", "ok" or an error
  always,   \* entries retrievable ever since the call began
  ever,     \* entries retrievable at some moment since
  held      \* passwords stored at some moment since

applVars   == <<regs, entries, stored, changes>>
callerVars == <<pc, op, secret, todo, asking, answer, out, result>>
seenVars   == <<always, ever, held>>
vars == <<closed, applVars, effects, calls, callerVars, seenVars>>

Listing == "A2ARegistrations"  \* the request that lists the registrations
ASSUME RegsAssumption == Listing \notin Regs

Nothing == {}
Unset == "unset"
Empty == "empty"
Retrievable == {e \in Regs \X Accounts : e[1] \in regs /\ e[2] \in entries[e[1]]}
Failures == {"lost", "refused", "garbled"}
Effectful == {"set", "broker"}

(* An empty body is an empty Secret, as the empty string is. *)
Decoded(body) == IF body = Unset THEN Empty ELSE body

Init ==
  /\ closed = FALSE
  /\ regs \in SUBSET Regs
  /\ entries \in [Regs -> SUBSET Accounts]
  /\ effects = [c \in Callers |-> 0]
  /\ stored \in {Unset} \cup Passwords
  /\ changes = 0 /\ calls = 0
  /\ pc = [c \in Callers |-> "idle"]
  /\ op = [c \in Callers |-> CHOOSE o \in Ops : TRUE]
  /\ secret = [c \in Callers |-> Empty]
  /\ todo = [c \in Callers |-> {}]
  /\ asking = [c \in Callers |-> Listing]
  /\ answer = [c \in Callers |-> [kind |-> "none", content |-> Nothing]]
  /\ out = [c \in Callers |-> Nothing]
  /\ result = [c \in Callers |-> "none"]
  /\ always = [c \in Callers |-> {}] /\ ever = [c \in Callers |-> {}]
  /\ held = [c \in Callers |-> {}]

(***************************************************************************)
(* The caller.                                                             *)
(***************************************************************************)
Begin(c) ==
  /\ pc[c] = "idle"
  /\ calls < MaxCalls
  /\ calls' = calls + 1
  /\ \E what \in Ops : op' = [op EXCEPT ![c] = what]
  /\ IF op'[c] = "set" THEN \E p \in Passwords \cup {Empty} : secret' = [secret EXCEPT ![c] = p]
     ELSE UNCHANGED secret
  /\ pc' = [pc EXCEPT ![c] = "check"]
  /\ todo' = [todo EXCEPT ![c] = {}]
  /\ asking' = [asking EXCEPT ![c] = Listing]
  /\ out' = [out EXCEPT ![c] = Nothing]
  /\ result' = [result EXCEPT ![c] = "none"]
  /\ effects' = [effects EXCEPT ![c] = 0]
  /\ always' = [always EXCEPT ![c] = Retrievable]
  /\ ever' = [ever EXCEPT ![c] = Retrievable]
  /\ held' = [held EXCEPT ![c] = {stored}]
  /\ UNCHANGED <<closed, applVars, answer>>

Return(c, r) ==
  /\ pc' = [pc EXCEPT ![c] = "idle"]
  /\ result' = [result EXCEPT ![c] = r]

(* An error returns no entries. *)
Fail(c, r) ==
  /\ Return(c, r)
  /\ out' = [out EXCEPT ![c] = Nothing]

(* doService up to the transport; both flags it looks at are closed's. *)
Check(c) ==
  /\ pc[c] = "check"
  /\ \/ closed /\ Fail(c, "closed")
     \/ ~closed /\ pc' = [pc EXCEPT ![c] = "send"] /\ UNCHANGED <<out, result>>
  /\ UNCHANGED <<closed, applVars, effects, calls, op, secret, todo, asking, answer, seenVars>>

(* The appliance's content for the present request. *)
Content(c) ==
  IF op[c] \in Effectful THEN Nothing
  ELSE IF op[c] = "retrieve" THEN {stored}
  ELSE IF asking[c] = Listing THEN regs
  ELSE entries[asking[c]]

(* transports.do: the request reaches the appliance, or does not. *)
Send(c) ==
  /\ pc[c] = "send"
  /\ \/ /\ closed
        /\ Fail(c, "closed")
        /\ UNCHANGED <<effects, answer, stored, held>>
     \/ /\ ~closed
        /\ pc' = [pc EXCEPT ![c] = "receive"]
        /\ \E kind \in Failures \cup {"ok"}, processed \in BOOLEAN :
             /\ kind \in {"ok", "garbled"} => processed
             /\ kind = "refused" => ~processed
             /\ kind = "ok" /\ op[c] = "list" /\ asking[c] # Listing => asking[c] \in regs
             /\ effects' = [effects EXCEPT ![c] =
                              IF op[c] \in Effectful /\ processed THEN @ + 1 ELSE @]
             /\ stored' = IF op[c] = "set" /\ processed THEN secret[c] ELSE stored
             /\ held' = [d \in Callers |-> held[d] \cup {stored'}]
             /\ answer' = [answer EXCEPT ![c] = [kind |-> kind, content |-> Content(c)]]
        /\ UNCHANGED <<out, result>>
  /\ UNCHANGED <<closed, regs, entries, changes, calls, op, secret, todo, asking, always, ever>>

(* The next registration, or the end. *)
GoOn(c, left) ==
  IF left = {} THEN Return(c, "ok") /\ UNCHANGED <<todo, asking>>
  ELSE /\ \E r \in left : asking' = [asking EXCEPT ![c] = r] /\ todo' = [todo EXCEPT ![c] = left \ {r}]
       /\ pc' = [pc EXCEPT ![c] = "check"]
       /\ UNCHANGED result

\* Mutant: a lost answer is asked for again, as Invoke replays a 401.
ReceiveReplaying(c) ==
  /\ pc[c] = "receive" /\ answer[c].kind = "lost" /\ effects[c] < 2
  /\ pc' = [pc EXCEPT ![c] = "check"]
  /\ UNCHANGED <<closed, applVars, effects, calls, op, secret, todo, asking, answer, out, result, seenVars>>

ReceiveError(c) ==
  /\ pc[c] = "receive" /\ answer[c].kind \in Failures
  /\ op[c] = "set" => answer[c].kind # "garbled"
  /\ Fail(c, answer[c].kind)
  /\ UNCHANGED <<closed, applVars, effects, calls, op, secret, todo, asking, answer, seenVars>>

(* The body of the answer to a set is not looked at. *)
ReceiveDone(c) ==
  /\ pc[c] = "receive"
  /\ \/ op[c] = "broker" /\ answer[c].kind = "ok"
     \/ op[c] = "set" /\ answer[c].kind \in {"ok", "garbled"}
  /\ Return(c, "ok")
  /\ UNCHANGED <<closed, applVars, effects, calls, op, secret, todo, asking, answer, out, seenVars>>

\* Mutant: a password the caller holds already is returned again.
ReceiveCached(c) ==
  /\ pc[c] = "receive" /\ op[c] = "retrieve" /\ answer[c].kind = "ok"
  /\ Return(c, "ok")
  /\ \E v \in answer[c].content :
       secret' = [secret EXCEPT ![c] = IF @ = Empty THEN Decoded(v) ELSE @]
  /\ UNCHANGED <<closed, applVars, effects, calls, op, todo, asking, answer, out, seenVars>>

ReceiveSecret(c) ==
  /\ pc[c] = "receive" /\ op[c] = "retrieve" /\ answer[c].kind = "ok"
  /\ Return(c, "ok")
  /\ \E v \in answer[c].content : secret' = [secret EXCEPT ![c] = Decoded(v)]
  /\ UNCHANGED <<closed, applVars, effects, calls, op, todo, asking, answer, out, seenVars>>

ReceiveRegistrations(c) ==
  /\ pc[c] = "receive" /\ op[c] = "list" /\ answer[c].kind = "ok" /\ asking[c] = Listing
  /\ GoOn(c, answer[c].content)
  /\ UNCHANGED <<closed, applVars, effects, calls, op, secret, answer, out, seenVars>>

\* Mutant: a registration the appliance refuses is skipped.
ReceiveSkipping(c) ==
  /\ pc[c] = "receive" /\ op[c] = "list" /\ asking[c] # Listing
  /\ out' = [out EXCEPT ![c] = IF answer[c].kind = "ok"
                                 THEN @ \cup ({asking[c]} \X answer[c].content) ELSE @]
  /\ GoOn(c, todo[c])
  /\ UNCHANGED <<closed, applVars, effects, calls, op, secret, answer, seenVars>>

ReceiveAccounts(c) ==
  /\ pc[c] = "receive" /\ op[c] = "list" /\ answer[c].kind = "ok" /\ asking[c] # Listing
  /\ out' = [out EXCEPT ![c] = @ \cup ({asking[c]} \X answer[c].content)]
  /\ GoOn(c, todo[c])
  /\ UNCHANGED <<closed, applVars, effects, calls, op, secret, answer, seenVars>>

Close ==
  /\ ~closed
  /\ closed' = TRUE
  /\ UNCHANGED <<applVars, effects, calls, callerVars, seenVars>>

(***************************************************************************)
(* The administrator.                                                      *)
(***************************************************************************)
Change ==
  /\ changes < MaxChanges
  /\ changes' = changes + 1
  /\ \/ /\ \E r \in Regs : regs' = IF r \in regs THEN regs \ {r} ELSE regs \cup {r}
        /\ UNCHANGED <<entries, stored>>
     \/ /\ \E r \in Regs, a \in Accounts :
             entries' = [entries EXCEPT ![r] = IF a \in @ THEN @ \ {a} ELSE @ \cup {a}]
        /\ UNCHANGED <<regs, stored>>
     \/ /\ stored' \in ({Unset} \cup Passwords) \ {stored}
        /\ UNCHANGED <<regs, entries>>
  /\ always' = [c \in Callers |-> always[c] \cap Retrievable']
  /\ ever' = [c \in Callers |-> ever[c] \cup Retrievable']
  /\ held' = [c \in Callers |-> held[c] \cup {stored'}]
  /\ UNCHANGED <<closed, effects, calls, callerVars>>

CallerStep(c) ==
  \/ Begin(c) \/ Check(c) \/ Send(c)
  \/ ReceiveError(c) \/ ReceiveDone(c) \/ ReceiveSecret(c)
  \/ ReceiveRegistrations(c) \/ ReceiveAccounts(c)

Next == Change \/ Close \/ \E c \in Callers : CallerStep(c)

Spec == Init /\ [][Next]_vars

-----------------------------------------------------------------------------
(***************************************************************************)
(* Properties                                                              *)
(***************************************************************************)

(* Every variable stays in its range. *)
TypeOK ==
  /\ closed \in BOOLEAN
  /\ regs \subseteq Regs /\ entries \in [Regs -> SUBSET Accounts]
  /\ stored \in {Unset, Empty} \cup Passwords
  /\ effects \in [Callers -> Nat]
  /\ changes \in 0 .. MaxChanges /\ calls \in 0 .. MaxCalls
  /\ pc \in [Callers -> {"idle", "check", "send", "receive"}]
  /\ op \in [Callers -> Ops]
  /\ secret \in [Callers -> {Empty} \cup Passwords]
  /\ todo \in [Callers -> SUBSET Regs]
  /\ asking \in [Callers -> Regs \cup {Listing}]
  /\ out \in [Callers -> SUBSET (Regs \X Accounts)]
  /\ result \in [Callers -> Failures \cup {"none", "ok", "closed"}]
  /\ always \in [Callers -> SUBSET (Regs \X Accounts)]
  /\ ever \in [Callers -> SUBSET (Regs \X Accounts)]
  /\ held \in [Callers -> SUBSET ({Unset, Empty} \cup Passwords)]

Discovered(c) == pc[c] = "idle" /\ op[c] = "list" /\ result[c] = "ok"

(* A discovery that succeeds holds every account that was retrievable from *)
(* its beginning to its end, however registrations changed meanwhile       *)
(* (a2a.go:272-274).                                                       *)
NoAccountMissed == \A c \in Callers : Discovered(c) => always[c] \subseteq out[c]

(* A discovery that fails, or that Close interrupts, returns no account    *)
(* (a2a.go:285-328).                                                       *)
AllOrNothing ==
  \A c \in Callers : pc[c] = "idle" /\ result[c] \notin {"none", "ok"} => out[c] = Nothing

(* A call stores a password or creates an access request at most once,     *)
(* whatever becomes of its answer, and ok says that it did (a2a.go:599-603).*)
EffectOnce ==
  \A c \in Callers : /\ effects[c] <= 1
                     /\ op[c] \in Effectful /\ result[c] = "ok" => effects[c] = 1

(* A password retrieved is one the account had while the call ran, however *)
(* others set and change it meanwhile (a2a.go:178-200).                    *)
RetrievedWasStored ==
  \A c \in Callers : pc[c] = "idle" /\ op[c] = "retrieve" /\ result[c] = "ok"
                     => \E v \in held[c] : secret[c] = Decoded(v)

(* Each account found was retrievable at some moment of the discovery      *)
(* (a2a.go:236-241, 279-283).                                              *)
NoAccountInvented == \A c \in Callers : out[c] \subseteq ever[c]

(* All three: a discovery is complete and true, or empty and an error.     *)
DiscoveryIsTrue == NoAccountMissed /\ AllOrNothing /\ NoAccountInvented
=============================================================================
