--------------------------- MODULE SecretBuffers ---------------------------
(***************************************************************************)
(* Who holds which backing array of a Secret (secret.go).  A Secret is a   *)
(* Go value: assigning one, passing it and storing it share its array,     *)
(* NewSecret and Expose copy it, and Zero wipes it under every holder.     *)
(*                                                                         *)
(* A caller hands a credential's secret and an A2A key to the library and  *)
(* may wipe its own afterwards; a login copies what it needs, the session  *)
(* changes while requests hold its token, and a refresh that was           *)
(* superseded wipes what it minted.                                        *)
(***************************************************************************)
EXTENDS Naturals, FiniteSets

CONSTANTS
  Buffers,   \* backing arrays the heap has room for
  Requests,  \* requests in flight at once
  MaxGen     \* bound: sessions installed or ended

ASSUME MaxGenAssumption == MaxGen \in Nat

None == "none"
ASSUME NoneAssumption == None \notin Buffers

(* The caller has made its two Secrets before it hands them over. *)
ASSUME BuffersAssumption == \E a, b \in Buffers : a # b

Handed == {"secret", "key"}
Plain == {"secret", "key", "token"}

VARIABLES
  kind,        \* the credential: "password" or "token"
  heap,        \* what each array holds: plain text, "wiped" or "free"
  caller,      \* the caller's own Secrets
  credential,  \* the array the Credential keeps
  session,     \* the array of tokenState.token
  generation,  \* of the session
  ended,       \* Logout or Close installed the terminal epoch
  login,       \* establish: "idle", "asking" or "fresh"
  observed,    \* the generation doRefresh saw
  exposed,     \* establish: the copy of the password it sends
  fresh,       \* establish: the array of the session it returned
  listener,    \* the array the A2A event connection keeps
  auth,        \* the array a request's authorization holds
  header,      \* what the request's last Authorization header was made of
  displaced,   \* arrays the library gave to the garbage collector on purpose
  forgotten    \* arrays it dropped in clear without a word

loginVars == <<login, observed, exposed, fresh>>
vars == <<kind, heap, caller, credential, session, generation, ended, loginVars,
          listener, auth, header, displaced, forgotten>>

Held == {caller[h] : h \in Handed} \cup {auth[r] : r \in Requests}
          \cup {credential, session, exposed, fresh, listener}
Free == {b \in Buffers : heap[b] = "free"}
Fresh == CHOOSE b \in Free : TRUE    \* make; which array it is does not matter
Wiped(h, gone) == [b \in Buffers |-> IF b \in gone THEN "wiped" ELSE h[b]]

Init ==
  /\ kind \in {"password", "token"}
  /\ caller = CHOOSE b \in [Handed -> Buffers] : b["secret"] # b["key"]
  /\ heap = [b \in Buffers |-> CASE b = caller["key"] -> "key"
                                 [] b = caller["secret"] -> (IF kind = "token" THEN "token" ELSE "secret")
                                 [] OTHER -> "free"]
  /\ credential = None /\ session = None /\ listener = None
  /\ generation = 0 /\ ended = FALSE
  /\ login = "idle" /\ observed = 0 /\ exposed = None /\ fresh = None
  /\ auth = [r \in Requests |-> None]
  /\ header = [r \in Requests |-> None]
  /\ displaced = {} /\ forgotten = {}

(***************************************************************************)
(* The caller.                                                             *)
(***************************************************************************)
CallerZeroes(h) ==
  /\ caller[h] # None
  /\ heap' = Wiped(heap, {caller[h]})
  /\ caller' = [caller EXCEPT ![h] = None]
  /\ UNCHANGED <<kind, credential, session, generation, ended, loginVars, listener, auth,
                 header, displaced, forgotten>>

(* cloneSecret. *)
Construct ==
  /\ credential = None /\ caller["secret"] # None /\ Free # {}
  /\ heap' = [heap EXCEPT ![Fresh] = heap[caller["secret"]]]
  /\ credential' = Fresh
  /\ UNCHANGED <<kind, caller, session, generation, ended, loginVars, listener, auth,
                 header, displaced, forgotten>>

(* The A2A event connection's closure keeps the key it was given. *)
Listen ==
  /\ listener = None /\ caller["key"] # None
  /\ listener' = caller["key"]
  /\ UNCHANGED <<kind, heap, caller, credential, session, generation, ended, loginVars,
                 auth, header, displaced, forgotten>>

(***************************************************************************)
(* Connect and refresh.                                                    *)
(***************************************************************************)
LoginBegins ==
  /\ login = "idle" /\ credential # None /\ ~ended /\ generation < MaxGen
  /\ observed' = generation
  /\ UNCHANGED <<kind, caller, credential, session, generation, ended, listener, auth,
                 header, displaced>>

EstablishPassword ==
  /\ kind = "password" /\ LoginBegins
  /\ Free # {}
  /\ heap' = [heap EXCEPT ![Fresh] = heap[credential]]
  /\ login' = "asking" /\ exposed' = Fresh
  /\ UNCHANGED <<fresh, forgotten>>

(* NewSecret copies what Expose copied, and nothing wipes the first copy.  *)
(* A session of this kind is not refreshable.                              *)
EstablishToken ==
  /\ kind = "token" /\ generation = 0 /\ LoginBegins
  /\ Free # {}
  /\ \E copy \in Free \ {Fresh} :
       /\ heap' = [heap EXCEPT ![Fresh] = heap[credential], ![copy] = heap[credential]]
       /\ fresh' = copy
  /\ forgotten' = forgotten \cup {Fresh}
  /\ login' = "fresh"
  /\ UNCHANGED exposed

(* The appliance answers with a token: the session copies it, and the *)
(* answer's bytes and the exposed password are wiped on return.       *)
Mint ==
  /\ login = "asking" /\ heap[exposed] = "secret"
  /\ Free # {}
  /\ \E copy \in Free \ {Fresh} :
       /\ heap' = [Wiped(heap, {exposed, Fresh}) EXCEPT ![copy] = "token"]
       /\ fresh' = copy
  /\ login' = "fresh" /\ exposed' = None
  /\ UNCHANGED <<kind, caller, credential, session, generation, ended, observed, listener,
                 auth, header, displaced, forgotten>>

LoginFails ==
  /\ login = "asking"
  /\ heap' = Wiped(heap, {exposed})
  /\ login' = "idle" /\ exposed' = None
  /\ UNCHANGED <<kind, caller, credential, session, generation, ended, observed, fresh,
                 listener, auth, header, displaced, forgotten>>

(* installSession, and doRefresh's publication. *)
Publish ==
  /\ login = "fresh" /\ observed = generation /\ ~ended
  /\ session' = fresh
  /\ generation' = generation + 1
  /\ displaced' = displaced \cup ({session} \ {None})
  /\ login' = "idle" /\ fresh' = None
  /\ UNCHANGED <<kind, heap, caller, credential, ended, observed, exposed, listener, auth, header,
                 forgotten>>

\* Mutant: the token minted too late is only forgotten.
SupersededKept ==
  /\ login = "fresh" /\ (observed # generation \/ ended)
  /\ login' = "idle" /\ fresh' = None
  /\ UNCHANGED <<kind, heap, caller, credential, session, generation, ended, observed, exposed,
                 listener, auth, header, displaced, forgotten>>

Superseded ==
  /\ login = "fresh" /\ (observed # generation \/ ended)
  /\ heap' = Wiped(heap, {fresh})
  /\ login' = "idle" /\ fresh' = None
  /\ UNCHANGED <<kind, caller, credential, session, generation, ended, observed, exposed,
                 listener, auth, header, displaced, forgotten>>

\* Mutant: the displaced token is wiped under its readers.
EndZeroing ==
  /\ ~ended
  /\ ended' = TRUE /\ session' = None
  /\ heap' = Wiped(heap, {session})
  /\ UNCHANGED <<kind, caller, credential, generation, loginVars, listener, auth, header,
                 displaced, forgotten>>

(* Logout, or Close. *)
End ==
  /\ ~ended
  /\ ended' = TRUE /\ session' = None
  /\ displaced' = displaced \cup ({session} \ {None})
  /\ UNCHANGED <<kind, heap, caller, credential, generation, loginVars, listener, auth, header,
                 forgotten>>

(***************************************************************************)
(* Requests.                                                               *)
(***************************************************************************)
Authorize(r) ==
  /\ auth[r] = None
  /\ \E b \in {session, listener} \ {None} : auth' = [auth EXCEPT ![r] = b]
  /\ UNCHANGED <<kind, heap, caller, credential, session, generation, ended, loginVars,
                 listener, header, displaced, forgotten>>

(* headerValue. *)
MakeHeader(r) ==
  /\ auth[r] # None
  /\ header' = [header EXCEPT ![r] = heap[auth[r]]]
  /\ auth' = [auth EXCEPT ![r] = None]
  /\ UNCHANGED <<kind, heap, caller, credential, session, generation, ended, loginVars,
                 listener, displaced, forgotten>>

(***************************************************************************)
(* The garbage collector.                                                  *)
(***************************************************************************)
Collect(b) ==
  /\ heap[b] # "free" /\ b \notin Held
  /\ heap[b] = "wiped" \/ b \in displaced \cup forgotten
  /\ heap' = [heap EXCEPT ![b] = "free"]
  /\ displaced' = displaced \ {b}
  /\ forgotten' = forgotten \ {b}
  /\ UNCHANGED <<kind, caller, credential, session, generation, ended, loginVars, listener,
                 auth, header>>

Next ==
  \/ Construct \/ Listen \/ \E h \in Handed : CallerZeroes(h)
  \/ EstablishPassword \/ EstablishToken \/ Mint \/ LoginFails \/ Publish \/ Superseded \/ End
  \/ \E r \in Requests : Authorize(r) \/ MakeHeader(r)
  \/ \E b \in Buffers : Collect(b)

Spec == Init /\ [][Next]_vars

-----------------------------------------------------------------------------
(***************************************************************************)
(* Properties                                                              *)
(***************************************************************************)

(* Every variable stays in its range, and what is held is not free. *)
TypeOK ==
  /\ kind \in {"password", "token"}
  /\ heap \in [Buffers -> Plain \cup {"wiped", "free"}]
  /\ caller \in [Handed -> Buffers \cup {None}]
  /\ {credential, session, exposed, fresh, listener} \subseteq Buffers \cup {None}
  /\ generation \in 0 .. MaxGen /\ ended \in BOOLEAN /\ (ended => session = None)
  /\ login \in {"idle", "asking", "fresh"} /\ observed \in 0 .. MaxGen
  /\ auth \in [Requests -> Buffers \cup {None}]
  /\ header \in [Requests -> Plain \cup {None, "wiped"}]
  /\ displaced \subseteq Buffers /\ forgotten \subseteq Buffers
  /\ Held \cap Free = {}

(* What the library keeps for later keeps its contents, whatever the       *)
(* caller wipes and whatever a login wipes when it returns: the secret of  *)
(* a credential, which a refresh needs, and the session's token            *)
(* (credentials.go:514-516).                                               *)
KeptSecretsSurvive ==
  \A b \in {credential, session, fresh} \ {None} : heap[b] # "wiped"

(* A session's token is not wiped while a request that holds it has yet to *)
(* make its header, though the session may be refreshed, logged out or     *)
(* closed meanwhile (client.go:143-148, refresh.go:124-131).               *)
NoWipeUnderReader ==
  \A r \in Requests : auth[r] \notin {None, listener} => heap[auth[r]] # "wiped"

(* Both: nothing the library still needs is wiped.                         *)
NeededSecretsSurvive == KeptSecretsSurvive /\ NoWipeUnderReader

(* No array of a Secret that the library copied stays behind in clear once *)
(* nobody holds it, but for the displaced session tokens                   *)
(* (refresh.go:124-131) and, of a credential that is a token, the copy it  *)
(* exposed (credentials.go:246).  What a login's requests and answers keep *)
(* is for module BrokerLogin to say.                                       *)
NothingLeftInClear ==
  /\ \A b \in Buffers : heap[b] \in Plain => b \in Held \cup displaced \cup forgotten
  /\ kind = "password" => forgotten = {}

(* The key an A2A listener keeps survives the caller's Zero, as the secret *)
(* of a credential does.  It does not (events.go:391-420).                 *)
ListenerKeySurvives == listener # None => heap[listener] = "key"

=============================================================================
