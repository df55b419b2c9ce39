---------------------------- MODULE SecretProofs ----------------------------
(***************************************************************************)
(* Theorems of module SecretBuffers, for any number of arrays, requests    *)
(* and sessions: type correctness, NeededSecretsSurvive,                   *)
(* NothingLeftInClear, and that it implements SessionPromise.              *)
(***************************************************************************)
EXTENDS SecretBuffers, TLAPS

(***************************************************************************)
(* The inductive invariant behind the first two.                           *)
(***************************************************************************)

(* No array has two of these holders, but the key, which the listener      *)
(* shares with the caller.                                                 *)
HoldersApart ==
  /\ caller["secret"] # None =>
       caller["secret"] \notin {caller["key"], credential, session, exposed, fresh, listener}
                              \cup displaced
  /\ caller["key"] # None =>
       caller["key"] \notin {credential, session, exposed, fresh} \cup displaced
  /\ credential # None => credential \notin {session, exposed, fresh, listener} \cup displaced
  /\ exposed # None => exposed \notin {session, fresh, listener} \cup displaced
  /\ fresh # None => fresh \notin {session, listener} \cup displaced
  /\ session # None => session \notin {listener} \cup displaced
  /\ listener \notin displaced

(* A request borrows the listener's key or a session's token, which may    *)
(* have been displaced since.                                              *)
RequestsBorrow ==
  \A r \in Requests : auth[r] \in {None, listener, session} \cup displaced

(* What the caller has not wiped, and what the library keeps or has        *)
(* displaced, is in clear; what it forgot has not been handed out again.   *)
ContentsInv ==
  /\ \A h \in Handed : caller[h] # None => heap[caller[h]] \in Plain
  /\ \A b \in {credential, session, fresh} \ {None} : heap[b] \in Plain
  /\ \A b \in displaced : heap[b] \in Plain
  /\ \A b \in forgotten : heap[b] # "free"

(* A login holds what its stage needs, for a generation not the last.      *)
LoginHolds ==
  /\ exposed # None <=> login = "asking"
  /\ fresh # None <=> login = "fresh"
  /\ login # "idle" => observed < MaxGen

SecretsInv ==
  /\ TypeOK
  /\ HoldersApart
  /\ RequestsBorrow
  /\ ContentsInv
  /\ LoginHolds
  /\ NothingLeftInClear

USE DEF loginVars

Contents == Plain \cup {"wiped", "free"}

(***************************************************************************)
(* Arrays and what they hold.                                              *)
(***************************************************************************)

(* make returns an array nobody has.                                       *)
LEMMA FreshFacts ==
  ASSUME Free # {}
  PROVE  Fresh \in Free /\ Fresh \in Buffers /\ heap[Fresh] = "free" /\ Fresh # None
BY NoneAssumption DEF Fresh, Free

(* Zero wipes the arrays it is given, and no other (secret.go).            *)
LEMMA WipedFacts ==
  ASSUME heap \in [Buffers -> Contents], NEW gone
  PROVE  /\ Wiped(heap, gone) \in [Buffers -> Contents]
         /\ \A b \in Buffers : Wiped(heap, gone)[b] = IF b \in gone THEN "wiped" ELSE heap[b]
BY DEF Wiped, Contents

(* The variables of TypeOK one by one, for the SMT solver.                 *)
LEMMA TypeParts ==
  ASSUME TypeOK
  PROVE  /\ heap \in [Buffers -> Contents]
         /\ caller \in [Handed -> Buffers \cup {None}]
         /\ credential \in Buffers \cup {None} /\ session \in Buffers \cup {None}
         /\ exposed \in Buffers \cup {None} /\ fresh \in Buffers \cup {None}
         /\ listener \in Buffers \cup {None}
         /\ auth \in [Requests -> Buffers \cup {None}]
         /\ displaced \subseteq Buffers /\ forgotten \subseteq Buffers
BY DEF TypeOK, Contents

(* What somebody holds is not free.                                        *)
LEMMA HeldFacts ==
  ASSUME TypeOK
  PROVE  /\ \A h \in Handed : caller[h] # None => heap[caller[h]] # "free"
         /\ \A r \in Requests : auth[r] # None => heap[auth[r]] # "free"
         /\ \A b \in {credential, session, exposed, fresh, listener} \ {None} :
              heap[b] # "free"
<1>1. \A b \in Held : b \in Buffers => heap[b] # "free"
  BY DEF TypeOK, Free
<1>2. \A h \in Handed : caller[h] \in Held
  BY DEF Held
<1>3. \A r \in Requests : auth[r] \in Held
  BY DEF Held
<1>4. {credential, session, exposed, fresh, listener} \subseteq Held
  BY DEF Held
<1> QED BY <1>1, <1>2, <1>3, <1>4, TypeParts

(***************************************************************************)
(* What a step has to show.  That nothing held is free follows from the    *)
(* contents, but for what a login exposed and what the listener keeps.     *)
(***************************************************************************)
Typed ==
  /\ kind \in {"password", "token"}
  /\ heap \in [Buffers -> Contents]
  /\ caller \in [Handed -> Buffers \cup {None}]
  /\ credential \in Buffers \cup {None} /\ session \in Buffers \cup {None}
  /\ exposed \in Buffers \cup {None} /\ fresh \in Buffers \cup {None}
  /\ listener \in Buffers \cup {None}
  /\ generation \in 0 .. MaxGen /\ ended \in BOOLEAN /\ (ended => session = None)
  /\ login \in {"idle", "asking", "fresh"} /\ observed \in 0 .. MaxGen
  /\ auth \in [Requests -> Buffers \cup {None}]
  /\ header \in [Requests -> Plain \cup {None, "wiped"}]
  /\ displaced \subseteq Buffers /\ forgotten \subseteq Buffers

LEMMA TypedFacts == ASSUME TypeOK PROVE Typed
BY DEF TypeOK, Typed, Contents

LEMMA Assemble ==
  ASSUME Typed', HoldersApart', RequestsBorrow', ContentsInv', LoginHolds',
         NothingLeftInClear',
         exposed' # None => heap'[exposed'] # "free",
         listener' # None => heap'[listener'] # "free"
  PROVE  SecretsInv'
<1>1. \A c \in Plain : c # "free"
  BY DEF Plain
<1>2. \A h \in Handed : caller'[h] \in Buffers => heap'[caller'[h]] # "free"
  BY <1>1, NoneAssumption DEF ContentsInv
<1>3. \A b \in {credential', session', fresh'} : b \in Buffers => heap'[b] # "free"
  BY <1>1, NoneAssumption DEF ContentsInv
<1>4. \A b \in {exposed', listener'} : b \in Buffers => heap'[b] # "free"
  BY NoneAssumption
<1>5. \A r \in Requests : auth'[r] \in Buffers => heap'[auth'[r]] # "free"
  <2>1. \A b \in displaced' : heap'[b] # "free"
    BY <1>1 DEF ContentsInv
  <2> QED BY <1>3, <1>4, <2>1, NoneAssumption DEF RequestsBorrow
<1>6. (Held \cap Free = {})'
  BY <1>2, <1>3, <1>4, <1>5 DEF Held, Free
<1>7. TypeOK'
  BY <1>6 DEF Typed, TypeOK, Contents
<1> QED BY <1>7 DEF SecretsInv

-----------------------------------------------------------------------------
(***************************************************************************)
(* Every step preserves the invariant.                                     *)
(***************************************************************************)

LEMMA InitSecrets == Init => SecretsInv
<1> SUFFICES ASSUME Init PROVE SecretsInv
  OBVIOUS
<1>1. caller \in [Handed -> Buffers] /\ caller["secret"] # caller["key"]
  <2>1. PICK a, b \in Buffers : a # b
    BY BuffersAssumption
  <2> DEFINE c == [h \in Handed |-> IF h = "secret" THEN a ELSE b]
  <2>2. c \in [Handed -> Buffers] /\ c["secret"] # c["key"]
    BY <2>1 DEF Handed
  <2>3. \E d \in [Handed -> Buffers] : d["secret"] # d["key"]
    BY <2>2
  <2>4. caller = CHOOSE d \in [Handed -> Buffers] : d["secret"] # d["key"]
    BY DEF Init
  <2> QED BY ONLY <2>3, <2>4
<1>2. Handed = {"secret", "key"} /\ caller["secret"] \in Buffers /\ caller["key"] \in Buffers
  BY <1>1 DEF Handed
<1>3. \A b \in Buffers : heap[b] = IF b = caller["key"] THEN "key"
                                  ELSE IF b = caller["secret"]
                                    THEN (IF kind = "token" THEN "token" ELSE "secret")
                                    ELSE "free"
  BY <1>1 DEF Init
<1>4. heap \in [Buffers -> Contents]
  <2>1. \A b \in Buffers : heap[b] \in Contents
    BY <1>3 DEF Contents, Plain
  <2>2. heap = [b \in Buffers |-> heap[b]]
    BY DEF Init
  <2> QED BY <2>1, <2>2
<1>5. Held \subseteq {caller["secret"], caller["key"], None}
  BY <1>2 DEF Init, Held
<1>6. Held \cap Free = {}
  BY <1>2, <1>3, <1>5, NoneAssumption DEF Free
<1>7. TypeOK
  <2>1. caller \in [Handed -> Buffers \cup {None}]
    BY <1>1
  <2>2. auth \in [Requests -> Buffers \cup {None}]
    BY DEF Init
  <2>3. header \in [Requests -> Plain \cup {None, "wiped"}]
    BY DEF Init
  <2>4. generation \in 0 .. MaxGen /\ observed \in 0 .. MaxGen
    BY MaxGenAssumption DEF Init
  <2>5. {credential, session, exposed, fresh, listener} \subseteq Buffers \cup {None}
    BY DEF Init
  <2>6. /\ kind \in {"password", "token"} /\ ended \in BOOLEAN /\ (ended => session = None)
        /\ login \in {"idle", "asking", "fresh"} /\ displaced \subseteq Buffers
        /\ forgotten \subseteq Buffers
    BY DEF Init
  <2> QED BY <1>4, <1>6, <2>1, <2>2, <2>3, <2>4, <2>5, <2>6 DEF TypeOK, Contents
<1>8. HoldersApart
  BY <1>1 DEF Init, HoldersApart
<1>9. RequestsBorrow /\ LoginHolds
  BY DEF Init, RequestsBorrow, LoginHolds
<1>10. ContentsInv
  BY <1>2, <1>3 DEF Init, ContentsInv, Plain
<1>11. NothingLeftInClear
  <2>1. \A b \in Buffers : heap[b] \in Plain => b \in {caller["secret"], caller["key"]}
    BY <1>3 DEF Plain
  <2>2. {caller["secret"], caller["key"]} \subseteq Held
    BY <1>2 DEF Held
  <2>3. forgotten = {}
    BY DEF Init
  <2> QED BY <2>1, <2>2, <2>3 DEF NothingLeftInClear
<1> QED BY <1>7, <1>8, <1>9, <1>10, <1>11 DEF SecretsInv

LEMMA CallerZeroesKeeps ==
  ASSUME SecretsInv, NEW h \in Handed, CallerZeroes(h)
  PROVE  SecretsInv'
<1>0. Typed
  BY TypedFacts DEF SecretsInv
<1> DEFINE b == caller[h]
<1>1. /\ b # None /\ b \in Buffers
      /\ heap' = Wiped(heap, {b}) /\ caller' = [caller EXCEPT ![h] = None]
      /\ UNCHANGED <<kind, credential, session, generation, ended, loginVars, listener, auth,
                     header, displaced, forgotten>>
  BY <1>0 DEF CallerZeroes, Typed
<1>2. /\ heap' \in [Buffers -> Contents]
      /\ heap'[b] = "wiped" /\ \A d \in Buffers \ {b} : heap'[d] = heap[d]
  BY <1>0, <1>1, WipedFacts DEF Typed
<1>3. caller'[h] = None /\ \A g \in Handed \ {h} : caller'[g] = caller[g]
  BY <1>0, <1>1 DEF Typed
<1>4. h = "secret" \/ h = "key"
  BY DEF Handed
<1>5. b \notin {credential, session, exposed, fresh} \cup displaced
  BY <1>1, <1>4 DEF SecretsInv, HoldersApart
<1>6. \A g \in Handed \ {h} : caller[g] # None => caller[g] # b
  BY <1>1, <1>4 DEF SecretsInv, HoldersApart, Handed
<1>7. Typed'
  BY <1>0, <1>1, <1>2 DEF Typed
<1>8. HoldersApart'
  BY <1>1, <1>3, <1>4 DEF SecretsInv, HoldersApart, Handed
<1>9. RequestsBorrow' /\ LoginHolds'
  BY <1>1 DEF SecretsInv, RequestsBorrow, LoginHolds
<1>10. ContentsInv'
  <2>1. \A g \in Handed : caller'[g] # None => heap'[caller'[g]] \in Plain
    BY <1>0, <1>2, <1>3, <1>6 DEF SecretsInv, ContentsInv, Typed
  <2>2. \A d \in {credential, session, fresh} \ {None} : heap'[d] \in Plain
    BY <1>0, <1>2, <1>5 DEF SecretsInv, ContentsInv, Typed
  <2>3. /\ \A d \in displaced : heap'[d] \in Plain
        /\ \A d \in forgotten : heap'[d] # "free"
    BY <1>0, <1>2, <1>5 DEF SecretsInv, ContentsInv, Typed
  <2> QED BY <1>1, <2>1, <2>2, <2>3 DEF ContentsInv
<1>11. NothingLeftInClear'
  <2> SUFFICES ASSUME NEW d \in Buffers, heap'[d] \in Plain
               PROVE  d \in Held' \cup displaced' \cup forgotten'
    BY <1>1 DEF SecretsInv, NothingLeftInClear
  <2>1. d # b /\ heap'[d] = heap[d]
    BY <1>2 DEF Plain
  <2>2. d \in Held \cup displaced \cup forgotten
    BY <2>1 DEF SecretsInv, NothingLeftInClear
  <2>3. \A g \in Handed : caller[g] = d => caller'[g] = d
    BY <1>3, <2>1
  <2> QED BY <1>1, <2>2, <2>3 DEF Held
<1>12. \A d \in {exposed, listener} \ {None} : heap'[d] # "free"
  <2>1. \A d \in {exposed, listener} \ {None} : heap[d] # "free" /\ d \in Buffers
    BY <1>0, HeldFacts DEF SecretsInv, Typed
  <2> QED BY <1>2, <2>1
<1> QED BY <1>1, <1>7, <1>8, <1>9, <1>10, <1>11, <1>12, Assemble

(* An array that is free has no holder.                                    *)
LEMMA FreeIsUnused ==
  ASSUME SecretsInv, NEW b \in Free
  PROVE  /\ b \in Buffers /\ b # None /\ heap[b] = "free"
         /\ b \notin displaced /\ b \notin forgotten
         /\ b \notin {credential, session, exposed, fresh, listener}
         /\ \A h \in Handed : caller[h] # b
         /\ \A r \in Requests : auth[r] # b
<1>1. b \in Buffers /\ b # None /\ heap[b] = "free"
  BY NoneAssumption DEF Free
<1>2. b \notin Held
  BY DEF SecretsInv, TypeOK
<1>3. b \notin displaced /\ b \notin forgotten
  BY <1>1 DEF SecretsInv, ContentsInv, Plain
<1> QED BY <1>1, <1>2, <1>3 DEF Held

LEMMA ConstructKeeps == ASSUME SecretsInv, Construct PROVE SecretsInv'
<1>0. Typed
  BY TypedFacts DEF SecretsInv
<1> DEFINE b == Fresh
<1>1. /\ credential = None /\ caller["secret"] # None /\ Free # {}
      /\ heap' = [heap EXCEPT ![b] = heap[caller["secret"]]]
      /\ credential' = b
      /\ UNCHANGED <<kind, caller, session, generation, ended, loginVars, listener, auth,
                     header, displaced, forgotten>>
  BY DEF Construct
<1>2. b \in Free
  BY <1>1, FreshFacts
<1> HIDE DEF b
<1>3. /\ b \in Buffers /\ b # None
      /\ b \notin {session, exposed, fresh, listener} \cup displaced
      /\ \A h \in Handed : caller[h] # b
  BY <1>2, FreeIsUnused
<1>4. heap[caller["secret"]] \in Plain
  BY <1>1 DEF SecretsInv, ContentsInv, Handed
<1>5. /\ heap' \in [Buffers -> Contents]
      /\ heap'[b] \in Plain /\ \A d \in Buffers \ {b} : heap'[d] = heap[d]
  BY <1>0, <1>1, <1>3, <1>4 DEF Typed, Contents
<1>6. Typed'
  BY <1>0, <1>1, <1>3, <1>5 DEF Typed
<1>7. HoldersApart'
  BY <1>1, <1>3 DEF SecretsInv, HoldersApart, Handed
<1>8. RequestsBorrow' /\ LoginHolds'
  BY <1>1 DEF SecretsInv, RequestsBorrow, LoginHolds
<1>9. ContentsInv'
  <2>1. \A h \in Handed : caller[h] # None => heap'[caller[h]] \in Plain
    BY <1>0, <1>3, <1>5 DEF SecretsInv, ContentsInv, Typed
  <2>2. \A d \in {session, fresh} \ {None} : heap'[d] \in Plain
    BY <1>0, <1>3, <1>5 DEF SecretsInv, ContentsInv, Typed
  <2>3. /\ \A d \in displaced : heap'[d] \in Plain
        /\ \A d \in forgotten : heap'[d] # "free"
    BY <1>0, <1>3, <1>5 DEF SecretsInv, ContentsInv, Typed, Plain
  <2> QED BY <1>1, <1>5, <2>1, <2>2, <2>3 DEF ContentsInv
<1>10. NothingLeftInClear'
  <2> SUFFICES ASSUME NEW d \in Buffers, heap'[d] \in Plain, d # b
               PROVE  d \in Held' \cup displaced' \cup forgotten'
    BY <1>1 DEF SecretsInv, NothingLeftInClear, Held
  <2>1. d \in Held \cup displaced \cup forgotten
    BY <1>5 DEF SecretsInv, NothingLeftInClear
  <2>2. d # None
    BY NoneAssumption
  <2> QED BY <1>1, <2>1, <2>2 DEF Held
<1>11. \A d \in {exposed, listener} \ {None} : heap'[d] # "free"
  <2>1. \A d \in {exposed, listener} \ {None} : heap[d] # "free" /\ d \in Buffers
    BY <1>0, HeldFacts DEF SecretsInv, Typed
  <2> QED BY <1>3, <1>5, <2>1
<1> QED BY <1>1, <1>6, <1>7, <1>8, <1>9, <1>10, <1>11, Assemble

LEMMA ListenKeeps == ASSUME SecretsInv, Listen PROVE SecretsInv'
<1>0. Typed
  BY TypedFacts DEF SecretsInv
<1>1. /\ listener = None /\ caller["key"] # None /\ listener' = caller["key"]
      /\ UNCHANGED <<kind, heap, caller, credential, session, generation, ended, loginVars,
                     auth, header, displaced, forgotten>>
  BY DEF Listen
<1>2. Typed'
  BY <1>0, <1>1 DEF Typed, Handed
<1>3. HoldersApart'
  BY <1>1 DEF SecretsInv, HoldersApart
<1>4. RequestsBorrow' /\ LoginHolds' /\ ContentsInv'
  BY <1>1 DEF SecretsInv, RequestsBorrow, LoginHolds, ContentsInv
<1>5. NothingLeftInClear'
  <2>1. Held \subseteq Held' \cup {None}
    BY <1>1 DEF Held
  <2> QED BY <1>1, <2>1, NoneAssumption DEF SecretsInv, NothingLeftInClear
<1>6. \A d \in {exposed, listener'} \ {None} : heap[d] # "free"
  BY <1>1, HeldFacts DEF SecretsInv, Handed
<1> QED BY <1>1, <1>2, <1>3, <1>4, <1>5, <1>6, Assemble

LEMMA EstablishPasswordKeeps == ASSUME SecretsInv, EstablishPassword PROVE SecretsInv'
<1>0. Typed
  BY TypedFacts DEF SecretsInv
<1> DEFINE b == Fresh
<1>1. /\ login = "idle" /\ credential # None /\ generation < MaxGen /\ Free # {}
      /\ observed' = generation
      /\ heap' = [heap EXCEPT ![b] = heap[credential]]
      /\ login' = "asking" /\ exposed' = b /\ fresh' = fresh
      /\ UNCHANGED <<kind, caller, credential, session, generation, ended, listener, auth,
                     header, displaced, forgotten>>
  BY DEF EstablishPassword, LoginBegins
<1>2. b \in Free
  BY <1>1, FreshFacts
<1> HIDE DEF b
<1>3. /\ b \in Buffers /\ b # None
      /\ b \notin {credential, session, listener} \cup displaced
      /\ \A h \in Handed : caller[h] # b
  BY <1>2, FreeIsUnused
<1>4. exposed = None /\ fresh = None
  BY <1>1 DEF SecretsInv, LoginHolds
<1>5. heap[credential] \in Plain
  BY <1>1 DEF SecretsInv, ContentsInv
<1>6. /\ heap' \in [Buffers -> Contents]
      /\ heap'[b] \in Plain /\ \A d \in Buffers \ {b} : heap'[d] = heap[d]
  BY <1>0, <1>1, <1>3, <1>5 DEF Typed, Contents
<1>7. Typed'
  BY <1>0, <1>1, <1>3, <1>6 DEF Typed
<1>8. HoldersApart'
  BY <1>1, <1>3, <1>4 DEF SecretsInv, HoldersApart, Handed
<1>9. RequestsBorrow'
  BY <1>1 DEF SecretsInv, RequestsBorrow
<1>10. LoginHolds'
  BY <1>1, <1>3, <1>4 DEF LoginHolds
<1>11. ContentsInv'
  <2>1. \A h \in Handed : caller[h] # None => heap'[caller[h]] \in Plain
    BY <1>0, <1>3, <1>6 DEF SecretsInv, ContentsInv, Typed
  <2>2. \A d \in {credential, session} \ {None} : heap'[d] \in Plain
    BY <1>0, <1>3, <1>6 DEF SecretsInv, ContentsInv, Typed
  <2>3. /\ \A d \in displaced : heap'[d] \in Plain
        /\ \A d \in forgotten : heap'[d] # "free"
    BY <1>0, <1>3, <1>6 DEF SecretsInv, ContentsInv, Typed, Plain
  <2>4. fresh' = None
    BY <1>1, <1>4
  <2> QED BY <1>1, <1>6, <2>1, <2>2, <2>3, <2>4 DEF ContentsInv
<1>12. NothingLeftInClear'
  <2> SUFFICES ASSUME NEW d \in Buffers, heap'[d] \in Plain, d # b
               PROVE  d \in Held' \cup displaced' \cup forgotten'
    BY <1>1 DEF SecretsInv, NothingLeftInClear, Held
  <2>1. d \in Held \cup displaced \cup forgotten
    BY <1>6 DEF SecretsInv, NothingLeftInClear
  <2>2. d # None
    BY NoneAssumption
  <2> QED BY <1>1, <1>4, <2>1, <2>2 DEF Held
<1>13. \A d \in {exposed', listener'} \ {None} : heap'[d] # "free"
  <2>1. listener # None => heap[listener] # "free" /\ listener \in Buffers
    BY <1>0, HeldFacts DEF SecretsInv, Typed
  <2>2. heap'[b] # "free"
    BY <1>6 DEF Plain
  <2>3. exposed' \in {b, None}
    BY <1>1, <1>4
  <2> QED BY <1>1, <1>3, <1>6, <2>1, <2>2, <2>3
<1> QED BY <1>7, <1>8, <1>9, <1>10, <1>11, <1>12, <1>13, Assemble

LEMMA EstablishTokenKeeps == ASSUME SecretsInv, EstablishToken PROVE SecretsInv'
<1>0. Typed
  BY TypedFacts DEF SecretsInv
<1> DEFINE b == Fresh
<1>1. PICK copy \in Free \ {b} :
        /\ heap' = [heap EXCEPT ![b] = heap[credential], ![copy] = heap[credential]]
        /\ fresh' = copy
  BY DEF EstablishToken
<1>2. /\ login = "idle" /\ credential # None /\ generation < MaxGen /\ Free # {}
      /\ observed' = generation /\ login' = "fresh" /\ exposed' = exposed
      /\ kind = "token" /\ forgotten' = forgotten \cup {b}
      /\ UNCHANGED <<kind, caller, credential, session, generation, ended, listener, auth,
                     header, displaced>>
  BY DEF EstablishToken, LoginBegins
<1>3. b \in Free
  BY <1>2, FreshFacts
<1> HIDE DEF b
<1>4. /\ b \in Buffers /\ b # None
      /\ b \notin {credential, session, listener} \cup displaced
      /\ \A h \in Handed : caller[h] # b
  BY <1>3, FreeIsUnused
<1>5. /\ copy \in Buffers /\ copy # None /\ copy # b
      /\ copy \notin {credential, session, listener} \cup displaced
      /\ \A h \in Handed : caller[h] # copy
  BY <1>1, FreeIsUnused
<1>6. exposed = None /\ fresh = None
  BY <1>2 DEF SecretsInv, LoginHolds
<1>7. heap[credential] \in Plain
  BY <1>2 DEF SecretsInv, ContentsInv
<1>8. /\ heap' \in [Buffers -> Contents]
      /\ heap'[b] \in Plain /\ heap'[copy] \in Plain
      /\ \A d \in Buffers \ {b, copy} : heap'[d] = heap[d]
  BY <1>0, <1>1, <1>4, <1>5, <1>7 DEF Typed, Contents
<1>9. Typed'
  <2>1. forgotten' \subseteq Buffers
    BY <1>0, <1>2, <1>4 DEF Typed
  <2> QED BY <1>0, <1>1, <1>2, <1>5, <1>8, <2>1 DEF Typed
<1>10. HoldersApart'
  BY <1>1, <1>2, <1>5, <1>6 DEF SecretsInv, HoldersApart, Handed
<1>11. RequestsBorrow'
  BY <1>2 DEF SecretsInv, RequestsBorrow
<1>12. LoginHolds'
  BY <1>1, <1>2, <1>5, <1>6 DEF LoginHolds
<1>13. ContentsInv'
  <2>1. \A h \in Handed : caller[h] # None => heap'[caller[h]] \in Plain
    BY <1>0, <1>4, <1>5, <1>8 DEF SecretsInv, ContentsInv, Typed
  <2>2. \A d \in {credential, session} \ {None} : heap'[d] \in Plain
    BY <1>0, <1>4, <1>5, <1>8 DEF SecretsInv, ContentsInv, Typed
  <2>3. \A d \in displaced : heap'[d] \in Plain
    BY <1>0, <1>4, <1>5, <1>8 DEF SecretsInv, ContentsInv, Typed
  <2>4. \A d \in forgotten \cup {b} : heap'[d] # "free"
    BY <1>0, <1>8 DEF SecretsInv, ContentsInv, Typed, Plain
  <2> QED BY <1>1, <1>2, <1>8, <2>1, <2>2, <2>3, <2>4 DEF ContentsInv
<1>14. NothingLeftInClear'
  <2> SUFFICES ASSUME NEW d \in Buffers, heap'[d] \in Plain, d \notin {b, copy}
               PROVE  d \in Held' \cup displaced' \cup forgotten'
    BY <1>1, <1>2 DEF NothingLeftInClear, Held
  <2>1. d \in Held \cup displaced \cup forgotten
    BY <1>8 DEF SecretsInv, NothingLeftInClear
  <2>2. d # None
    BY NoneAssumption
  <2> QED BY <1>2, <1>6, <2>1, <2>2 DEF Held
<1>15. listener # None => heap'[listener] # "free"
  BY <1>0, <1>4, <1>5, <1>8, HeldFacts DEF SecretsInv, Typed
<1> QED BY <1>2, <1>6, <1>9, <1>10, <1>11, <1>12, <1>13, <1>14, <1>15, Assemble

(* What a wipe of arrays nobody needs leaves intact.                       *)
LEMMA WipeSpares ==
  ASSUME SecretsInv, NEW gone,
         gone \cap ({credential, session, listener} \cup displaced) = {},
         \A h \in Handed : caller[h] \notin gone
  PROVE  /\ Wiped(heap, gone) \in [Buffers -> Contents]
         /\ \A h \in Handed : caller[h] # None => Wiped(heap, gone)[caller[h]] \in Plain
         /\ \A d \in {credential, session} \ {None} : Wiped(heap, gone)[d] \in Plain
         /\ \A d \in displaced : Wiped(heap, gone)[d] \in Plain
         /\ \A d \in forgotten : Wiped(heap, gone)[d] # "free"
         /\ fresh \notin gone \cup {None} => Wiped(heap, gone)[fresh] \in Plain
         /\ listener # None => Wiped(heap, gone)[listener] # "free"
         /\ \A d \in Buffers : Wiped(heap, gone)[d] \in Plain =>
              d \notin gone /\ d \in Held \cup displaced \cup forgotten
<1>0. Typed
  BY TypedFacts DEF SecretsInv
<1> DEFINE w == Wiped(heap, gone)
<1>1. /\ w \in [Buffers -> Contents]
      /\ \A d \in Buffers : w[d] = IF d \in gone THEN "wiped" ELSE heap[d]
  BY <1>0, WipedFacts DEF Typed
<1> HIDE DEF w
<1>2. "wiped" \notin Plain /\ "free" # "wiped"
  BY DEF Plain
<1>3. \A h \in Handed : caller[h] # None => w[caller[h]] \in Plain
  BY <1>0, <1>1 DEF SecretsInv, ContentsInv, Typed
<1>4. \A d \in {credential, session} \ {None} : w[d] \in Plain
  BY <1>0, <1>1 DEF SecretsInv, ContentsInv, Typed
<1>5. /\ \A d \in displaced : w[d] \in Plain
      /\ \A d \in forgotten : w[d] # "free"
  BY <1>0, <1>1, <1>2 DEF SecretsInv, ContentsInv, Typed
<1>6. fresh \notin gone \cup {None} => w[fresh] \in Plain
  BY <1>0, <1>1 DEF SecretsInv, ContentsInv, Typed
<1>7. listener # None => w[listener] # "free"
  BY <1>0, <1>1, <1>2, HeldFacts DEF SecretsInv, Typed
<1>8. \A d \in Buffers : w[d] \in Plain => d \notin gone /\ d \in Held \cup displaced \cup forgotten
  BY <1>1, <1>2 DEF SecretsInv, NothingLeftInClear
<1> QED BY <1>1, <1>3, <1>4, <1>5, <1>6, <1>7, <1>8 DEF w

LEMMA LoginFailsKeeps == ASSUME SecretsInv, LoginFails PROVE SecretsInv'
<1>0. Typed
  BY TypedFacts DEF SecretsInv
<1>1. /\ login = "asking" /\ heap' = Wiped(heap, {exposed})
      /\ login' = "idle" /\ exposed' = None
      /\ UNCHANGED <<kind, caller, credential, session, generation, ended, observed, fresh,
                     listener, auth, header, displaced, forgotten>>
  BY DEF LoginFails
<1>2. exposed # None /\ fresh = None
  BY <1>1 DEF SecretsInv, LoginHolds
<1>3. /\ exposed \notin {credential, session, listener} \cup displaced
      /\ \A h \in Handed : caller[h] # exposed
  BY <1>2 DEF SecretsInv, HoldersApart, Handed
<1>4. /\ heap' \in [Buffers -> Contents]
      /\ \A h \in Handed : caller[h] # None => heap'[caller[h]] \in Plain
      /\ \A d \in {credential, session} \ {None} : heap'[d] \in Plain
      /\ \A d \in displaced : heap'[d] \in Plain
      /\ \A d \in forgotten : heap'[d] # "free"
      /\ listener # None => heap'[listener] # "free"
      /\ \A d \in Buffers : heap'[d] \in Plain => d # exposed /\ d \in Held \cup displaced \cup forgotten
  BY <1>1, <1>3, WipeSpares
<1>5. Typed'
  BY <1>0, <1>1, <1>4 DEF Typed
<1>6. HoldersApart'
  BY <1>1, <1>2 DEF SecretsInv, HoldersApart
<1>7. RequestsBorrow' /\ LoginHolds'
  BY <1>1, <1>2 DEF SecretsInv, RequestsBorrow, LoginHolds
<1>8. ContentsInv'
  BY <1>1, <1>2, <1>4 DEF ContentsInv
<1>9. NothingLeftInClear'
  BY <1>1, <1>4 DEF SecretsInv, NothingLeftInClear, Held
<1> QED BY <1>1, <1>4, <1>5, <1>6, <1>7, <1>8, <1>9, Assemble

LEMMA SupersededKeeps == ASSUME SecretsInv, Superseded PROVE SecretsInv'
<1>0. Typed
  BY TypedFacts DEF SecretsInv
<1>1. /\ login = "fresh" /\ heap' = Wiped(heap, {fresh})
      /\ login' = "idle" /\ fresh' = None
      /\ UNCHANGED <<kind, caller, credential, session, generation, ended, observed, exposed,
                     listener, auth, header, displaced, forgotten>>
  BY DEF Superseded
<1>2. fresh # None /\ exposed = None
  BY <1>1 DEF SecretsInv, LoginHolds
<1>3. /\ fresh \notin {credential, session, listener} \cup displaced
      /\ \A h \in Handed : caller[h] # fresh
  BY <1>2 DEF SecretsInv, HoldersApart, Handed
<1>4. /\ heap' \in [Buffers -> Contents]
      /\ \A h \in Handed : caller[h] # None => heap'[caller[h]] \in Plain
      /\ \A d \in {credential, session} \ {None} : heap'[d] \in Plain
      /\ \A d \in displaced : heap'[d] \in Plain
      /\ \A d \in forgotten : heap'[d] # "free"
      /\ listener # None => heap'[listener] # "free"
      /\ \A d \in Buffers : heap'[d] \in Plain => d # fresh /\ d \in Held \cup displaced \cup forgotten
  BY <1>1, <1>3, WipeSpares
<1>5. Typed'
  BY <1>0, <1>1, <1>4 DEF Typed
<1>6. HoldersApart'
  BY <1>1, <1>2 DEF SecretsInv, HoldersApart
<1>7. RequestsBorrow' /\ LoginHolds'
  BY <1>1, <1>2 DEF SecretsInv, RequestsBorrow, LoginHolds
<1>8. ContentsInv'
  BY <1>1, <1>2, <1>4 DEF ContentsInv
<1>9. NothingLeftInClear'
  BY <1>1, <1>4 DEF SecretsInv, NothingLeftInClear, Held
<1> QED BY <1>1, <1>2, <1>4, <1>5, <1>6, <1>7, <1>8, <1>9, Assemble

LEMMA MintKeeps == ASSUME SecretsInv, Mint PROVE SecretsInv'
<1>0. Typed
  BY TypedFacts DEF SecretsInv
<1> DEFINE b == Fresh
<1>1. PICK copy \in Free \ {b} :
        /\ heap' = [Wiped(heap, {exposed, b}) EXCEPT ![copy] = "token"]
        /\ fresh' = copy
  BY DEF Mint
<1>2. /\ login = "asking" /\ Free # {} /\ login' = "fresh" /\ exposed' = None
      /\ UNCHANGED <<kind, caller, credential, session, generation, ended, observed, listener,
                     auth, header, displaced, forgotten>>
  BY DEF Mint
<1>3. b \in Free
  BY <1>2, FreshFacts
<1> HIDE DEF b
<1>4. exposed # None /\ fresh = None /\ observed < MaxGen
  BY <1>2 DEF SecretsInv, LoginHolds
<1>5. /\ exposed \notin {credential, session, listener} \cup displaced
      /\ \A h \in Handed : caller[h] # exposed
  BY <1>4 DEF SecretsInv, HoldersApart, Handed
<1>6. /\ b \notin {credential, session, listener} \cup displaced
      /\ \A h \in Handed : caller[h] # b
  BY <1>3, FreeIsUnused
<1>7. /\ copy \in Buffers /\ copy # None
      /\ copy \notin {credential, session, listener} \cup displaced
      /\ \A h \in Handed : caller[h] # copy
  BY <1>1, FreeIsUnused
<1> DEFINE w == Wiped(heap, {exposed, b})
<1>8. /\ w \in [Buffers -> Contents]
      /\ \A h \in Handed : caller[h] # None => w[caller[h]] \in Plain
      /\ \A d \in {credential, session} \ {None} : w[d] \in Plain
      /\ \A d \in displaced : w[d] \in Plain
      /\ \A d \in forgotten : w[d] # "free"
      /\ listener # None => w[listener] # "free"
      /\ \A d \in Buffers : w[d] \in Plain =>
           d \notin {exposed, b} /\ d \in Held \cup displaced \cup forgotten
  BY <1>5, <1>6, WipeSpares
<1>9. heap' = [w EXCEPT ![copy] = "token"]
  BY <1>1
<1> HIDE DEF w
<1>10. /\ heap' \in [Buffers -> Contents]
       /\ heap'[copy] \in Plain /\ \A d \in Buffers \ {copy} : heap'[d] = w[d]
  BY <1>7, <1>8, <1>9 DEF Contents, Plain
<1>11. Typed'
  BY <1>0, <1>1, <1>2, <1>7, <1>10 DEF Typed
<1>12. HoldersApart'
  BY <1>1, <1>2, <1>7 DEF SecretsInv, HoldersApart, Handed
<1>13. RequestsBorrow'
  BY <1>2 DEF SecretsInv, RequestsBorrow
<1>14. LoginHolds'
  BY <1>1, <1>2, <1>4, <1>7 DEF LoginHolds
<1>15. ContentsInv'
  <2>1. \A h \in Handed : caller[h] # None => heap'[caller[h]] \in Plain
    BY <1>0, <1>7, <1>8, <1>10 DEF Typed
  <2>2. \A d \in {credential, session} \ {None} : heap'[d] \in Plain
    BY <1>0, <1>7, <1>8, <1>10 DEF Typed
  <2>3. /\ \A d \in displaced : heap'[d] \in Plain
        /\ \A d \in forgotten : heap'[d] # "free"
    BY <1>0, <1>7, <1>8, <1>10 DEF Typed, Plain
  <2> QED BY <1>1, <1>2, <1>10, <2>1, <2>2, <2>3 DEF ContentsInv
<1>16. NothingLeftInClear'
  <2> SUFFICES ASSUME NEW d \in Buffers, heap'[d] \in Plain, d # copy
               PROVE  d \in Held' \cup displaced' \cup forgotten'
    BY <1>1, <1>2 DEF SecretsInv, NothingLeftInClear, Held
  <2>1. d # exposed /\ d \in Held \cup displaced \cup forgotten
    BY <1>8, <1>10
  <2>2. d # None
    BY NoneAssumption
  <2> QED BY <1>2, <1>4, <2>1, <2>2 DEF Held
<1>17. listener # None => heap'[listener] # "free"
  BY <1>0, <1>7, <1>8, <1>10 DEF Typed
<1> QED BY <1>2, <1>11, <1>12, <1>13, <1>14, <1>15, <1>16, <1>17, Assemble

(* A step that wipes nothing and only passes arrays on.                    *)
LEMMA PassOn ==
  ASSUME SecretsInv, UNCHANGED <<kind, heap, listener, exposed, forgotten>>,
         Typed', HoldersApart', RequestsBorrow', ContentsInv', LoginHolds',
         \A b \in Held \cup displaced : b # None => b \in Held' \cup displaced'
  PROVE  SecretsInv'
<1>1. NothingLeftInClear'
  BY NoneAssumption DEF SecretsInv, NothingLeftInClear
<1>2. \A b \in {exposed, listener} \ {None} : heap[b] # "free"
  BY HeldFacts DEF SecretsInv
<1> QED BY <1>1, <1>2, Assemble

LEMMA PublishKeeps == ASSUME SecretsInv, Publish PROVE SecretsInv'
<1>0. Typed
  BY TypedFacts DEF SecretsInv
<1>1. /\ login = "fresh" /\ observed = generation /\ ~ended
      /\ session' = fresh /\ generation' = generation + 1
      /\ displaced' = displaced \cup ({session} \ {None})
      /\ login' = "idle" /\ fresh' = None
      /\ UNCHANGED <<kind, heap, caller, credential, ended, observed, exposed, listener, auth,
                     header, forgotten>>
  BY DEF Publish
<1>2. fresh # None /\ exposed = None /\ observed < MaxGen
  BY <1>1 DEF SecretsInv, LoginHolds
<1>3. Typed'
  <2>1. generation' \in 0 .. MaxGen
    BY <1>0, <1>1, <1>2, MaxGenAssumption DEF Typed
  <2>2. displaced' \subseteq Buffers
    BY <1>0, <1>1 DEF Typed
  <2> QED BY <1>0, <1>1, <2>1, <2>2 DEF Typed
<1>4. HoldersApart'
  BY <1>1, <1>2 DEF SecretsInv, HoldersApart, Handed
<1>5. RequestsBorrow'
  BY <1>1 DEF SecretsInv, RequestsBorrow
<1>6. ContentsInv'
  BY <1>1, <1>2 DEF SecretsInv, ContentsInv
<1>7. LoginHolds'
  BY <1>1, <1>2 DEF LoginHolds
<1>8. \A b \in Held \cup displaced : b # None => b \in Held' \cup displaced'
  BY <1>1 DEF Held
<1> QED BY <1>1, <1>3, <1>4, <1>5, <1>6, <1>7, <1>8, PassOn

LEMMA EndKeeps == ASSUME SecretsInv, End PROVE SecretsInv'
<1>0. Typed
  BY TypedFacts DEF SecretsInv
<1>1. /\ ended' = TRUE /\ session' = None
      /\ displaced' = displaced \cup ({session} \ {None})
      /\ UNCHANGED <<kind, heap, caller, credential, generation, loginVars, listener, auth,
                     header, forgotten>>
  BY DEF End
<1>2. Typed'
  <2>1. displaced' \subseteq Buffers
    BY <1>0, <1>1 DEF Typed
  <2> QED BY <1>0, <1>1, <2>1 DEF Typed
<1>3. HoldersApart'
  BY <1>1 DEF SecretsInv, HoldersApart, Handed
<1>4. RequestsBorrow'
  BY <1>1 DEF SecretsInv, RequestsBorrow
<1>5. ContentsInv' /\ LoginHolds'
  BY <1>1 DEF SecretsInv, ContentsInv, LoginHolds
<1>6. \A b \in Held \cup displaced : b # None => b \in Held' \cup displaced'
  BY <1>1 DEF Held
<1> QED BY <1>1, <1>2, <1>3, <1>4, <1>5, <1>6, PassOn

LEMMA AuthorizeKeeps ==
  ASSUME SecretsInv, NEW r \in Requests, Authorize(r)
  PROVE  SecretsInv'
<1>0. Typed
  BY TypedFacts DEF SecretsInv
<1>1. PICK b \in {session, listener} \ {None} : auth' = [auth EXCEPT ![r] = b]
  BY DEF Authorize
<1>2. /\ auth[r] = None
      /\ UNCHANGED <<kind, heap, caller, credential, session, generation, ended, loginVars,
                     listener, header, displaced, forgotten>>
  BY DEF Authorize
<1>3. auth'[r] = b /\ \A q \in Requests \ {r} : auth'[q] = auth[q]
  BY <1>0, <1>1 DEF Typed
<1>4. Typed'
  <2>1. auth' \in [Requests -> Buffers \cup {None}]
    BY <1>0, <1>1 DEF Typed
  <2> QED BY <1>0, <1>2, <2>1 DEF Typed
<1>5. HoldersApart' /\ ContentsInv' /\ LoginHolds'
  BY <1>2 DEF SecretsInv, HoldersApart, ContentsInv, LoginHolds
<1>6. RequestsBorrow'
  BY <1>1, <1>2, <1>3 DEF SecretsInv, RequestsBorrow
<1>7. \A d \in Held \cup displaced : d # None => d \in Held' \cup displaced'
  <2>1. \A q \in Requests : auth[q] # None => auth'[q] = auth[q]
    BY <1>2, <1>3
  <2> QED BY <1>2, <2>1 DEF Held
<1> QED BY <1>2, <1>4, <1>5, <1>6, <1>7, PassOn

(* Whoever drops its array borrowed it.                                    *)
LEMMA MakeHeaderKeeps ==
  ASSUME SecretsInv, NEW r \in Requests, MakeHeader(r)
  PROVE  SecretsInv'
<1>0. Typed
  BY TypedFacts DEF SecretsInv
<1>1. /\ auth[r] # None
      /\ header' = [header EXCEPT ![r] = heap[auth[r]]]
      /\ auth' = [auth EXCEPT ![r] = None]
      /\ UNCHANGED <<kind, heap, caller, credential, session, generation, ended, loginVars,
                     listener, displaced, forgotten>>
  BY DEF MakeHeader
<1>2. auth'[r] = None /\ \A q \in Requests \ {r} : auth'[q] = auth[q]
  BY <1>0, <1>1 DEF Typed
<1>3. Typed'
  <2>1. heap[auth[r]] \in Plain \cup {"wiped"}
    BY <1>0, <1>1, HeldFacts DEF SecretsInv, Typed, Contents
  <2>2. header' \in [Requests -> Plain \cup {None, "wiped"}]
    BY <1>0, <1>1, <2>1 DEF Typed
  <2>3. auth' \in [Requests -> Buffers \cup {None}]
    BY <1>0, <1>1 DEF Typed
  <2> QED BY <1>0, <1>1, <2>2, <2>3 DEF Typed
<1>4. HoldersApart' /\ ContentsInv' /\ LoginHolds'
  BY <1>1 DEF SecretsInv, HoldersApart, ContentsInv, LoginHolds
<1>5. RequestsBorrow'
  BY <1>1, <1>2 DEF SecretsInv, RequestsBorrow
<1>6. \A d \in Held \cup displaced : d # None => d \in Held' \cup displaced'
  <2>1. \A q \in Requests : auth[q] # None =>
          auth[q] \in {listener, session} \cup displaced
    BY DEF SecretsInv, RequestsBorrow
  <2> QED BY <1>1, <2>1 DEF Held
<1> QED BY <1>1, <1>3, <1>4, <1>5, <1>6, PassOn

LEMMA CollectKeeps ==
  ASSUME SecretsInv, NEW b \in Buffers, Collect(b)
  PROVE  SecretsInv'
<1>0. Typed
  BY TypedFacts DEF SecretsInv
<1>1. /\ b \notin Held
      /\ heap' = [heap EXCEPT ![b] = "free"]
      /\ displaced' = displaced \ {b} /\ forgotten' = forgotten \ {b}
      /\ UNCHANGED <<kind, caller, credential, session, generation, ended, loginVars, listener,
                     auth, header>>
  BY DEF Collect
<1>2. /\ b \notin {credential, session, exposed, fresh, listener}
      /\ \A h \in Handed : caller[h] # b
      /\ \A r \in Requests : auth[r] # b
  BY <1>1 DEF Held
<1>3. /\ heap' \in [Buffers -> Contents]
      /\ heap'[b] = "free" /\ \A d \in Buffers \ {b} : heap'[d] = heap[d]
  BY <1>0, <1>1 DEF Typed, Contents
<1>4. Typed'
  BY <1>0, <1>1, <1>3 DEF Typed
<1>5. HoldersApart' /\ LoginHolds'
  BY <1>1 DEF SecretsInv, HoldersApart, LoginHolds
<1>6. RequestsBorrow'
  BY <1>1, <1>2 DEF SecretsInv, RequestsBorrow
<1>7. ContentsInv'
  <2>1. \A h \in Handed : caller[h] # None => heap'[caller[h]] \in Plain
    BY <1>0, <1>2, <1>3 DEF SecretsInv, ContentsInv, Typed
  <2>2. \A d \in {credential, session, fresh} \ {None} : heap'[d] \in Plain
    BY <1>0, <1>2, <1>3 DEF SecretsInv, ContentsInv, Typed
  <2>3. /\ \A d \in displaced \ {b} : heap'[d] \in Plain
        /\ \A d \in forgotten \ {b} : heap'[d] # "free"
    BY <1>0, <1>3 DEF SecretsInv, ContentsInv, Typed
  <2> QED BY <1>1, <2>1, <2>2, <2>3 DEF ContentsInv
<1>8. NothingLeftInClear'
  <2> SUFFICES ASSUME NEW d \in Buffers, heap'[d] \in Plain
               PROVE  d \in Held' \cup displaced' \cup forgotten'
    BY <1>1 DEF SecretsInv, NothingLeftInClear
  <2>1. d # b
    BY <1>3 DEF Plain
  <2>2. d \in Held \cup displaced \cup forgotten
    BY <1>3, <2>1 DEF SecretsInv, NothingLeftInClear
  <2> QED BY <1>1, <2>1, <2>2 DEF Held
<1>9. \A d \in {exposed, listener} \ {None} : heap'[d] # "free"
  <2>1. \A d \in {exposed, listener} \ {None} : heap[d] # "free" /\ d \in Buffers
    BY <1>0, HeldFacts DEF SecretsInv, Typed
  <2> QED BY <1>2, <1>3, <2>1
<1> QED BY <1>1, <1>4, <1>5, <1>6, <1>7, <1>8, <1>9, Assemble

LEMMA StillSecrets == ASSUME SecretsInv, UNCHANGED vars PROVE SecretsInv'
<1>1. UNCHANGED <<kind, heap, caller, credential, session, generation, ended, loginVars,
                  listener, auth, header, displaced, forgotten>>
  BY DEF vars
<1>2. Typed'
  BY <1>1, TypedFacts DEF SecretsInv, Typed
<1>3. HoldersApart' /\ RequestsBorrow' /\ ContentsInv' /\ LoginHolds'
  BY <1>1 DEF SecretsInv, HoldersApart, RequestsBorrow, ContentsInv, LoginHolds
<1>4. Held' = Held
  BY <1>1 DEF Held
<1> QED BY <1>1, <1>2, <1>3, <1>4, PassOn

LEMMA NextSecrets == ASSUME SecretsInv, [Next]_vars PROVE SecretsInv'
<1>1. CASE Construct
  BY <1>1, ConstructKeeps
<1>2. CASE Listen
  BY <1>2, ListenKeeps
<1>3. ASSUME NEW h \in Handed, CallerZeroes(h) PROVE SecretsInv'
  BY <1>3, CallerZeroesKeeps
<1>4. CASE EstablishPassword \/ EstablishToken
  BY <1>4, EstablishPasswordKeeps, EstablishTokenKeeps
<1>5. CASE Mint
  BY <1>5, MintKeeps
<1>6. CASE LoginFails
  BY <1>6, LoginFailsKeeps
<1>7. CASE Publish
  BY <1>7, PublishKeeps
<1>8. CASE Superseded
  BY <1>8, SupersededKeeps
<1>9. CASE End
  BY <1>9, EndKeeps
<1>10. ASSUME NEW r \in Requests, Authorize(r) PROVE SecretsInv'
  BY <1>10, AuthorizeKeeps
<1>11. ASSUME NEW r \in Requests, MakeHeader(r) PROVE SecretsInv'
  BY <1>11, MakeHeaderKeeps
<1>12. ASSUME NEW b \in Buffers, Collect(b) PROVE SecretsInv'
  BY <1>12, CollectKeeps
<1>13. CASE UNCHANGED vars
  BY <1>13, StillSecrets
<1> QED BY <1>1, <1>2, <1>3, <1>4, <1>5, <1>6, <1>7, <1>8, <1>9, <1>10, <1>11, <1>12, <1>13
        DEF Next

-----------------------------------------------------------------------------
(***************************************************************************)
(* The theorems.                                                           *)
(***************************************************************************)

(* The inductive invariant: who may hold which array together, and what it *)
(* holds (secret.go, credentials.go:184-197, refresh.go:97-132).           *)
THEOREM SecretsInvariance == Spec => []SecretsInv
<1>1. Init => SecretsInv
  BY InitSecrets
<1>2. SecretsInv /\ [Next]_vars => SecretsInv'
  BY NextSecrets
<1> QED BY <1>1, <1>2, PTL DEF Spec

(* Every variable stays in its range; no array that is held is handed out  *)
(* again (secret.go).                                                      *)
THEOREM SecretTypes == Spec => []TypeOK
<1>1. SecretsInv => TypeOK
  BY DEF SecretsInv
<1> QED BY <1>1, SecretsInvariance, PTL

(* The credential, the session's token and the tokens of requests under    *)
(* way keep their contents, whoever wipes what (credentials.go:514-516,    *)
(* client.go:143-148, refresh.go:124-131).                                 *)
THEOREM SecretsSurvive == Spec => []NeededSecretsSurvive
<1>1. ASSUME SecretsInv PROVE NeededSecretsSurvive
  <2>1. "wiped" \notin Plain
    BY DEF Plain
  <2>2. KeptSecretsSurvive
    BY <1>1, <2>1 DEF SecretsInv, ContentsInv, KeptSecretsSurvive
  <2>3. NoWipeUnderReader
    BY <1>1, <2>1 DEF SecretsInv, ContentsInv, RequestsBorrow, NoWipeUnderReader
  <2> QED BY <2>2, <2>3 DEF NeededSecretsSurvive
<1>2. SecretsInv => NeededSecretsSurvive
  BY <1>1
<1> QED BY <1>2, SecretsInvariance, PTL

(* No array of a Secret that the library copied is in clear but those      *)
(* somebody holds, the displaced session tokens (refresh.go:124-131) and   *)
(* the copy that establishing a token credential exposes                   *)
(* (credentials.go:246); a password leaves none.                           *)
THEOREM NothingIsLeft == Spec => []NothingLeftInClear
<1>1. SecretsInv => NothingLeftInClear
  BY DEF SecretsInv
<1> QED BY <1>1, SecretsInvariance, PTL

-----------------------------------------------------------------------------
(***************************************************************************)
(* The session these holders are about keeps the promise that module       *)
(* Session keeps in detail.                                                *)
(***************************************************************************)
Promise == INSTANCE SessionPromise WITH
  phase      <- IF ended THEN "ended" ELSE IF generation = 0 THEN "new" ELSE "live",
  generation <- IF ended THEN 0 ELSE generation,
  renewing   <- IF login = "idle" THEN 0 ELSE observed

ImplementsPromise == Promise!Spec

(* The session has another array only when it starts, is renewed or ends.  *)
TokenFollowsSession ==
  [][session' # session => Promise!Start \/ Promise!Renew \/ Promise!End]_vars

LEMMA SessionTypes ==
  ASSUME SecretsInv
  PROVE  /\ generation \in Nat /\ observed \in Nat /\ ended \in BOOLEAN
         /\ login \in {"idle", "asking", "fresh"}
         /\ ended => session = None
BY MaxGenAssumption DEF SecretsInv, TypeOK

(* A login begins, ends or is published; the rest does not touch the       *)
(* session.                                                                *)
LEMMA SecretsPromise ==
  ASSUME SecretsInv, [Next]_vars
  PROVE  /\ [Promise!Next]_(Promise!vars)
         /\ session' # session => Promise!Start \/ Promise!Renew \/ Promise!End
<1>1. ASSUME UNCHANGED <<session, generation, ended, login, observed>>
      PROVE  UNCHANGED Promise!vars /\ UNCHANGED session
  BY <1>1 DEF Promise!vars
<1>2. CASE EstablishPassword \/ EstablishToken
  <2>1. /\ login = "idle" /\ ~ended /\ observed' = generation /\ login' \in {"asking", "fresh"}
        /\ UNCHANGED <<session, generation, ended>>
    BY <1>2 DEF EstablishPassword, EstablishToken, LoginBegins
  <2>2. CASE generation = 0
    BY <2>1, <2>2 DEF Promise!vars
  <2>3. CASE generation # 0
    <3>1. Promise!BeginRenewal
      BY <2>1, <2>3 DEF Promise!BeginRenewal
    <3> QED BY <2>1, <3>1 DEF Promise!Next
  <2> QED BY <2>2, <2>3
<1>3. CASE Mint
  <2>1. login = "asking" /\ login' = "fresh" /\ UNCHANGED <<session, generation, ended, observed>>
    BY <1>3 DEF Mint
  <2> QED BY <2>1 DEF Promise!vars
<1>4. CASE LoginFails \/ Superseded
  <2>1. /\ login # "idle" /\ login' = "idle"
        /\ UNCHANGED <<session, generation, ended, observed>>
    BY <1>4 DEF LoginFails, Superseded
  <2>2. CASE observed = 0
    BY <2>1, <2>2 DEF Promise!vars
  <2>3. CASE observed # 0
    <3>1. Promise!AbandonRenewal
      BY <2>1, <2>3 DEF Promise!AbandonRenewal
    <3> QED BY <2>1, <3>1 DEF Promise!Next
  <2> QED BY <2>2, <2>3
<1>5. CASE Publish
  <2>1. /\ login = "fresh" /\ observed = generation /\ ~ended
        /\ generation' = generation + 1 /\ login' = "idle" /\ UNCHANGED <<ended, observed>>
    BY <1>5 DEF Publish
  <2>2. generation \in Nat /\ generation + 1 # 0
    BY SessionTypes
  <2>3. CASE generation = 0
    <3>1. Promise!Start
      BY <2>1, <2>2, <2>3 DEF Promise!Start
    <3> QED BY <3>1 DEF Promise!Next
  <2>4. CASE generation # 0
    <3>1. Promise!Renew
      BY <2>1, <2>2, <2>4 DEF Promise!Renew
    <3> QED BY <3>1 DEF Promise!Next
  <2> QED BY <2>3, <2>4
<1>6. CASE End
  <2>1. ~ended /\ ended' = TRUE /\ UNCHANGED <<generation, login, observed>>
    BY <1>6 DEF End
  <2>2. Promise!End
    BY <2>1 DEF Promise!End
  <2> QED BY <2>2 DEF Promise!Next
<1>7. CASE \/ Construct \/ Listen \/ (\E h \in Handed : CallerZeroes(h))
           \/ (\E r \in Requests : Authorize(r) \/ MakeHeader(r))
           \/ (\E b \in Buffers : Collect(b)) \/ UNCHANGED vars
  BY <1>1, <1>7 DEF Construct, Listen, CallerZeroes, Authorize, MakeHeader, Collect, vars
<1> QED BY <1>2, <1>3, <1>4, <1>5, <1>6, <1>7 DEF Next

(* Whoever wipes or collects what, the session starts once, is renewed by  *)
(* one login at a time and ends for good, and the token it hands to        *)
(* requests changes with it and never otherwise (client.go:105,            *)
(* refresh.go:108-132, client.go:143-148).                                 *)
THEOREM SecretsKeepThePromise == Spec => ImplementsPromise /\ TokenFollowsSession
<1>1. Init => Promise!Init
  BY DEF Init, Promise!Init
<1>2. SecretsInv /\ [Next]_vars =>
        [session' # session => Promise!Start \/ Promise!Renew \/ Promise!End]_vars
  BY SecretsPromise
<1>3. SecretsInv /\ [Next]_vars => [Promise!Next]_(Promise!vars)
  BY SecretsPromise
<1> QED BY <1>1, <1>2, <1>3, SecretsInvariance, PTL
        DEF Spec, ImplementsPromise, TokenFollowsSession, Promise!Spec
=============================================================================
