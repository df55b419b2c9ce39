------------------------------ MODULE Providers ------------------------------
(***************************************************************************)
(* How a login names its identity provider (internal/auth/providers.go):   *)
(* matchProvider and the two lookups built on it, against the order its    *)
(* comment states.                                                         *)
(*                                                                         *)
(* A name is a sequence of letters, each <<letter, upper case>>, so that   *)
(* case folding and substrings are what they are in the code.              *)
(***************************************************************************)
EXTENDS Naturals, Sequences, FiniteSets

CONSTANTS
  Letters,       \* letters of names and ids
  MaxName,       \* bound: letters of a name or an id
  MaxProviders   \* bound: providers the appliance lists

Assumptions == MaxName \in Nat /\ MaxProviders \in Nat

VARIABLES
  providers,  \* the list, in the appliance's order
  listed,     \* whether the lookup succeeded
  asked,      \* the caller's identifier, trimmed
  default,    \* "local" or "certificate"
  scope,      \* the scope of the grant
  directory   \* the directoryComboBox of the form

vars == <<providers, listed, asked, default, scope, directory>>

Chars == Letters \X BOOLEAN
Names == UNION {[1 .. n -> Chars] : n \in 0 .. MaxName}
Lower(name) == [i \in DOMAIN name |-> name[i][1]]
EqualFold(a, b) == Lower(a) = Lower(b)
Contains(name, sub) ==
  \E k \in 0 .. Len(name) : k + Len(sub) <= Len(name) /\ SubSeq(name, k + 1, k + Len(sub)) = sub

(* An entry: its display name, its id, and its scope, which is that entry's *)
(* own.                                                                    *)
Lists == UNION {[1 .. n -> [name : Names, id : Names]] : n \in 0 .. MaxProviders}

\* Mutant: a name wins over an id.
MatchPredicatesSwapped(id) ==
  <<{p \in DOMAIN providers : EqualFold(providers[p].name, id)},
    {p \in DOMAIN providers : EqualFold(providers[p].id, id)},
    {p \in DOMAIN providers : Contains(Lower(providers[p].id), Lower(id))}>>

(* The entries each of the three passes accepts. *)
MatchPredicates(id) ==
  <<{p \in DOMAIN providers : EqualFold(providers[p].id, id)},
    {p \in DOMAIN providers : EqualFold(providers[p].name, id)},
    {p \in DOMAIN providers : Contains(Lower(providers[p].id), Lower(id))}>>

(* matchProvider: the first entry of the first pass that accepts one, 0 if *)
(* none does.                                                              *)
matchProvider(id) ==
  LET hits == {k \in 1 .. 3 : MatchPredicates(id)[k] # {}}
      pass == CHOOSE k \in hits : \A j \in hits : k <= j
  IN  IF hits = {} THEN 0
      ELSE CHOOSE p \in MatchPredicates(id)[pass] : \A q \in MatchPredicates(id)[pass] : p <= q

(* resolveScope: the scope of an entry, or one built on an identifier. *)
resolveScope(id) ==
  IF id = <<>> THEN <<"default", default>>
  ELSE IF ~listed \/ matchProvider(id) = 0 THEN <<"built", id>>
  ELSE <<"entry", matchProvider(id)>>

(* resolveProviderID. *)
resolveProviderID(id) ==
  IF id = <<>> THEN <<"default", default>>
  ELSE IF ~listed \/ matchProvider(id) = 0 THEN <<"id", id>>
  ELSE <<"id", providers[matchProvider(id)].id>>

Init ==
  /\ providers \in Lists
  /\ listed \in BOOLEAN
  /\ asked \in Names
  /\ default \in {"local", "certificate"}
  /\ scope = <<"none", 0>>
  /\ directory = <<"none", 0>>

Resolve ==
  /\ scope[1] = "none"
  /\ scope' = resolveScope(asked)
  /\ directory' = resolveProviderID(asked)
  /\ UNCHANGED <<providers, listed, asked, default>>

Next == Resolve
Spec == Init /\ [][Next]_vars

-----------------------------------------------------------------------------
(* The entry an id or a name denotes exactly wins over any that only holds *)
(* the identifier somewhere in its id, wherever the appliance lists it     *)
(* (providers.go:88-91).                                                   *)
ExactWins ==
  scope[1] # "none" /\ listed /\ asked # <<>> =>
    LET ids   == {p \in DOMAIN providers : EqualFold(providers[p].id, asked)}
        names == {p \in DOMAIN providers : EqualFold(providers[p].name, asked)}
    IN  /\ ids # {} => scope[1] = "entry" /\ scope[2] \in ids
        /\ ids = {} /\ names # {} => scope[1] = "entry" /\ scope[2] \in names

(* The password login and the PKCE login of one identifier log in to the   *)
(* same provider (providers.go:89-91).                                     *)
BothLoginsAgree ==
  /\ scope[1] = "entry" => directory = <<"id", providers[scope[2]].id>>
  /\ scope[1] = "built" => directory = <<"id", scope[2]>>
  /\ scope[1] = "default" => directory = scope
=============================================================================
