---------------------------- MODULE GrantSetting ----------------------------
(***************************************************************************)
(* The appliance's list of OAuth2 grant types, which live tests toggle and *)
(* restore (internal/livetest/livetest.go:120-153, 674-729).  go test runs *)
(* the packages it is given in parallel, one process each, and the tests   *)
(* of a package one after the other.                                       *)
(***************************************************************************)
EXTENDS Naturals, SequencesExt

CONSTANTS
  Grants,      \* the names of grant types
  Packages,    \* test packages
  Tests,       \* what the tests of each package toggle: [grant, enabled]
  MaxLen       \* bound: entries of the list at first

Assumptions ==
  /\ \A p \in Packages :
       Tests[p] # <<>> /\ Tests[p] \in Seq([grant : Grants, enabled : BOOLEAN])
  /\ MaxLen \in Nat

VARIABLES
  setting,   \* the list: names, each as the tests spell it or in another case
  initial,   \* the list before any test
  pc,        \* a package: "read", "write", "body" or "done"
  at,        \* the test it runs
  original,  \* the list its test read
  lost       \* a PUT was answered by an error

vars == <<setting, initial, pc, at, original, lost>>

Entries == Grants \X {"same", "other"}
EqualFold(entry, grant) == entry[1] = grant
HasGrant(list, grant) == \E i \in DOMAIN list : EqualFold(list[i], grant)
Distinct(list) ==
  \A i, j \in DOMAIN list : i # j => ~EqualFold(list[i], list[j][1])

(* applyGrant's pass over the list, without the entries that are the grant. *)
Without(list, grant) ==
  LET kept[n \in 0 .. Len(list)] ==
        IF n = 0 THEN <<>>
        ELSE IF EqualFold(list[n], grant) THEN kept[n - 1]
        ELSE Append(kept[n - 1], list[n])
  IN  kept[Len(list)]

ApplyGrant(list, grant, enabled) ==
  IF ~enabled THEN Without(list, grant)
  ELSE IF HasGrant(list, grant) THEN list ELSE Append(list, <<grant, "same">>)

Test(p) == Tests[p][at[p]]

Init ==
  /\ setting \in {l \in SeqOf(Entries, MaxLen) : Distinct(l)}
  /\ initial = setting
  /\ pc = [p \in Packages |-> "read"]
  /\ at = [p \in Packages |-> 1]
  /\ original = [p \in Packages |-> <<>>]
  /\ lost = FALSE

Read(p) ==
  /\ pc[p] = "read"
  /\ original' = [original EXCEPT ![p] = setting]
  /\ pc' = [pc EXCEPT ![p] = "write"]
  /\ UNCHANGED <<setting, initial, at, lost>>

(* putGrantValue: an error may come after the change as well as before. *)
Put(list, ok) ==
  IF ok THEN setting' = list /\ UNCHANGED lost
  ELSE setting' \in {setting, list} /\ lost' = TRUE

NextTest(p) ==
  IF at[p] < Len(Tests[p])
    THEN pc' = [pc EXCEPT ![p] = "read"] /\ at' = [at EXCEPT ![p] = @ + 1]
    ELSE pc' = [pc EXCEPT ![p] = "done"] /\ UNCHANGED at

(* A test whose PUT fails ends here, with nothing to restore yet. *)
Write(p) ==
  /\ pc[p] = "write"
  /\ LET desired == ApplyGrant(original[p], Test(p).grant, Test(p).enabled)
     IN \/ /\ IF desired = original[p] THEN UNCHANGED <<setting, lost>> ELSE Put(desired, TRUE)
           /\ pc' = [pc EXCEPT ![p] = "body"] /\ UNCHANGED at
        \/ desired # original[p] /\ Put(desired, FALSE) /\ NextTest(p)
  /\ UNCHANGED <<initial, original>>

\* Mutant: the change is undone instead of the value put back.
RestoreInverse(p) ==
  /\ pc[p] = "body"
  /\ \E ok \in BOOLEAN : Put(ApplyGrant(setting, Test(p).grant, ~Test(p).enabled), ok)
  /\ NextTest(p)
  /\ UNCHANGED <<initial, original>>

(* The test's body is over, and its deferred restore runs. *)
Restore(p) ==
  /\ pc[p] = "body"
  /\ \E ok \in BOOLEAN : Put(original[p], ok)
  /\ NextTest(p)
  /\ UNCHANGED <<initial, original>>

Next == \E p \in Packages : Read(p) \/ Write(p) \/ Restore(p)

Spec == Init /\ [][Next]_vars

-----------------------------------------------------------------------------
(***************************************************************************)
(* Properties                                                              *)
(***************************************************************************)

(* Every variable stays in its range; the list names no grant twice. *)
TypeOK ==
  /\ setting \in Seq(Entries) /\ Distinct(setting)
  /\ initial \in Seq(Entries)
  /\ pc \in [Packages -> {"read", "write", "body", "done"}]
  /\ \A p \in Packages : at[p] \in DOMAIN Tests[p]
  /\ original \in [Packages -> Seq(Entries)]
  /\ lost \in BOOLEAN

(* The grant a test asked for is on, or off, while its body runs, in       *)
(* whatever case the appliance spells it (livetest.go:120-131).            *)
GrantInEffect ==
  \A p \in Packages : pc[p] = "body" /\ ~lost =>
                        (HasGrant(setting, Test(p).grant) <=> Test(p).enabled)

(* When the tests are over the list is what it was before, unless a PUT    *)
(* failed (livetest.go:122-124).  It is stated for one package at a time:  *)
(* of two in parallel, each may put back what the other changed.           *)
SettingRestored ==
  (\A p \in Packages : pc[p] = "done") /\ ~lost => setting = initial
=============================================================================
