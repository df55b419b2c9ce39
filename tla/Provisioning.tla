---------------------------- MODULE Provisioning ----------------------------
(***************************************************************************)
(* The live tests' provisioning (internal/livetest/livetest.go): a test    *)
(* creates a chain of objects on a shared appliance, call by call, and     *)
(* must leave none behind, though any call may be refused or its answer    *)
(* lost, and the test may be killed and run again.                         *)
(*                                                                         *)
(* The appliance is external: it deletes no object another one refers to,  *)
(* and trusts no certificate twice.                                        *)
(***************************************************************************)
EXTENDS Naturals, SequencesExt

CONSTANTS
  Plans,      \* what the tests stand up: "a2a", "broker"
  MaxRuns,    \* bound: tests run, one after the other
  MaxFaults   \* bound: calls refused, lost or answered without an Id, and kills

Assumptions ==
  /\ Plans \subseteq {"a2a", "broker"}
  /\ MaxRuns \in Nat /\ MaxFaults \in Nat

(***************************************************************************)
(* The plans.  A step creates the object it is named for, or no object.    *)
(***************************************************************************)
A2ASteps ==
  <<"enable", "clear", "trusted", "certUser", "admin", "adminPassword", "connect",
    "asset", "account", "accountPassword", "sshKey", "apiKey", "clientSecret",
    "registration", "retrievable", "retrievable", "retrievable">>

\* Mutant: the account is deleted before the registration that retrieves it.
A2ACleanupSwapped ==
  <<"account", "registration", "asset", "close", "certUser", "trusted", "admin">>

A2ACleanup ==
  <<"registration", "account", "asset", "close", "certUser", "trusted", "admin">>

BrokerSteps ==
  <<"enable", "clear", "trusted", "certUser", "admin", "adminPassword", "connect",
    "asset", "account", "accountPassword", "forUser", "forUserPassword", "role", "policy",
    "registration", "broker">>
BrokerCleanup ==
  <<"policy", "role", "broker", "registration", "account", "asset", "close", "forUser",
    "certUser", "trusted", "admin">>

Steps(plan) == IF plan = "a2a" THEN A2ASteps ELSE BrokerSteps
Cleanup(plan) == IF plan = "a2a" THEN A2ACleanup ELSE BrokerCleanup

Objects == {"trusted", "certUser", "admin", "asset", "account", "forUser", "role", "policy",
            "registration", "broker"}

(* Whose client makes the call: the temporary admin's, once connected. *)
ByAdmin == {"asset", "account", "accountPassword", "sshKey", "apiKey", "clientSecret", "role",
            "policy", "registration", "broker", "retrievable"}

(* What the appliance will not delete while it has the objects named. *)
Refers(o) ==
  CASE o = "asset" -> {"account", "registration", "broker"}
    [] o = "account" -> {"policy", "registration", "broker"}
    [] o = "role" -> {"policy"}
    [] o = "forUser" -> {"role", "broker"}
    [] o = "certUser" -> {"registration"}
    [] o = "registration" -> {"broker"}
    [] OTHER -> {}

VARIABLES
  plan, run,   \* what the present test stands up, and its number
  phase,       \* "provision", "body", "teardown" or "done"
  at,          \* provision: the step to take
  known,       \* the objects whose Ids the test holds
  tracked,     \* the deferred cleanup is in place
  todo,        \* teardown: the deletions left
  open,        \* the temporary admin's client is open
  objects,     \* on the appliance: pairs of an object and its test's number
  faults,      \* calls that failed
  left,        \* a deletion of this run was lost, or its test killed
  conflict     \* a certificate was refused although its deletion had succeeded

testVars == <<plan, run, phase, at, known, tracked, todo, open>>
vars == <<testVars, objects, faults, left, conflict>>

(* Names are random but for the certificate's, its thumbprint. *)
Name(o) == <<o, IF o = "trusted" THEN 0 ELSE run>>
Exists(o) == Name(o) \in objects
Step == Steps(plan)[at]

Init ==
  /\ plan \in Plans /\ run = 0 /\ phase = "done"
  /\ at = 1 /\ known = {} /\ tracked = FALSE /\ todo = <<>> /\ open = FALSE
  /\ objects = {} /\ faults = 0 /\ left = FALSE /\ conflict = FALSE

Begin ==
  /\ phase = "done" /\ run < MaxRuns
  /\ plan' \in Plans /\ run' = run + 1
  /\ phase' = "provision" /\ at' = 1 /\ known' = {} /\ tracked' = FALSE
  /\ todo' = <<>> /\ open' = FALSE /\ left' = FALSE
  /\ UNCHANGED <<objects, faults, conflict>>

(* What a failed step undoes before the test ends. *)
Undoes(step) ==
  CASE tracked -> Cleanup(plan)
    [] step = "certUser" -> <<"trusted">>
    [] step \in {"adminPassword", "connect"} -> <<"admin", "certUser", "trusted">>
    [] OTHER -> <<>>

Teardown(deletions) == phase' = "teardown" /\ todo' = deletions

\* Mutant: the certificate of an interrupted run is left alone.
ClearNothing ==
  /\ phase = "provision" /\ Step = "clear"
  /\ at' = at + 1
  /\ UNCHANGED <<plan, run, phase, known, tracked, todo, open, objects, faults, left, conflict>>

(* The certificate of an interrupted run is deleted, if there is one; *)
(* the outcome is ignored.                                            *)
Clear ==
  /\ phase = "provision" /\ Step = "clear"
  /\ at' = at + 1
  /\ \/ objects' = objects \ {Name("trusted")} /\ UNCHANGED <<faults, left>>
     \/ /\ faults < MaxFaults /\ faults' = faults + 1 /\ left' = TRUE
        /\ UNCHANGED objects
  /\ UNCHANGED <<plan, run, phase, known, tracked, todo, open, conflict>>

Creates == Step \in Objects
Refused == Step = "trusted" /\ Exists("trusted")

StepDone ==
  /\ phase = "provision" /\ Step # "clear" /\ ~Refused
  /\ objects' = IF Creates THEN objects \cup {Name(Step)} ELSE objects
  /\ known' = IF Creates THEN known \cup {Step} ELSE known
  /\ open' = (open \/ Step = "connect")
  /\ tracked' = (tracked \/ Step = "connect")
  /\ IF at = Len(Steps(plan)) THEN phase' = "body" /\ UNCHANGED at
     ELSE at' = at + 1 /\ UNCHANGED phase
  /\ UNCHANGED <<plan, run, todo, faults, left, conflict>>

(* A step's call is refused, or done and its answer lost or without an Id; *)
(* the broker is known of before its answer is decoded.                    *)
StepFails ==
  /\ phase = "provision" /\ Step # "clear" /\ (Refused \/ faults < MaxFaults)
  /\ faults' = IF Refused THEN faults ELSE faults + 1
  /\ conflict' = (conflict \/ (Refused /\ ~left))
  /\ \E did \in BOOLEAN :
       /\ did => Creates /\ ~Refused
       /\ objects' = IF did THEN objects \cup {Name(Step)} ELSE objects
       /\ known' \in {known} \cup (IF did /\ Step = "broker" THEN {known \cup {Step}} ELSE {})
  /\ Teardown(Undoes(Step))
  /\ UNCHANGED <<plan, run, at, tracked, open, left>>

(* The certificate user was created and its answer is no JSON: this        *)
(* failure undoes nothing.                                                 *)
CertUserUndecoded ==
  /\ phase = "provision" /\ Step = "certUser" /\ faults < MaxFaults
  /\ faults' = faults + 1
  /\ objects' = objects \cup {Name("certUser")}
  /\ Teardown(<<>>)
  /\ UNCHANGED <<plan, run, at, known, tracked, open, left, conflict>>

(* It was created and its answer has no Id, which is not looked at: the    *)
(* test goes on, and its cleanup will delete the user of Id 0.             *)
CertUserWithoutId ==
  /\ phase = "provision" /\ Step = "certUser" /\ faults < MaxFaults
  /\ faults' = faults + 1
  /\ objects' = objects \cup {Name("certUser")}
  /\ at' = at + 1
  /\ UNCHANGED <<plan, run, phase, known, tracked, todo, open, left, conflict>>

BodyEnds ==
  /\ phase = "body"
  /\ Teardown(Cleanup(plan))
  /\ UNCHANGED <<plan, run, at, known, tracked, open, objects, faults, left, conflict>>

(* A deletion's outcome is ignored. *)
Delete ==
  /\ phase = "teardown" /\ todo # <<>>
  /\ todo' = Tail(todo)
  /\ LET o == Head(todo)
         allowed == /\ \A x \in Refers(o) : ~Exists(x)
                    /\ o \in ByAdmin => open /\ Exists("admin")
     IN IF o = "close" THEN open' = FALSE /\ UNCHANGED <<objects, faults, left>>
        ELSE IF o \notin known THEN UNCHANGED <<open, objects, faults, left>>
        ELSE /\ \/ /\ objects' = IF allowed THEN objects \ {Name(o)} ELSE objects
                   /\ UNCHANGED <<faults, left>>
                \/ /\ faults < MaxFaults /\ faults' = faults + 1 /\ left' = TRUE
                   /\ UNCHANGED objects
             /\ UNCHANGED open
  /\ UNCHANGED <<plan, run, phase, at, known, tracked, conflict>>

TornDown ==
  /\ phase = "teardown" /\ todo = <<>>
  /\ phase' = "done"
  /\ UNCHANGED <<plan, run, at, known, tracked, todo, open, objects, faults, left, conflict>>

(* The test's process is killed. *)
Kill ==
  /\ phase # "done" /\ faults < MaxFaults
  /\ faults' = faults + 1
  /\ phase' = "done" /\ left' = TRUE
  /\ UNCHANGED <<plan, run, at, known, tracked, todo, open, objects, conflict>>

Next ==
  \/ Begin \/ Clear \/ StepDone \/ StepFails \/ CertUserUndecoded \/ CertUserWithoutId
  \/ BodyEnds \/ Delete \/ TornDown \/ Kill

Spec == Init /\ [][Next]_vars

-----------------------------------------------------------------------------
(***************************************************************************)
(* Properties                                                              *)
(***************************************************************************)

(* Every variable stays in its range. *)
TypeOK ==
  /\ plan \in Plans /\ run \in 0 .. MaxRuns
  /\ phase \in {"provision", "body", "teardown", "done"}
  /\ at \in 1 .. Len(Steps(plan))
  /\ known \subseteq Objects
  /\ {tracked, open, left, conflict} \subseteq BOOLEAN
  /\ IsSuffix(todo, Cleanup(plan)) \/ IsSuffix(todo, <<"admin", "certUser", "trusted">>)
  /\ objects \subseteq Objects \X (0 .. MaxRuns)
  /\ faults \in 0 .. MaxFaults

(* An object this test knows of is left only for one that refers to it. *)
Cleared == \A o \in known : Exists(o) => \E x \in Refers(o) : Exists(x)

(* Once the temporary admin is connected, the test ends with every object  *)
(* it knows deleted, whichever later step fails, as each deletion comes    *)
(* after those of the objects that refer to it and before the client that  *)
(* may make it is closed; an object whose Id never arrived stays, and with *)
(* it what it refers to (livetest.go:208-213, 274, 318-347, 484-519).      *)
TrackedTornDown == phase = "done" /\ ~left /\ tracked => Cleared

(* A test interrupted anywhere does not make the next one fail             *)
(* (livetest.go:185-188).                                                  *)
RerunNotBlocked == ~conflict
=============================================================================
