---------------------------- MODULE MCLiveTests -----------------------------
(***************************************************************************)
(* Model checking of what the live tests do to the appliance they share: a *)
(* behaviour either stands up and tears down objects (Provisioning) or     *)
(* toggles grants (GrantSetting).                                          *)
(***************************************************************************)
EXTENDS Naturals, Sequences

CONSTANTS
  Plans, MaxRuns, MaxFaults,
  Grants, Packages, MaxLen

(* The grants the live tests of the root package and of devicecode toggle. *)
Tests ==
  [root |-> <<[grant |-> "ResourceOwner", enabled |-> TRUE]>>,
   devicecode |-> <<[grant |-> "DeviceCode", enabled |-> TRUE],
                    [grant |-> "DeviceCode", enabled |-> FALSE]>>]

VARIABLES
  does,
  plan, run, phase, at, known, tracked, todo, open, objects, faults, left, conflict,
  setting, initial, testPc, test, original, lost

Objects == INSTANCE Provisioning
Setting == INSTANCE GrantSetting WITH pc <- testPc, at <- test

ASSUME LiveTestsAssumption == Objects!Assumptions /\ Setting!Assumptions

objectVars  == <<plan, run, phase, at, known, tracked, todo, open, objects, faults, left, conflict>>
settingVars == <<setting, initial, testPc, test, original, lost>>
testsVars == <<does, objectVars, settingVars>>

TestsInit ==
  /\ does \in {"provision", "toggle"}
  /\ does = "provision" => setting = <<>>
  /\ does = "toggle" => plan = "a2a"
  /\ Objects!Init /\ Setting!Init

TestsNext ==
  \/ does = "provision" /\ Objects!Next /\ UNCHANGED <<does, settingVars>>
  \/ does = "toggle" /\ Setting!Next /\ UNCHANGED <<does, objectVars>>

TestsSpec == TestsInit /\ [][TestsNext]_testsVars

-----------------------------------------------------------------------------
(* Every variable stays in its range (the modules' TypeOK). *)
TestsTypeOK == Objects!TypeOK /\ Setting!TypeOK

(* Provisioning: once the temporary admin is connected, a test ends with   *)
(* every object it knows deleted, in an order the appliance accepts, but   *)
(* for what an object whose Id never arrived refers to.                    *)
TrackedTornDown == TestsTypeOK /\ Objects!TrackedTornDown

(* Provisioning: a test interrupted anywhere does not make the next one    *)
(* fail.                                                                   *)
RerunNotBlocked == Objects!RerunNotBlocked

(* GrantSetting: a test's grant is in effect while its body runs, and the  *)
(* list is back to what it was when the tests of a package are over.       *)
SettingRestored == Setting!GrantInEffect /\ Setting!SettingRestored
=============================================================================
