\* Two tests, one after the other, with up to three failed calls or kills; or the grant tests of one package.
CONSTANTS
  Plans = {"a2a", "broker"}
  MaxRuns = 2
  MaxFaults = 3
  Grants = {"DeviceCode", "ResourceOwner"}
  Packages = {"devicecode"}
  MaxLen = 2
SPECIFICATION TestsSpec
INVARIANTS
  TrackedTornDown
  RerunNotBlocked
  SettingRestored
CHECK_DEADLOCK FALSE
