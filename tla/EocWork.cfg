SPECIFICATION WorkSpec
CONSTANTS
  NumTables = 1
  NumFiles = 1
  Packages = {"upgrade", "firmware"}
  MaxConfigs = 2
  Unversioned = {2}
  MaxUpgrades = 2
  MaxFailures = 1
INVARIANTS WorkTypeOK VersionNotAhead
PROPERTIES AsksUntilVersion OneTaskIsDone
