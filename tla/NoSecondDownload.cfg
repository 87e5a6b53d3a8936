SPECIFICATION WorkSpec
CONSTANTS
  NumTables = 1
  NumFiles = 1
  Packages = {"upgrade"}
  MaxConfigs = 1
  Unversioned = {}
  MaxUpgrades = 2
  MaxFailures = 1
PROPERTIES DownloadIsAdded
CHECK_DEADLOCK FALSE
