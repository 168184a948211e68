SPECIFICATION Spec
CONSTANTS
  Servers = {1, 2, 3}
  Catalog <- Larger3
  Load <- AllOne
  Hold <- AllTwo
  ConnectionHold = 1
  ControlProfiles = {"control"}
  Month = 3
  Hour = 2
  BackupPrice = 1
  InitialServers = {1, 2}
  InitialDatabase = 2
  InitialData = 1
  InitialLogs = 1
  Schedule <- Disks
  EndsAt = 4
  Provisioning = 1
  MaxCommands = 7
  Durations = {1, 2}
  Filters <- AnyError
  RuleIds = {1}
  RuleBodies <- SomeRules
  Probes = {100}
  ProbeProfile = "visitor"
  Backups = {1, 2}
  Allowed = {"server.create", "server.delete", "database.create", "database.backup", "database.restore", "disk.cleanup", "site.stop", "site.start", "site.database.set"}
CHECK_DEADLOCK FALSE
INVARIANT DecidedEventsApply
INVARIANT SwitchKeepsData
INVARIANT SummaryAgrees
INVARIANT BillIndependentOfSlicing
