SPECIFICATION Spec
CONSTANTS
  Servers = {1, 2, 3}
  Catalog <- Cloud3
  Load <- AllOne
  Hold <- AllTwo
  ConnectionHold = 1
  ControlProfiles = {"control"}
  Month = 4
  Hour = 2
  BackupPrice = 1
  InitialServers = {1, 2}
  InitialDatabase = 2
  InitialData = 1
  InitialLogs = 0
  Schedule <- Disks
  EndsAt = 6
  Provisioning = 1
  MaxCommands = 2
  Durations = {1, 2}
  Filters <- AnyError
  RuleIds = {1}
  RuleBodies <- SomeRules
  Probes = {100}
  ProbeProfile = "visitor"
  Backups = {1}
  Allowed = {"server.create", "server.delete"}
CHECK_DEADLOCK FALSE
INVARIANT TimeCanAlwaysPass
