SPECIFICATION Spec
CONSTANTS
  Servers = {1, 2, 3}
  Catalog <- Cloud3
  Load <- AllOne
  Hold <- AllTwo
  ConnectionHold = 1
  ControlProfiles = {"control"}
  Month = 4
  Hour = 2
  BackupPrice = 1
  InitialServers = {1, 2}
  InitialDatabase = 2
  InitialData = 1
  InitialLogs = 0
  Schedule <- Traffic
  EndsAt = 6
  Provisioning = 1
  MaxCommands = 4
  Durations = {1, 2, 4}
  Filters <- SomeErrors
  RuleIds = {1}
  RuleBodies <- SomeRules
  Probes = {100}
  ProbeProfile = "visitor"
  Backups = {1}
  Allowed = {"probe", "server.create", "server.delete", "firewall.rules.upsert", "firewall.rules.delete", "site.stop", "site.start"}
CHECK_DEADLOCK FALSE
INVARIANT TypeOK
INVARIANT DecidedEventsApply
INVARIANT ReplayRestoresSession
INVARIANT WorldHappensOnTime
INVARIANT AvailabilityCurrent
INVARIANT ConnectionsCounted
INVARIANT CapacityConserved
INVARIANT OperationsSettle
INVARIANT SummaryAgrees
INVARIANT BillIndependentOfSlicing
