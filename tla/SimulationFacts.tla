--------------------------- MODULE SimulationFacts ---------------------------
(***************************************************************************)
(* What each event does to a world and to its capacity index, what it does *)
(* alike to a session and to its replay, and what a batch of events does:  *)
(* the facts that SimulationAdvance and SimulationProofs rest on.          *)
(***************************************************************************)
EXTENDS Simulation, FiniteSetTheorems, NaturalsInduction, SequenceTheorems, TLAPS

Fields == {"refused", "status", "now", "cursor", "site", "servers", "dbs", "growth",
           "conns", "counts", "capacity", "used", "indexed", "backups", "rules",
           "attacks", "firewallDown", "backendDown", "ops", "serverCost", "backupCost"}
Kept(x, y, F) == DOMAIN y = Fields /\ \A f \in Fields \ F : y[f] = x[f]

TimeTypes == {"TimeAdvanced", "RunEnded"}
CostTypes == {"InfrastructureCostAccrued", "BackupStorageCostAccrued"}
OperationTypes == {"OperationStarted", "OperationSucceeded"}
ServerTypes == {"ServerProvisioningStarted", "ServerActivated", "ServerDrainingStarted",
                "ServerRemoved", "BackendAvailabilityChanged"}
PageTypes == {"PageRequestStarted", "PageRequestAccepted", "PageRequestCompleted",
              "PageRequestRejected"}
TrafficTypes == {"VisitorArrived", "TrafficAttackStarted", "TrafficAttackEnded"}
FirewallTypes == {"FirewallRuleUpserted", "FirewallRuleDeleted", "FirewallAvailabilityChanged"}
DatabaseTypes == {"DatabaseCreated", "DatabaseDeleted", "DatabaseConnectionOpened",
                  "DatabaseConnectionReleased", "DatabaseConnectionRejected",
                  "DatabaseAvailabilityChanged"}
StorageTypes == {"DatabaseGrowthRequested", "DatabaseStorageIncreased", "DatabaseGrowthBlocked",
                 "DiskLogsCleaned", "DiskLogsGrowthRequested", "DiskLogsIncreased",
                 "DiskLogsGrowthBlocked"}
MigrationTypes == {"DatabaseBackupStarted", "DatabaseBackupCompleted", "DatabaseRestoreStarted",
                   "DatabaseRestoreCompleted", "SiteStopStarted", "SiteStopped",
                   "SiteDatabaseChanged", "SiteStarted"}

Handled(x, e) ==
  UNION {ApplyTime(x, e), ApplyCosts(x, e), ApplyOperations(x, e), ApplyServer(x, e),
         ApplyPages(x, e), ApplyTraffic(x, e), ApplyFirewall(x, e), ApplyDatabase(x, e),
         ApplyStorage(x, e), ApplyMigration(x, e)}

LEMMA OneGroup ==
    ASSUME NEW x, NEW e
    PROVE  /\ e.type \notin TimeTypes => ApplyTime(x, e) = {}
           /\ e.type \notin CostTypes => ApplyCosts(x, e) = {}
           /\ e.type \notin OperationTypes => ApplyOperations(x, e) = {}
           /\ e.type \notin ServerTypes => ApplyServer(x, e) = {}
           /\ e.type \notin PageTypes => ApplyPages(x, e) = {}
           /\ e.type \notin TrafficTypes => ApplyTraffic(x, e) = {}
           /\ e.type \notin FirewallTypes => ApplyFirewall(x, e) = {}
           /\ e.type \notin DatabaseTypes => ApplyDatabase(x, e) = {}
           /\ e.type \notin StorageTypes => ApplyStorage(x, e) = {}
           /\ e.type \notin MigrationTypes => ApplyMigration(x, e) = {}
<1>1. e.type \notin TimeTypes => ApplyTime(x, e) = {}
  BY DEF ApplyTime, TimeTypes
<1>2. e.type \notin CostTypes => ApplyCosts(x, e) = {}
  BY DEF ApplyCosts, CostTypes
<1>3. e.type \notin OperationTypes => ApplyOperations(x, e) = {}
  BY DEF ApplyOperations, OperationTypes
<1>4. e.type \notin ServerTypes => ApplyServer(x, e) = {}
  BY DEF ApplyServer, ServerTypes
<1>5. e.type \notin PageTypes => ApplyPages(x, e) = {}
  BY DEF ApplyPages, PageTypes
<1>6. e.type \notin TrafficTypes => ApplyTraffic(x, e) = {}
  BY DEF ApplyTraffic, TrafficTypes
<1>7. e.type \notin FirewallTypes => ApplyFirewall(x, e) = {}
  BY DEF ApplyFirewall, FirewallTypes
<1>8. e.type \notin DatabaseTypes => ApplyDatabase(x, e) = {}
  BY DEF ApplyDatabase, DatabaseTypes
<1>9. e.type \notin StorageTypes => ApplyStorage(x, e) = {}
  BY DEF ApplyStorage, StorageTypes
<1>10. e.type \notin MigrationTypes => ApplyMigration(x, e) = {}
  BY DEF ApplyMigration, MigrationTypes
<1> QED
  BY <1>1, <1>2, <1>3, <1>4, <1>5, <1>6, <1>7, <1>8, <1>9, <1>10

LEMMA HandledByGroup ==
    ASSUME NEW x, NEW e
    PROVE  /\ e.type \in TimeTypes => Handled(x, e) = ApplyTime(x, e)
           /\ e.type \in CostTypes => Handled(x, e) = ApplyCosts(x, e)
           /\ e.type \in OperationTypes => Handled(x, e) = ApplyOperations(x, e)
           /\ e.type \in ServerTypes => Handled(x, e) = ApplyServer(x, e)
           /\ e.type \in PageTypes => Handled(x, e) = ApplyPages(x, e)
           /\ e.type \in TrafficTypes => Handled(x, e) = ApplyTraffic(x, e)
           /\ e.type \in FirewallTypes => Handled(x, e) = ApplyFirewall(x, e)
           /\ e.type \in DatabaseTypes => Handled(x, e) = ApplyDatabase(x, e)
           /\ e.type \in StorageTypes => Handled(x, e) = ApplyStorage(x, e)
           /\ e.type \in MigrationTypes => Handled(x, e) = ApplyMigration(x, e)
<1>1. \A t : t \in Handled(x, e) <=>
        \/ t \in ApplyTime(x, e) \/ t \in ApplyCosts(x, e) \/ t \in ApplyOperations(x, e)
        \/ t \in ApplyServer(x, e) \/ t \in ApplyPages(x, e) \/ t \in ApplyTraffic(x, e)
        \/ t \in ApplyFirewall(x, e) \/ t \in ApplyDatabase(x, e) \/ t \in ApplyStorage(x, e)
        \/ t \in ApplyMigration(x, e)
  BY DEF Handled
<1>2. e.type \in TimeTypes => Handled(x, e) = ApplyTime(x, e)
  BY <1>1, OneGroup DEF TimeTypes, CostTypes, OperationTypes, ServerTypes, PageTypes,
     TrafficTypes, FirewallTypes, DatabaseTypes, StorageTypes, MigrationTypes
<1>3. e.type \in CostTypes => Handled(x, e) = ApplyCosts(x, e)
  BY <1>1, OneGroup DEF TimeTypes, CostTypes, OperationTypes, ServerTypes, PageTypes,
     TrafficTypes, FirewallTypes, DatabaseTypes, StorageTypes, MigrationTypes
<1>4. e.type \in OperationTypes => Handled(x, e) = ApplyOperations(x, e)
  BY <1>1, OneGroup DEF TimeTypes, CostTypes, OperationTypes, ServerTypes, PageTypes,
     TrafficTypes, FirewallTypes, DatabaseTypes, StorageTypes, MigrationTypes
<1>5. e.type \in ServerTypes => Handled(x, e) = ApplyServer(x, e)
  BY <1>1, OneGroup DEF TimeTypes, CostTypes, OperationTypes, ServerTypes, PageTypes,
     TrafficTypes, FirewallTypes, DatabaseTypes, StorageTypes, MigrationTypes
<1>6. e.type \in PageTypes => Handled(x, e) = ApplyPages(x, e)
  BY <1>1, OneGroup DEF TimeTypes, CostTypes, OperationTypes, ServerTypes, PageTypes,
     TrafficTypes, FirewallTypes, DatabaseTypes, StorageTypes, MigrationTypes
<1>7. e.type \in TrafficTypes => Handled(x, e) = ApplyTraffic(x, e)
  BY <1>1, OneGroup DEF TimeTypes, CostTypes, OperationTypes, ServerTypes, PageTypes,
     TrafficTypes, FirewallTypes, DatabaseTypes, StorageTypes, MigrationTypes
<1>8. e.type \in FirewallTypes => Handled(x, e) = ApplyFirewall(x, e)
  BY <1>1, OneGroup DEF TimeTypes, CostTypes, OperationTypes, ServerTypes, PageTypes,
     TrafficTypes, FirewallTypes, DatabaseTypes, StorageTypes, MigrationTypes
<1>9. e.type \in DatabaseTypes => Handled(x, e) = ApplyDatabase(x, e)
  BY <1>1, OneGroup DEF TimeTypes, CostTypes, OperationTypes, ServerTypes, PageTypes,
     TrafficTypes, FirewallTypes, DatabaseTypes, StorageTypes, MigrationTypes
<1>10. e.type \in StorageTypes => Handled(x, e) = ApplyStorage(x, e)
  BY <1>1, OneGroup DEF TimeTypes, CostTypes, OperationTypes, ServerTypes, PageTypes,
     TrafficTypes, FirewallTypes, DatabaseTypes, StorageTypes, MigrationTypes
<1>11. e.type \in MigrationTypes => Handled(x, e) = ApplyMigration(x, e)
  BY <1>1, OneGroup DEF TimeTypes, CostTypes, OperationTypes, ServerTypes, PageTypes,
     TrafficTypes, FirewallTypes, DatabaseTypes, StorageTypes, MigrationTypes
<1> QED
  BY <1>2, <1>3, <1>4, <1>5, <1>6, <1>7, <1>8, <1>9, <1>10, <1>11

KnownTypes ==
  UNION {TimeTypes, CostTypes, OperationTypes, ServerTypes, PageTypes, TrafficTypes,
         FirewallTypes, DatabaseTypes, StorageTypes, MigrationTypes}

LEMMA UnknownRefused ==
    ASSUME NEW x, NEW e, NEW t \in Handled(x, e)
    PROVE  e.type \in KnownTypes
  BY OneGroup DEF Handled, KnownTypes

LEMMA AtMostOne ==
    ASSUME NEW x, NEW e, NEW t \in Handled(x, e), NEW u \in Handled(x, e)
    PROVE  t = u
<1>1. CASE e.type \in TimeTypes
  <2>1. t \in ApplyTime(x, e) /\ u \in ApplyTime(x, e)
    BY <1>1, HandledByGroup
  <2> QED
    BY <2>1 DEF ApplyTime
<1>2. CASE e.type \in CostTypes
  <2>1. t \in ApplyCosts(x, e) /\ u \in ApplyCosts(x, e)
    BY <1>2, HandledByGroup
  <2> QED
    BY <2>1 DEF ApplyCosts
<1>3. CASE e.type \in OperationTypes
  <2>1. t \in ApplyOperations(x, e) /\ u \in ApplyOperations(x, e)
    BY <1>3, HandledByGroup
  <2> QED
    BY <2>1 DEF ApplyOperations
<1>4. CASE e.type \in ServerTypes
  <2>1. t \in ApplyServer(x, e) /\ u \in ApplyServer(x, e)
    BY <1>4, HandledByGroup
  <2> QED
    BY <2>1 DEF ApplyServer
<1>5. CASE e.type \in PageTypes
  <2>1. t \in ApplyPages(x, e) /\ u \in ApplyPages(x, e)
    BY <1>5, HandledByGroup
  <2> QED
    BY <2>1 DEF ApplyPages
<1>6. CASE e.type \in TrafficTypes
  <2>1. t \in ApplyTraffic(x, e) /\ u \in ApplyTraffic(x, e)
    BY <1>6, HandledByGroup
  <2> QED
    BY <2>1 DEF ApplyTraffic
<1>7. CASE e.type \in FirewallTypes
  <2>1. t \in ApplyFirewall(x, e) /\ u \in ApplyFirewall(x, e)
    BY <1>7, HandledByGroup
  <2> QED
    BY <2>1 DEF ApplyFirewall
<1>8. CASE e.type \in DatabaseTypes
  <2>1. t \in ApplyDatabase(x, e) /\ u \in ApplyDatabase(x, e)
    BY <1>8, HandledByGroup
  <2> QED
    BY <2>1 DEF ApplyDatabase
<1>9. CASE e.type \in StorageTypes
  <2>1. t \in ApplyStorage(x, e) /\ u \in ApplyStorage(x, e)
    BY <1>9, HandledByGroup
  <2> QED
    BY <2>1 DEF ApplyStorage
<1>10. CASE e.type \in MigrationTypes
  <2>1. t \in ApplyMigration(x, e) /\ u \in ApplyMigration(x, e)
    BY <1>10, HandledByGroup
  <2> QED
    BY <2>1 DEF ApplyMigration
<1> QED
  BY <1>1, <1>2, <1>3, <1>4, <1>5, <1>6, <1>7, <1>8, <1>9, <1>10, UnknownRefused DEF KnownTypes

LEMMA ApplyGives ==
    ASSUME NEW x, NEW e, NEW t \in Handled(x, e), ~x.refused
    PROVE  Apply(x, e) = t
<1>1. Apply(x, e) = Outcome(x, Handled(x, e))
  BY DEF Apply, Handled
<1>2. Handled(x, e) = {t}
  BY AtMostOne
<1> QED
  BY <1>1, <1>2 DEF Outcome

LEMMA Accepted ==
    ASSUME NEW x, DOMAIN x = Fields, NEW e, ~Apply(x, e).refused
    PROVE  ~x.refused /\ Apply(x, e) \in Handled(x, e)
<1>1. Apply(x, e) = Outcome(x, Handled(x, e))
  BY DEF Apply, Handled
<1>2. Refuse(x).refused = TRUE
  BY DEF Refuse, Fields
<1>3. ~x.refused /\ Handled(x, e) # {}
  BY <1>1, <1>2 DEF Outcome
<1>4. Outcome(x, Handled(x, e)) = CHOOSE t \in Handled(x, e) : TRUE
  BY <1>3 DEF Outcome
<1>5. (CHOOSE t \in Handled(x, e) : TRUE) \in Handled(x, e)
  BY <1>3
<1> QED
  BY <1>1, <1>3, <1>4, <1>5

LEMMA GroupKeeps ==
    ASSUME NEW x, DOMAIN x = Fields, NEW e, NEW t \in Handled(x, e)
    PROVE  /\ e.type \in TimeTypes => Kept(x, t, {"now", "capacity", "used", "indexed", "status"})
           /\ e.type \in CostTypes => Kept(x, t, {"servers", "serverCost", "backups", "backupCost"})
           /\ e.type \in OperationTypes => Kept(x, t, {"ops"})
           /\ e.type \in ServerTypes => Kept(x, t, {"servers", "dbs", "growth", "backendDown", "site"})
           /\ e.type \in PageTypes => Kept(x, t, {"capacity", "used", "indexed"})
           /\ e.type \in TrafficTypes => Kept(x, t, {"capacity", "used", "indexed", "cursor", "attacks"})
           /\ e.type \in FirewallTypes => Kept(x, t, {"rules", "firewallDown", "site"})
           /\ e.type \in DatabaseTypes => Kept(x, t, {"dbs", "growth", "conns", "counts", "site"})
           /\ e.type \in StorageTypes => Kept(x, t, {"dbs", "servers", "growth", "cursor"})
           /\ e.type \in MigrationTypes => Kept(x, t, {"dbs", "backups", "site"})
<1>1. e.type \in TimeTypes => Kept(x, t, {"now", "capacity", "used", "indexed", "status"})
  <2> SUFFICES ASSUME t \in ApplyTime(x, e)
               PROVE  Kept(x, t, {"now", "capacity", "used", "indexed", "status"})
    BY HandledByGroup
  <2> QED
    BY DEF ApplyTime, Prune, MarkScheduled, AvailabilityFact, OpenOutage, CloseOutage, Kept
<1>2. e.type \in CostTypes => Kept(x, t, {"servers", "serverCost", "backups", "backupCost"})
  <2> SUFFICES ASSUME t \in ApplyCosts(x, e)
               PROVE  Kept(x, t, {"servers", "serverCost", "backups", "backupCost"})
    BY HandledByGroup
  <2> QED
    BY DEF ApplyCosts, Prune, MarkScheduled, AvailabilityFact, OpenOutage, CloseOutage, Kept
<1>3. e.type \in OperationTypes => Kept(x, t, {"ops"})
  <2> SUFFICES ASSUME t \in ApplyOperations(x, e)
               PROVE  Kept(x, t, {"ops"})
    BY HandledByGroup
  <2> QED
    BY DEF ApplyOperations, Prune, MarkScheduled, AvailabilityFact, OpenOutage, CloseOutage, Kept
<1>4. e.type \in ServerTypes => Kept(x, t, {"servers", "dbs", "growth", "backendDown", "site"})
  <2> SUFFICES ASSUME t \in ApplyServer(x, e)
               PROVE  Kept(x, t, {"servers", "dbs", "growth", "backendDown", "site"})
    BY HandledByGroup
  <2> QED
    BY DEF ApplyServer, Prune, MarkScheduled, AvailabilityFact, OpenOutage, CloseOutage, Kept
<1>5. e.type \in PageTypes => Kept(x, t, {"capacity", "used", "indexed"})
  <2> SUFFICES ASSUME t \in ApplyPages(x, e)
               PROVE  Kept(x, t, {"capacity", "used", "indexed"})
    BY HandledByGroup
  <2> QED
    BY DEF ApplyPages, Prune, MarkScheduled, AvailabilityFact, OpenOutage, CloseOutage, Kept
<1>6. e.type \in TrafficTypes => Kept(x, t, {"capacity", "used", "indexed", "cursor", "attacks"})
  <2> SUFFICES ASSUME t \in ApplyTraffic(x, e)
               PROVE  Kept(x, t, {"capacity", "used", "indexed", "cursor", "attacks"})
    BY HandledByGroup
  <2> QED
    BY DEF ApplyTraffic, Prune, MarkScheduled, AvailabilityFact, OpenOutage, CloseOutage, Kept
<1>7. e.type \in FirewallTypes => Kept(x, t, {"rules", "firewallDown", "site"})
  <2> SUFFICES ASSUME t \in ApplyFirewall(x, e)
               PROVE  Kept(x, t, {"rules", "firewallDown", "site"})
    BY HandledByGroup
  <2> QED
    BY DEF ApplyFirewall, Prune, MarkScheduled, AvailabilityFact, OpenOutage, CloseOutage, Kept
<1>8. e.type \in DatabaseTypes => Kept(x, t, {"dbs", "growth", "conns", "counts", "site"})
  <2> SUFFICES ASSUME t \in ApplyDatabase(x, e)
               PROVE  Kept(x, t, {"dbs", "growth", "conns", "counts", "site"})
    BY HandledByGroup
  <2> QED
    BY DEF ApplyDatabase, Prune, MarkScheduled, AvailabilityFact, OpenOutage, CloseOutage, Kept
<1>9. e.type \in StorageTypes => Kept(x, t, {"dbs", "servers", "growth", "cursor"})
  <2> SUFFICES ASSUME t \in ApplyStorage(x, e)
               PROVE  Kept(x, t, {"dbs", "servers", "growth", "cursor"})
    BY HandledByGroup
  <2> QED
    BY DEF ApplyStorage, Prune, MarkScheduled, AvailabilityFact, OpenOutage, CloseOutage, Kept
<1>10. e.type \in MigrationTypes => Kept(x, t, {"dbs", "backups", "site"})
  <2> SUFFICES ASSUME t \in ApplyMigration(x, e)
               PROVE  Kept(x, t, {"dbs", "backups", "site"})
    BY HandledByGroup
  <2> QED
    BY DEF ApplyMigration, Prune, MarkScheduled, AvailabilityFact, OpenOutage, CloseOutage, Kept
<1> QED
  BY <1>1, <1>2, <1>3, <1>4, <1>5, <1>6, <1>7, <1>8, <1>9, <1>10
----------------------------------------------------------------------------
ServerFields == {"status", "op", "ready", "activated", "logs", "accrued", "billed"}
BackupFields == {"status", "db", "data", "version", "rate", "completed", "billed"}
SameRows(a, b, fields, free) ==
  /\ DOMAIN a = DOMAIN b
  /\ \A i \in DOMAIN a : /\ DOMAIN a[i] = fields /\ DOMAIN b[i] = fields
                         /\ \A f \in fields \ free : a[i][f] = b[i][f]

ButBilled == {"now", "servers", "backups", "serverCost", "backupCost"}
Alike(x, y) ==
  /\ DOMAIN x = Fields /\ DOMAIN y = Fields
  /\ \A f \in Fields \ ButBilled : x[f] = y[f]
  /\ SameRows(x.servers, y.servers, ServerFields, {"accrued", "billed"})
  /\ SameRows(x.backups, y.backups, BackupFields, {"billed"})

FactTypes ==
  {"BackendAvailabilityChanged", "FirewallAvailabilityChanged", "DatabaseDeleted",
   "DatabaseConnectionOpened", "DatabaseConnectionReleased", "DatabaseConnectionRejected",
   "DatabaseAvailabilityChanged", "DatabaseBackupStarted", "DatabaseBackupCompleted",
   "DatabaseRestoreStarted", "DatabaseRestoreCompleted", "SiteStopped", "SiteDatabaseChanged"}
  \cup PageTypes \cup TrafficTypes \cup StorageTypes

AlikeTypes == KnownTypes \ (CostTypes \cup {"TimeAdvanced"})
TimeFits(e, x, y) == x.now = y.now \/ (e.type \in FactTypes /\ e.at <= y.now)

LEMMA SameServerReadings ==
    ASSUME NEW x, NEW y, Alike(x, y)
    PROVE  /\ DOMAIN x.servers = DOMAIN y.servers
           /\ \A i \in DOMAIN x.servers :
                /\ x.servers[i].status = y.servers[i].status
                /\ x.servers[i].op = y.servers[i].op
                /\ x.servers[i].ready = y.servers[i].ready
                /\ x.servers[i].activated = y.servers[i].activated
                /\ x.servers[i].logs = y.servers[i].logs
  BY DEF Alike, SameRows, ServerFields

LEMMA SameFields ==
    ASSUME NEW x, NEW y, Alike(x, y)
    PROVE  /\ x.refused = y.refused /\ x.status = y.status /\ x.cursor = y.cursor
           /\ x.site = y.site /\ x.dbs = y.dbs /\ x.growth = y.growth /\ x.conns = y.conns
           /\ x.counts = y.counts /\ x.capacity = y.capacity /\ x.used = y.used
           /\ x.indexed = y.indexed /\ x.rules = y.rules /\ x.attacks = y.attacks
           /\ x.firewallDown = y.firewallDown /\ x.backendDown = y.backendDown /\ x.ops = y.ops
  BY DEF Alike, ButBilled, Fields

LEMMA SameReadings ==
    ASSUME NEW x, NEW y, Alike(x, y)
    PROVE  /\ \A st : WithStatus(x, st) = WithStatus(y, st)
           /\ ActiveBackends(x) = ActiveBackends(y)
           /\ \A i \in DOMAIN x.servers : FreeDisk(x, i) = FreeDisk(y, i)
           /\ \A at : StarvedPages(x, at) = StarvedPages(y, at)
           /\ \A at : Blocking(x, at) = Blocking(y, at)
           /\ \A i, page, at : FreeCapacity(x, i, page, at) = FreeCapacity(y, i, page, at)
           /\ \A i, at : HasLoad(x, i, at) = HasLoad(y, i, at)
           /\ DependenciesUp(x) = DependenciesUp(y)
<1>1. \A st : WithStatus(x, st) = WithStatus(y, st)
  BY SameServerReadings DEF WithStatus
<1>2. ActiveBackends(x) = ActiveBackends(y) /\ ActiveBackends(x) \subseteq DOMAIN x.servers
  BY <1>1 DEF ActiveBackends, WithStatus
<1>3. \A i \in DOMAIN x.servers : FreeDisk(x, i) = FreeDisk(y, i) /\ DiskFull(x, i) = DiskFull(y, i)
  BY SameServerReadings, SameFields DEF FreeDisk, DiskFull
<1>4. \A profile, at : Denied(x, profile, at) = Denied(y, profile, at)
  BY SameFields DEF Denied, Deciding, Matching
<1>5. \A at : Blocking(x, at) = Blocking(y, at)
  BY SameFields DEF Blocking, Deciding, Matching
<1>6. \A i, at : UsedCapacity(x, i, at) = UsedCapacity(y, i, at)
  BY SameFields DEF UsedCapacity
<1>7. {i \in ActiveBackends(x) : ~DiskFull(x, i)} = {i \in ActiveBackends(y) : ~DiskFull(y, i)}
  BY <1>2, <1>3
<1>8. ASSUME NEW page, NEW at
      PROVE  AttackLoad(x, page, at) = AttackLoad(y, page, at)
  <2>1. x.attacks = y.attacks
    BY SameFields
  <2>2. {a \in DOMAIN x.attacks : x.attacks[a].page = page /\ ~Denied(x, x.attacks[a].profile, at)}
        = {a \in DOMAIN y.attacks : y.attacks[a].page = page /\ ~Denied(y, y.attacks[a].profile, at)}
    BY <1>4, <2>1
  <2> QED
    BY <1>7, <2>1, <2>2 DEF AttackLoad
<1>9. \A i, page, at : FreeCapacity(x, i, page, at) = FreeCapacity(y, i, page, at)
  BY <1>2, <1>3, <1>6, <1>8 DEF FreeCapacity
<1>10. \A at : StarvedPages(x, at) = StarvedPages(y, at)
  BY <1>2, <1>9 DEF StarvedPages
<1>11. \A i, at : HasLoad(x, i, at) = HasLoad(y, i, at)
  BY <1>6 DEF HasLoad
<1>12. DependenciesUp(x) = DependenciesUp(y)
  BY SameFields DEF DependenciesUp
<1> QED
  BY <1>1, <1>2, <1>3, <1>5, <1>9, <1>10, <1>11, <1>12

\* What each event may change.
LEMMA TypeKeeps ==
    ASSUME NEW x, DOMAIN x = Fields, NEW e, NEW t \in Handled(x, e)
    PROVE  /\ e.type = "TimeAdvanced"
              => Kept(x, t, {"now", "capacity", "used", "indexed"})
           /\ e.type = "RunEnded"
              => Kept(x, t, {"status"})
           /\ e.type = "InfrastructureCostAccrued"
              => Kept(x, t, {"servers", "serverCost"})
           /\ e.type = "BackupStorageCostAccrued"
              => Kept(x, t, {"backups", "backupCost"})
           /\ e.type \in {"OperationStarted", "OperationSucceeded"}
              => Kept(x, t, {"ops"})
           /\ e.type \in {"ServerProvisioningStarted", "ServerActivated", "ServerDrainingStarted"}
              => Kept(x, t, {"servers"})
           /\ e.type = "ServerRemoved"
              => Kept(x, t, {"servers", "dbs", "growth"})
           /\ e.type = "BackendAvailabilityChanged"
              => Kept(x, t, {"backendDown", "site"})
           /\ e.type = "PageRequestStarted"
              => Kept(x, t, {"capacity", "used", "indexed"})
           /\ e.type = "PageRequestAccepted"
              => Kept(x, t, {"capacity", "used"})
           /\ e.type \in {"PageRequestCompleted", "PageRequestRejected"}
              => Kept(x, t, {})
           /\ e.type = "VisitorArrived"
              => Kept(x, t, {"capacity", "used", "indexed", "cursor"})
           /\ e.type \in {"TrafficAttackStarted", "TrafficAttackEnded"}
              => Kept(x, t, {"cursor", "attacks"})
           /\ e.type \in {"FirewallRuleUpserted", "FirewallRuleDeleted"}
              => Kept(x, t, {"rules"})
           /\ e.type = "FirewallAvailabilityChanged"
              => Kept(x, t, {"firewallDown", "site"})
           /\ e.type = "DatabaseCreated"
              => Kept(x, t, {"dbs"})
           /\ e.type = "DatabaseDeleted"
              => Kept(x, t, {"dbs", "growth"})
           /\ e.type \in {"DatabaseConnectionOpened", "DatabaseConnectionReleased"}
              => Kept(x, t, {"conns", "counts"})
           /\ e.type = "DatabaseConnectionRejected"
              => Kept(x, t, {})
           /\ e.type = "DatabaseAvailabilityChanged"
              => Kept(x, t, {"dbs", "site"})
           /\ e.type = "DatabaseGrowthRequested"
              => Kept(x, t, {"growth", "cursor"})
           /\ e.type = "DatabaseStorageIncreased"
              => Kept(x, t, {"dbs", "growth"})
           /\ e.type = "DatabaseGrowthBlocked"
              => Kept(x, t, {"growth"})
           /\ e.type = "DiskLogsCleaned"
              => Kept(x, t, {"servers", "dbs"})
           /\ e.type = "DiskLogsGrowthRequested"
              => Kept(x, t, {"cursor"})
           /\ e.type = "DiskLogsIncreased"
              => Kept(x, t, {"servers"})
           /\ e.type = "DiskLogsGrowthBlocked"
              => Kept(x, t, {})
           /\ e.type \in {"DatabaseBackupStarted", "DatabaseBackupCompleted"}
              => Kept(x, t, {"backups"})
           /\ e.type \in {"DatabaseRestoreStarted", "DatabaseRestoreCompleted"}
              => Kept(x, t, {"dbs"})
           /\ e.type \in {"SiteStopStarted", "SiteStopped", "SiteDatabaseChanged", "SiteStarted"}
              => Kept(x, t, {"site"})
<1>1. e.type = "TimeAdvanced"
          => Kept(x, t, {"now", "capacity", "used", "indexed"})
  <2> SUFFICES ASSUME e.type = "TimeAdvanced"
               PROVE  Kept(x, t, {"now", "capacity", "used", "indexed"})
    OBVIOUS
  <2>1. t \in ApplyTime(x, e)
    BY HandledByGroup DEF TimeTypes
  <2> QED
    BY <2>1 DEF ApplyTime, Prune, MarkScheduled, AvailabilityFact, OpenOutage, CloseOutage, Kept
<1>2. e.type = "RunEnded"
          => Kept(x, t, {"status"})
  <2> SUFFICES ASSUME e.type = "RunEnded"
               PROVE  Kept(x, t, {"status"})
    OBVIOUS
  <2>1. t \in ApplyTime(x, e)
    BY HandledByGroup DEF TimeTypes
  <2> QED
    BY <2>1 DEF ApplyTime, Prune, MarkScheduled, AvailabilityFact, OpenOutage, CloseOutage, Kept
<1>3. e.type = "InfrastructureCostAccrued"
          => Kept(x, t, {"servers", "serverCost"})
  <2> SUFFICES ASSUME e.type = "InfrastructureCostAccrued"
               PROVE  Kept(x, t, {"servers", "serverCost"})
    OBVIOUS
  <2>1. t \in ApplyCosts(x, e)
    BY HandledByGroup DEF CostTypes
  <2> QED
    BY <2>1 DEF ApplyCosts, Prune, MarkScheduled, AvailabilityFact, OpenOutage, CloseOutage, Kept
<1>4. e.type = "BackupStorageCostAccrued"
          => Kept(x, t, {"backups", "backupCost"})
  <2> SUFFICES ASSUME e.type = "BackupStorageCostAccrued"
               PROVE  Kept(x, t, {"backups", "backupCost"})
    OBVIOUS
  <2>1. t \in ApplyCosts(x, e)
    BY HandledByGroup DEF CostTypes
  <2> QED
    BY <2>1 DEF ApplyCosts, Prune, MarkScheduled, AvailabilityFact, OpenOutage, CloseOutage, Kept
<1>5. e.type \in {"OperationStarted", "OperationSucceeded"}
          => Kept(x, t, {"ops"})
  <2> SUFFICES ASSUME e.type \in {"OperationStarted", "OperationSucceeded"}
               PROVE  Kept(x, t, {"ops"})
    OBVIOUS
  <2>1. t \in ApplyOperations(x, e)
    BY HandledByGroup DEF OperationTypes
  <2> QED
    BY <2>1 DEF ApplyOperations, Prune, MarkScheduled, AvailabilityFact, OpenOutage, CloseOutage, Kept
<1>6. e.type \in {"ServerProvisioningStarted", "ServerActivated", "ServerDrainingStarted"}
          => Kept(x, t, {"servers"})
  <2> SUFFICES ASSUME e.type \in {"ServerProvisioningStarted", "ServerActivated", "ServerDrainingStarted"}
               PROVE  Kept(x, t, {"servers"})
    OBVIOUS
  <2>1. t \in ApplyServer(x, e)
    BY HandledByGroup DEF ServerTypes
  <2> QED
    BY <2>1 DEF ApplyServer, Prune, MarkScheduled, AvailabilityFact, OpenOutage, CloseOutage, Kept
<1>7. e.type = "ServerRemoved"
          => Kept(x, t, {"servers", "dbs", "growth"})
  <2> SUFFICES ASSUME e.type = "ServerRemoved"
               PROVE  Kept(x, t, {"servers", "dbs", "growth"})
    OBVIOUS
  <2>1. t \in ApplyServer(x, e)
    BY HandledByGroup DEF ServerTypes
  <2> QED
    BY <2>1 DEF ApplyServer, Prune, MarkScheduled, AvailabilityFact, OpenOutage, CloseOutage, Kept
<1>8. e.type = "BackendAvailabilityChanged"
          => Kept(x, t, {"backendDown", "site"})
  <2> SUFFICES ASSUME e.type = "BackendAvailabilityChanged"
               PROVE  Kept(x, t, {"backendDown", "site"})
    OBVIOUS
  <2>1. t \in ApplyServer(x, e)
    BY HandledByGroup DEF ServerTypes
  <2> QED
    BY <2>1 DEF ApplyServer, Prune, MarkScheduled, AvailabilityFact, OpenOutage, CloseOutage, Kept
<1>9. e.type = "PageRequestStarted"
          => Kept(x, t, {"capacity", "used", "indexed"})
  <2> SUFFICES ASSUME e.type = "PageRequestStarted"
               PROVE  Kept(x, t, {"capacity", "used", "indexed"})
    OBVIOUS
  <2>1. t \in ApplyPages(x, e)
    BY HandledByGroup DEF PageTypes
  <2> QED
    BY <2>1 DEF ApplyPages, Prune, MarkScheduled, AvailabilityFact, OpenOutage, CloseOutage, Kept
<1>10. e.type = "PageRequestAccepted"
          => Kept(x, t, {"capacity", "used"})
  <2> SUFFICES ASSUME e.type = "PageRequestAccepted"
               PROVE  Kept(x, t, {"capacity", "used"})
    OBVIOUS
  <2>1. t \in ApplyPages(x, e)
    BY HandledByGroup DEF PageTypes
  <2> QED
    BY <2>1 DEF ApplyPages, Prune, MarkScheduled, AvailabilityFact, OpenOutage, CloseOutage, Kept
<1>11. e.type \in {"PageRequestCompleted", "PageRequestRejected"}
          => Kept(x, t, {})
  <2> SUFFICES ASSUME e.type \in {"PageRequestCompleted", "PageRequestRejected"}
               PROVE  Kept(x, t, {})
    OBVIOUS
  <2>1. t \in ApplyPages(x, e)
    BY HandledByGroup DEF PageTypes
  <2> QED
    BY <2>1 DEF ApplyPages, Prune, MarkScheduled, AvailabilityFact, OpenOutage, CloseOutage, Kept
<1>12. e.type = "VisitorArrived"
          => Kept(x, t, {"capacity", "used", "indexed", "cursor"})
  <2> SUFFICES ASSUME e.type = "VisitorArrived"
               PROVE  Kept(x, t, {"capacity", "used", "indexed", "cursor"})
    OBVIOUS
  <2>1. t \in ApplyTraffic(x, e)
    BY HandledByGroup DEF TrafficTypes
  <2> QED
    BY <2>1 DEF ApplyTraffic, Prune, MarkScheduled, AvailabilityFact, OpenOutage, CloseOutage, Kept
<1>13. e.type \in {"TrafficAttackStarted", "TrafficAttackEnded"}
          => Kept(x, t, {"cursor", "attacks"})
  <2> SUFFICES ASSUME e.type \in {"TrafficAttackStarted", "TrafficAttackEnded"}
               PROVE  Kept(x, t, {"cursor", "attacks"})
    OBVIOUS
  <2>1. t \in ApplyTraffic(x, e)
    BY HandledByGroup DEF TrafficTypes
  <2> QED
    BY <2>1 DEF ApplyTraffic, Prune, MarkScheduled, AvailabilityFact, OpenOutage, CloseOutage, Kept
<1>14. e.type \in {"FirewallRuleUpserted", "FirewallRuleDeleted"}
          => Kept(x, t, {"rules"})
  <2> SUFFICES ASSUME e.type \in {"FirewallRuleUpserted", "FirewallRuleDeleted"}
               PROVE  Kept(x, t, {"rules"})
    OBVIOUS
  <2>1. t \in ApplyFirewall(x, e)
    BY HandledByGroup DEF FirewallTypes
  <2> QED
    BY <2>1 DEF ApplyFirewall, Prune, MarkScheduled, AvailabilityFact, OpenOutage, CloseOutage, Kept
<1>15. e.type = "FirewallAvailabilityChanged"
          => Kept(x, t, {"firewallDown", "site"})
  <2> SUFFICES ASSUME e.type = "FirewallAvailabilityChanged"
               PROVE  Kept(x, t, {"firewallDown", "site"})
    OBVIOUS
  <2>1. t \in ApplyFirewall(x, e)
    BY HandledByGroup DEF FirewallTypes
  <2> QED
    BY <2>1 DEF ApplyFirewall, Prune, MarkScheduled, AvailabilityFact, OpenOutage, CloseOutage, Kept
<1>16. e.type = "DatabaseCreated"
          => Kept(x, t, {"dbs"})
  <2> SUFFICES ASSUME e.type = "DatabaseCreated"
               PROVE  Kept(x, t, {"dbs"})
    OBVIOUS
  <2>1. t \in ApplyDatabase(x, e)
    BY HandledByGroup DEF DatabaseTypes
  <2> QED
    BY <2>1 DEF ApplyDatabase, Prune, MarkScheduled, AvailabilityFact, OpenOutage, CloseOutage, Kept
<1>17. e.type = "DatabaseDeleted"
          => Kept(x, t, {"dbs", "growth"})
  <2> SUFFICES ASSUME e.type = "DatabaseDeleted"
               PROVE  Kept(x, t, {"dbs", "growth"})
    OBVIOUS
  <2>1. t \in ApplyDatabase(x, e)
    BY HandledByGroup DEF DatabaseTypes
  <2> QED
    BY <2>1 DEF ApplyDatabase, Prune, MarkScheduled, AvailabilityFact, OpenOutage, CloseOutage, Kept
<1>18. e.type \in {"DatabaseConnectionOpened", "DatabaseConnectionReleased"}
          => Kept(x, t, {"conns", "counts"})
  <2> SUFFICES ASSUME e.type \in {"DatabaseConnectionOpened", "DatabaseConnectionReleased"}
               PROVE  Kept(x, t, {"conns", "counts"})
    OBVIOUS
  <2>1. t \in ApplyDatabase(x, e)
    BY HandledByGroup DEF DatabaseTypes
  <2> QED
    BY <2>1 DEF ApplyDatabase, Prune, MarkScheduled, AvailabilityFact, OpenOutage, CloseOutage, Kept
<1>19. e.type = "DatabaseConnectionRejected"
          => Kept(x, t, {})
  <2> SUFFICES ASSUME e.type = "DatabaseConnectionRejected"
               PROVE  Kept(x, t, {})
    OBVIOUS
  <2>1. t \in ApplyDatabase(x, e)
    BY HandledByGroup DEF DatabaseTypes
  <2> QED
    BY <2>1 DEF ApplyDatabase, Prune, MarkScheduled, AvailabilityFact, OpenOutage, CloseOutage, Kept
<1>20. e.type = "DatabaseAvailabilityChanged"
          => Kept(x, t, {"dbs", "site"})
  <2> SUFFICES ASSUME e.type = "DatabaseAvailabilityChanged"
               PROVE  Kept(x, t, {"dbs", "site"})
    OBVIOUS
  <2>1. t \in ApplyDatabase(x, e)
    BY HandledByGroup DEF DatabaseTypes
  <2> QED
    BY <2>1 DEF ApplyDatabase, Prune, MarkScheduled, AvailabilityFact, OpenOutage, CloseOutage, Kept
<1>21. e.type = "DatabaseGrowthRequested"
          => Kept(x, t, {"growth", "cursor"})
  <2> SUFFICES ASSUME e.type = "DatabaseGrowthRequested"
               PROVE  Kept(x, t, {"growth", "cursor"})
    OBVIOUS
  <2>1. t \in ApplyStorage(x, e)
    BY HandledByGroup DEF StorageTypes
  <2> QED
    BY <2>1 DEF ApplyStorage, Prune, MarkScheduled, AvailabilityFact, OpenOutage, CloseOutage, Kept
<1>22. e.type = "DatabaseStorageIncreased"
          => Kept(x, t, {"dbs", "growth"})
  <2> SUFFICES ASSUME e.type = "DatabaseStorageIncreased"
               PROVE  Kept(x, t, {"dbs", "growth"})
    OBVIOUS
  <2>1. t \in ApplyStorage(x, e)
    BY HandledByGroup DEF StorageTypes
  <2> QED
    BY <2>1 DEF ApplyStorage, Prune, MarkScheduled, AvailabilityFact, OpenOutage, CloseOutage, Kept
<1>23. e.type = "DatabaseGrowthBlocked"
          => Kept(x, t, {"growth"})
  <2> SUFFICES ASSUME e.type = "DatabaseGrowthBlocked"
               PROVE  Kept(x, t, {"growth"})
    OBVIOUS
  <2>1. t \in ApplyStorage(x, e)
    BY HandledByGroup DEF StorageTypes
  <2> QED
    BY <2>1 DEF ApplyStorage, Prune, MarkScheduled, AvailabilityFact, OpenOutage, CloseOutage, Kept
<1>24. e.type = "DiskLogsCleaned"
          => Kept(x, t, {"servers", "dbs"})
  <2> SUFFICES ASSUME e.type = "DiskLogsCleaned"
               PROVE  Kept(x, t, {"servers", "dbs"})
    OBVIOUS
  <2>1. t \in ApplyStorage(x, e)
    BY HandledByGroup DEF StorageTypes
  <2> QED
    BY <2>1 DEF ApplyStorage, Prune, MarkScheduled, AvailabilityFact, OpenOutage, CloseOutage, Kept
<1>25. e.type = "DiskLogsGrowthRequested"
          => Kept(x, t, {"cursor"})
  <2> SUFFICES ASSUME e.type = "DiskLogsGrowthRequested"
               PROVE  Kept(x, t, {"cursor"})
    OBVIOUS
  <2>1. t \in ApplyStorage(x, e)
    BY HandledByGroup DEF StorageTypes
  <2> QED
    BY <2>1 DEF ApplyStorage, Prune, MarkScheduled, AvailabilityFact, OpenOutage, CloseOutage, Kept
<1>26. e.type = "DiskLogsIncreased"
          => Kept(x, t, {"servers"})
  <2> SUFFICES ASSUME e.type = "DiskLogsIncreased"
               PROVE  Kept(x, t, {"servers"})
    OBVIOUS
  <2>1. t \in ApplyStorage(x, e)
    BY HandledByGroup DEF StorageTypes
  <2> QED
    BY <2>1 DEF ApplyStorage, Prune, MarkScheduled, AvailabilityFact, OpenOutage, CloseOutage, Kept
<1>27. e.type = "DiskLogsGrowthBlocked"
          => Kept(x, t, {})
  <2> SUFFICES ASSUME e.type = "DiskLogsGrowthBlocked"
               PROVE  Kept(x, t, {})
    OBVIOUS
  <2>1. t \in ApplyStorage(x, e)
    BY HandledByGroup DEF StorageTypes
  <2> QED
    BY <2>1 DEF ApplyStorage, Prune, MarkScheduled, AvailabilityFact, OpenOutage, CloseOutage, Kept
<1>28. e.type \in {"DatabaseBackupStarted", "DatabaseBackupCompleted"}
          => Kept(x, t, {"backups"})
  <2> SUFFICES ASSUME e.type \in {"DatabaseBackupStarted", "DatabaseBackupCompleted"}
               PROVE  Kept(x, t, {"backups"})
    OBVIOUS
  <2>1. t \in ApplyMigration(x, e)
    BY HandledByGroup DEF MigrationTypes
  <2> QED
    BY <2>1 DEF ApplyMigration, Prune, MarkScheduled, AvailabilityFact, OpenOutage, CloseOutage, Kept
<1>29. e.type \in {"DatabaseRestoreStarted", "DatabaseRestoreCompleted"}
          => Kept(x, t, {"dbs"})
  <2> SUFFICES ASSUME e.type \in {"DatabaseRestoreStarted", "DatabaseRestoreCompleted"}
               PROVE  Kept(x, t, {"dbs"})
    OBVIOUS
  <2>1. t \in ApplyMigration(x, e)
    BY HandledByGroup DEF MigrationTypes
  <2> QED
    BY <2>1 DEF ApplyMigration, Prune, MarkScheduled, AvailabilityFact, OpenOutage, CloseOutage, Kept
<1>30. e.type \in {"SiteStopStarted", "SiteStopped", "SiteDatabaseChanged", "SiteStarted"}
          => Kept(x, t, {"site"})
  <2> SUFFICES ASSUME e.type \in {"SiteStopStarted", "SiteStopped", "SiteDatabaseChanged", "SiteStarted"}
               PROVE  Kept(x, t, {"site"})
    OBVIOUS
  <2>1. t \in ApplyMigration(x, e)
    BY HandledByGroup DEF MigrationTypes
  <2> QED
    BY <2>1 DEF ApplyMigration, Prune, MarkScheduled, AvailabilityFact, OpenOutage, CloseOutage, Kept
<1> QED
  BY <1>1, <1>2, <1>3, <1>4, <1>5, <1>6, <1>7, <1>8, <1>9, <1>10, <1>11, <1>12, <1>13, <1>14, <1>15, <1>16, <1>17, <1>18, <1>19, <1>20, <1>21, <1>22, <1>23, <1>24, <1>25, <1>26, <1>27, <1>28, <1>29, <1>30


----------------------------------------------------------------------------
(* Two states that events treat alike                                       *)

\* The next states: at most one, and alike where it comes from alike states.
Carries(t, next) == next # {} /\ \A u \in next : Alike(t, u)

\* Where neither servers nor backups change it is enough to compare what does.
LEMMA AlikeByKept ==
    ASSUME NEW x, NEW y, Alike(x, y), NEW F, F \cap {"servers", "backups"} = {},
           NEW t, Kept(x, t, F), NEW u, Kept(y, u, F), \A f \in F : t[f] = u[f]
    PROVE  Alike(t, u)
<1>1. /\ t.servers = x.servers /\ u.servers = y.servers
      /\ t.backups = x.backups /\ u.backups = y.backups
  BY DEF Kept, Fields
<1>2. ASSUME NEW f \in Fields \ ButBilled
      PROVE  t[f] = u[f]
  <2>1. CASE f \in F
    BY <2>1
  <2>2. CASE f \notin F
    BY <2>2 DEF Kept, Alike
  <2> QED
    BY <2>1, <2>2
<1> QED
  BY <1>1, <1>2 DEF Alike, Kept

\* The site after a fact about its availability depends on the site and on
\* what it depends on.
LEMMA SameOutage ==
    ASSUME NEW x, NEW y, "site" \in DOMAIN x, "site" \in DOMAIN y, x.site = y.site,
           DependenciesUp(x) = DependenciesUp(y), NEW up, NEW at
    PROVE  AvailabilityFact(x, up, at).site = AvailabilityFact(y, up, at).site
  BY DEF AvailabilityFact, OpenOutage, CloseOutage

LEMMA SamePrune ==
    ASSUME NEW x, NEW y, Alike(x, y), NEW at
    PROVE  /\ Prune(x, at).capacity = Prune(y, at).capacity
           /\ Prune(x, at).used = Prune(y, at).used
           /\ Prune(x, at).indexed = Prune(y, at).indexed
<1>1. DOMAIN x = Fields /\ DOMAIN y = Fields
  BY DEF Alike
<1>2. x.capacity = y.capacity /\ x.used = y.used /\ x.indexed = y.indexed
  BY SameFields
<1>3. CASE at < x.indexed
  BY <1>2, <1>3 DEF Prune
<1>4. CASE ~(at < x.indexed)
  BY <1>1, <1>2, <1>4 DEF Prune, Fields
<1> QED
  BY <1>3, <1>4

\* markScheduled, as what it makes of the cursor.
NextCursor(x, e) ==
  IF x.cursor < Len(Schedule) /\ e.seq = x.cursor + 1 THEN x.cursor + 1 ELSE x.cursor

LEMMA PruneKeeps ==
    ASSUME NEW x, DOMAIN x = Fields, NEW at
    PROVE  Kept(x, Prune(x, at), {"capacity", "used", "indexed"})
  BY DEF Prune, Kept

LEMMA OutageKeeps ==
    ASSUME NEW x, DOMAIN x = Fields, NEW up, NEW at
    PROVE  Kept(x, AvailabilityFact(x, up, at), {"site"})
  BY DEF AvailabilityFact, OpenOutage, CloseOutage, Kept

\* TimeAdvanced: when it applies and what it makes of the fields it changes.
TimeAdvancedGuard(x, e) ==
  /\ Running(x)
  /\ e.from = x.now
  /\ e.from <= e.to
  /\ e.to <= EndsAt

LEMMA TimeAdvancedEffect ==
    ASSUME NEW x, DOMAIN x = Fields, NEW e, e.type = "TimeAdvanced", NEW t \in Handled(x, e)
    PROVE  /\ TimeAdvancedGuard(x, e)
           /\ t.now = e.to
           /\ t.capacity = Prune(x, e.from).capacity
           /\ t.used = Prune(x, e.from).used
           /\ t.indexed = Prune(x, e.from).indexed
           /\ Kept(x, t, {"now", "capacity", "used", "indexed"})
<1>1. t \in ApplyTime(x, e)
  BY HandledByGroup DEF TimeTypes
<1>2. TimeAdvancedGuard(x, e)
  BY <1>1 DEF ApplyTime, WithStatus, TimeAdvancedGuard
<1>3. t.now = e.to
  BY <1>1, PruneKeeps DEF ApplyTime, Fields, Kept, NextCursor, MarkScheduled
<1>4. t.capacity = Prune(x, e.from).capacity
  BY <1>1, PruneKeeps DEF ApplyTime, Fields, Kept, NextCursor, MarkScheduled
<1>5. t.used = Prune(x, e.from).used
  BY <1>1, PruneKeeps DEF ApplyTime, Fields, Kept, NextCursor, MarkScheduled
<1>6. t.indexed = Prune(x, e.from).indexed
  BY <1>1, PruneKeeps DEF ApplyTime, Fields, Kept, NextCursor, MarkScheduled
<1>7. Kept(x, t, {"now", "capacity", "used", "indexed"})
  BY TypeKeeps
<1> QED
  BY <1>2, <1>3, <1>4, <1>5, <1>6, <1>7

LEMMA TimeAdvancedEnabled ==
    ASSUME NEW x, NEW e, e.type = "TimeAdvanced", TimeAdvancedGuard(x, e)
    PROVE  Handled(x, e) # {}
<1>1. Handled(x, e) = ApplyTime(x, e)
  BY HandledByGroup DEF TimeTypes
<1>2. ApplyTime(x, e) # {}
  BY DEF ApplyTime, TimeAdvancedGuard
<1> QED
  BY <1>1, <1>2

\* RunEnded: when it applies and what it makes of the fields it changes.
RunEndedGuard(x, e) ==
  /\ Running(x)
  /\ e.at = x.now

LEMMA RunEndedEffect ==
    ASSUME NEW x, DOMAIN x = Fields, NEW e, e.type = "RunEnded", NEW t \in Handled(x, e)
    PROVE  /\ RunEndedGuard(x, e)
           /\ t.status = "completed"
           /\ Kept(x, t, {"status"})
<1>1. t \in ApplyTime(x, e)
  BY HandledByGroup DEF TimeTypes
<1>2. RunEndedGuard(x, e)
  BY <1>1 DEF ApplyTime, WithStatus, RunEndedGuard
<1>3. t.status = "completed"
  BY <1>1 DEF ApplyTime, Fields, NextCursor, MarkScheduled
<1>4. Kept(x, t, {"status"})
  BY TypeKeeps
<1> QED
  BY <1>2, <1>3, <1>4

LEMMA RunEndedEnabled ==
    ASSUME NEW x, NEW e, e.type = "RunEnded", RunEndedGuard(x, e)
    PROVE  Handled(x, e) # {}
<1>1. Handled(x, e) = ApplyTime(x, e)
  BY HandledByGroup DEF TimeTypes
<1>2. ApplyTime(x, e) # {}
  BY DEF ApplyTime, RunEndedGuard
<1> QED
  BY <1>1, <1>2

\* InfrastructureCostAccrued: when it applies and what it makes of the fields it changes.
InfrastructureCostAccruedGuard(x, e) ==
  /\ e.server \in DOMAIN x.servers
  /\ e.to = x.now
  /\ IF Catalog[e.server].monthly > 0 THEN e.total > x.servers[e.server].accrued /\ e.amount = e.total - x.servers[e.server].accrued ELSE e.total > x.servers[e.server].billed
InfrastructureCostAccruedServerCost(x, e) == x.serverCost + e.amount
InfrastructureCostAccruedServers(x, e) == [x.servers EXCEPT ![e.server] = IF Catalog[e.server].monthly > 0 THEN [@ EXCEPT !.accrued = e.total] ELSE [@ EXCEPT !.billed = e.total]]

LEMMA InfrastructureCostAccruedEffect ==
    ASSUME NEW x, DOMAIN x = Fields, NEW e, e.type = "InfrastructureCostAccrued", NEW t \in Handled(x, e)
    PROVE  /\ InfrastructureCostAccruedGuard(x, e)
           /\ t.serverCost = InfrastructureCostAccruedServerCost(x, e)
           /\ t.servers = InfrastructureCostAccruedServers(x, e)
           /\ Kept(x, t, {"serverCost", "servers"})
<1>1. t \in ApplyCosts(x, e)
  BY HandledByGroup DEF CostTypes
<1>2. InfrastructureCostAccruedGuard(x, e)
  BY <1>1 DEF ApplyCosts, WithStatus, InfrastructureCostAccruedGuard
<1>3. t.serverCost = InfrastructureCostAccruedServerCost(x, e)
  BY <1>1 DEF ApplyCosts, Fields, NextCursor, MarkScheduled, InfrastructureCostAccruedServerCost
<1>4. t.servers = InfrastructureCostAccruedServers(x, e)
  BY <1>1 DEF ApplyCosts, Fields, NextCursor, MarkScheduled, InfrastructureCostAccruedServers
<1>5. Kept(x, t, {"serverCost", "servers"})
  BY TypeKeeps
<1> QED
  BY <1>2, <1>3, <1>4, <1>5

LEMMA InfrastructureCostAccruedEnabled ==
    ASSUME NEW x, NEW e, e.type = "InfrastructureCostAccrued", InfrastructureCostAccruedGuard(x, e)
    PROVE  Handled(x, e) # {}
<1>1. Handled(x, e) = ApplyCosts(x, e)
  BY HandledByGroup DEF CostTypes
<1>2. ApplyCosts(x, e) # {}
  BY DEF ApplyCosts, InfrastructureCostAccruedGuard
<1> QED
  BY <1>1, <1>2

\* BackupStorageCostAccrued: when it applies and what it makes of the fields it changes.
BackupStorageCostAccruedGuard(x, e) ==
  /\ e.backup \in DOMAIN x.backups
  /\ e.to = x.now
  /\ x.backups[e.backup].status = "ready"
  /\ e.hours > x.backups[e.backup].billed
  /\ e.amount = (e.hours - x.backups[e.backup].billed) * x.backups[e.backup].rate
BackupStorageCostAccruedBackups(x, e) == [x.backups EXCEPT ![e.backup].billed = e.hours]
BackupStorageCostAccruedBackupCost(x, e) == x.backupCost + e.amount

LEMMA BackupStorageCostAccruedEffect ==
    ASSUME NEW x, DOMAIN x = Fields, NEW e, e.type = "BackupStorageCostAccrued", NEW t \in Handled(x, e)
    PROVE  /\ BackupStorageCostAccruedGuard(x, e)
           /\ t.backups = BackupStorageCostAccruedBackups(x, e)
           /\ t.backupCost = BackupStorageCostAccruedBackupCost(x, e)
           /\ Kept(x, t, {"backups", "backupCost"})
<1>1. t \in ApplyCosts(x, e)
  BY HandledByGroup DEF CostTypes
<1>2. BackupStorageCostAccruedGuard(x, e)
  BY <1>1 DEF ApplyCosts, WithStatus, BackupStorageCostAccruedGuard
<1>3. t.backups = BackupStorageCostAccruedBackups(x, e)
  BY <1>1 DEF ApplyCosts, Fields, NextCursor, MarkScheduled, BackupStorageCostAccruedBackups
<1>4. t.backupCost = BackupStorageCostAccruedBackupCost(x, e)
  BY <1>1 DEF ApplyCosts, Fields, NextCursor, MarkScheduled, BackupStorageCostAccruedBackupCost
<1>5. Kept(x, t, {"backups", "backupCost"})
  BY TypeKeeps
<1> QED
  BY <1>2, <1>3, <1>4, <1>5

LEMMA BackupStorageCostAccruedEnabled ==
    ASSUME NEW x, NEW e, e.type = "BackupStorageCostAccrued", BackupStorageCostAccruedGuard(x, e)
    PROVE  Handled(x, e) # {}
<1>1. Handled(x, e) = ApplyCosts(x, e)
  BY HandledByGroup DEF CostTypes
<1>2. ApplyCosts(x, e) # {}
  BY DEF ApplyCosts, BackupStorageCostAccruedGuard
<1> QED
  BY <1>1, <1>2

\* OperationStarted: when it applies and what it makes of the fields it changes.
OperationStartedGuard(x, e) ==
  /\ Running(x)
  /\ e.op \notin x.ops
OperationStartedOps(x, e) == x.ops \cup {e.op}

LEMMA OperationStartedEffect ==
    ASSUME NEW x, DOMAIN x = Fields, NEW e, e.type = "OperationStarted", NEW t \in Handled(x, e)
    PROVE  /\ OperationStartedGuard(x, e)
           /\ t.ops = OperationStartedOps(x, e)
           /\ Kept(x, t, {"ops"})
<1>1. t \in ApplyOperations(x, e)
  BY HandledByGroup DEF OperationTypes
<1>2. OperationStartedGuard(x, e)
  BY <1>1 DEF ApplyOperations, WithStatus, OperationStartedGuard
<1>3. t.ops = OperationStartedOps(x, e)
  BY <1>1 DEF ApplyOperations, Fields, NextCursor, MarkScheduled, OperationStartedOps
<1>4. Kept(x, t, {"ops"})
  BY TypeKeeps
<1> QED
  BY <1>2, <1>3, <1>4

LEMMA OperationStartedEnabled ==
    ASSUME NEW x, NEW e, e.type = "OperationStarted", OperationStartedGuard(x, e)
    PROVE  Handled(x, e) # {}
<1>1. Handled(x, e) = ApplyOperations(x, e)
  BY HandledByGroup DEF OperationTypes
<1>2. ApplyOperations(x, e) # {}
  BY DEF ApplyOperations, OperationStartedGuard
<1> QED
  BY <1>1, <1>2

\* OperationSucceeded: when it applies and what it makes of the fields it changes.
OperationSucceededGuard(x, e) ==
  /\ e.op \in x.ops
  /\ e.at = x.now
OperationSucceededOps(x, e) == x.ops \ {e.op}

LEMMA OperationSucceededEffect ==
    ASSUME NEW x, DOMAIN x = Fields, NEW e, e.type = "OperationSucceeded", NEW t \in Handled(x, e)
    PROVE  /\ OperationSucceededGuard(x, e)
           /\ t.ops = OperationSucceededOps(x, e)
           /\ Kept(x, t, {"ops"})
<1>1. t \in ApplyOperations(x, e)
  BY HandledByGroup DEF OperationTypes
<1>2. OperationSucceededGuard(x, e)
  BY <1>1 DEF ApplyOperations, WithStatus, OperationSucceededGuard
<1>3. t.ops = OperationSucceededOps(x, e)
  BY <1>1 DEF ApplyOperations, Fields, NextCursor, MarkScheduled, OperationSucceededOps
<1>4. Kept(x, t, {"ops"})
  BY TypeKeeps
<1> QED
  BY <1>2, <1>3, <1>4

LEMMA OperationSucceededEnabled ==
    ASSUME NEW x, NEW e, e.type = "OperationSucceeded", OperationSucceededGuard(x, e)
    PROVE  Handled(x, e) # {}
<1>1. Handled(x, e) = ApplyOperations(x, e)
  BY HandledByGroup DEF OperationTypes
<1>2. ApplyOperations(x, e) # {}
  BY DEF ApplyOperations, OperationSucceededGuard
<1> QED
  BY <1>1, <1>2

\* ServerProvisioningStarted: when it applies and what it makes of the fields it changes.
ServerProvisioningStartedGuard(x, e) ==
  /\ Running(x)
  /\ e.server \notin DOMAIN x.servers
  /\ e.at = x.now
  /\ e.at <= e.ready
ServerProvisioningStartedServers(x, e) == Put(x.servers, e.server, [status |-> "provisioning", op |-> e.op, ready |-> e.ready, activated |-> Never, logs |-> 0, accrued |-> 0, billed |-> 0])

LEMMA ServerProvisioningStartedEffect ==
    ASSUME NEW x, DOMAIN x = Fields, NEW e, e.type = "ServerProvisioningStarted", NEW t \in Handled(x, e)
    PROVE  /\ ServerProvisioningStartedGuard(x, e)
           /\ t.servers = ServerProvisioningStartedServers(x, e)
           /\ Kept(x, t, {"servers"})
<1>1. t \in ApplyServer(x, e)
  BY HandledByGroup DEF ServerTypes
<1>2. ServerProvisioningStartedGuard(x, e)
  BY <1>1 DEF ApplyServer, WithStatus, ServerProvisioningStartedGuard
<1>3. t.servers = ServerProvisioningStartedServers(x, e)
  BY <1>1 DEF ApplyServer, Fields, NextCursor, MarkScheduled, ServerProvisioningStartedServers
<1>4. Kept(x, t, {"servers"})
  BY TypeKeeps
<1> QED
  BY <1>2, <1>3, <1>4

LEMMA ServerProvisioningStartedEnabled ==
    ASSUME NEW x, NEW e, e.type = "ServerProvisioningStarted", ServerProvisioningStartedGuard(x, e)
    PROVE  Handled(x, e) # {}
<1>1. Handled(x, e) = ApplyServer(x, e)
  BY HandledByGroup DEF ServerTypes
<1>2. ApplyServer(x, e) # {}
  BY DEF ApplyServer, ServerProvisioningStartedGuard
<1> QED
  BY <1>1, <1>2

\* ServerActivated: when it applies and what it makes of the fields it changes.
ServerActivatedGuard(x, e) ==
  /\ e.server \in WithStatus(x, "provisioning")
  /\ e.at = x.now
  /\ x.servers[e.server].op = e.op
  /\ x.servers[e.server].ready <= e.at
ServerActivatedServers(x, e) == [x.servers EXCEPT ![e.server].status = "active", ![e.server].activated = e.at]

LEMMA ServerActivatedEffect ==
    ASSUME NEW x, DOMAIN x = Fields, NEW e, e.type = "ServerActivated", NEW t \in Handled(x, e)
    PROVE  /\ ServerActivatedGuard(x, e)
           /\ t.servers = ServerActivatedServers(x, e)
           /\ Kept(x, t, {"servers"})
<1>1. t \in ApplyServer(x, e)
  BY HandledByGroup DEF ServerTypes
<1>2. ServerActivatedGuard(x, e)
  BY <1>1 DEF ApplyServer, WithStatus, ServerActivatedGuard
<1>3. t.servers = ServerActivatedServers(x, e)
  BY <1>1 DEF ApplyServer, Fields, NextCursor, MarkScheduled, ServerActivatedServers
<1>4. Kept(x, t, {"servers"})
  BY TypeKeeps
<1> QED
  BY <1>2, <1>3, <1>4

LEMMA ServerActivatedEnabled ==
    ASSUME NEW x, NEW e, e.type = "ServerActivated", ServerActivatedGuard(x, e)
    PROVE  Handled(x, e) # {}
<1>1. Handled(x, e) = ApplyServer(x, e)
  BY HandledByGroup DEF ServerTypes
<1>2. ApplyServer(x, e) # {}
  BY DEF ApplyServer, ServerActivatedGuard
<1> QED
  BY <1>1, <1>2

\* ServerDrainingStarted: when it applies and what it makes of the fields it changes.
ServerDrainingStartedGuard(x, e) ==
  /\ Running(x)
  /\ e.server \in WithStatus(x, "active")
  /\ e.op \in x.ops
  /\ e.at = x.now
ServerDrainingStartedServers(x, e) == [x.servers EXCEPT ![e.server].status = "draining", ![e.server].op = e.op]

LEMMA ServerDrainingStartedEffect ==
    ASSUME NEW x, DOMAIN x = Fields, NEW e, e.type = "ServerDrainingStarted", NEW t \in Handled(x, e)
    PROVE  /\ ServerDrainingStartedGuard(x, e)
           /\ t.servers = ServerDrainingStartedServers(x, e)
           /\ Kept(x, t, {"servers"})
<1>1. t \in ApplyServer(x, e)
  BY HandledByGroup DEF ServerTypes
<1>2. ServerDrainingStartedGuard(x, e)
  BY <1>1 DEF ApplyServer, WithStatus, ServerDrainingStartedGuard
<1>3. t.servers = ServerDrainingStartedServers(x, e)
  BY <1>1 DEF ApplyServer, Fields, NextCursor, MarkScheduled, ServerDrainingStartedServers
<1>4. Kept(x, t, {"servers"})
  BY TypeKeeps
<1> QED
  BY <1>2, <1>3, <1>4

LEMMA ServerDrainingStartedEnabled ==
    ASSUME NEW x, NEW e, e.type = "ServerDrainingStarted", ServerDrainingStartedGuard(x, e)
    PROVE  Handled(x, e) # {}
<1>1. Handled(x, e) = ApplyServer(x, e)
  BY HandledByGroup DEF ServerTypes
<1>2. ApplyServer(x, e) # {}
  BY DEF ApplyServer, ServerDrainingStartedGuard
<1> QED
  BY <1>1, <1>2

\* ServerRemoved: when it applies and what it makes of the fields it changes.
ServerRemovedGuard(x, e) ==
  /\ e.server \in WithStatus(x, "draining")
  /\ e.at = x.now
  /\ x.servers[e.server].op = e.op
  /\ ~HasLoad(x, e.server, e.at)
ServerRemovedServers(x, e) == Drop(x.servers, {e.server})
ServerRemovedDbs(x, e) == Drop(x.dbs, {e.server})
ServerRemovedGrowth(x, e) == Drop(x.growth, {g \in DOMAIN x.growth : e.server \in DOMAIN x.dbs /\ x.growth[g].db = e.server})

LEMMA ServerRemovedEffect ==
    ASSUME NEW x, DOMAIN x = Fields, NEW e, e.type = "ServerRemoved", NEW t \in Handled(x, e)
    PROVE  /\ ServerRemovedGuard(x, e)
           /\ t.servers = ServerRemovedServers(x, e)
           /\ t.dbs = ServerRemovedDbs(x, e)
           /\ t.growth = ServerRemovedGrowth(x, e)
           /\ Kept(x, t, {"servers", "dbs", "growth"})
<1>1. t \in ApplyServer(x, e)
  BY HandledByGroup DEF ServerTypes
<1>2. ServerRemovedGuard(x, e)
  BY <1>1 DEF ApplyServer, WithStatus, ServerRemovedGuard
<1>3. t.servers = ServerRemovedServers(x, e)
  BY <1>1 DEF ApplyServer, Fields, NextCursor, MarkScheduled, ServerRemovedServers
<1>4. t.dbs = ServerRemovedDbs(x, e)
  BY <1>1 DEF ApplyServer, Fields, NextCursor, MarkScheduled, ServerRemovedDbs
<1>5. t.growth = ServerRemovedGrowth(x, e)
  BY <1>1 DEF ApplyServer, Fields, NextCursor, MarkScheduled, ServerRemovedGrowth
<1>6. Kept(x, t, {"servers", "dbs", "growth"})
  BY TypeKeeps
<1> QED
  BY <1>2, <1>3, <1>4, <1>5, <1>6

LEMMA ServerRemovedEnabled ==
    ASSUME NEW x, NEW e, e.type = "ServerRemoved", ServerRemovedGuard(x, e)
    PROVE  Handled(x, e) # {}
<1>1. Handled(x, e) = ApplyServer(x, e)
  BY HandledByGroup DEF ServerTypes
<1>2. ApplyServer(x, e) # {}
  BY DEF ApplyServer, ServerRemovedGuard
<1> QED
  BY <1>1, <1>2

\* BackendAvailabilityChanged: when it applies and what it makes of the fields it changes.
BackendAvailabilityChangedGuard(x, e) ==
  /\ Fact(x, e.at)
  /\ e.pages = StarvedPages(x, e.at)
  /\ e.up = (e.pages = {})
  /\ e.up = x.backendDown
BackendAvailabilityChangedSite(x, e) == AvailabilityFact([x EXCEPT !.backendDown = ~e.up], e.up, e.at).site

LEMMA BackendAvailabilityChangedEffect ==
    ASSUME NEW x, DOMAIN x = Fields, NEW e, e.type = "BackendAvailabilityChanged", NEW t \in Handled(x, e)
    PROVE  /\ BackendAvailabilityChangedGuard(x, e)
           /\ t.backendDown = ~e.up
           /\ t.site = BackendAvailabilityChangedSite(x, e)
           /\ Kept(x, t, {"backendDown", "site"})
<1>1. t \in ApplyServer(x, e)
  BY HandledByGroup DEF ServerTypes
<1>2. BackendAvailabilityChangedGuard(x, e)
  BY <1>1 DEF ApplyServer, WithStatus, BackendAvailabilityChangedGuard
<1>3. t.backendDown = ~e.up
  <2> DEFINE z == [x EXCEPT !.backendDown = ~e.up]
  <2>1. Kept(x, z, {"backendDown"})
    BY DEF Kept
  <2>2. Kept(z, AvailabilityFact(z, e.up, e.at), {"site"})
    BY <2>1, OutageKeeps DEF Kept
  <2>3. AvailabilityFact(z, e.up, e.at).backendDown = z.backendDown
    BY <2>2 DEF Kept, Fields
  <2>4. z.backendDown = ~e.up
    BY DEF Fields
  <2>5. t = AvailabilityFact(z, e.up, e.at)
    BY <1>1 DEF ApplyServer
  <2> QED
    BY <2>3, <2>4, <2>5
<1>4. t.site = BackendAvailabilityChangedSite(x, e)
  BY <1>1 DEF ApplyServer, Fields, NextCursor, MarkScheduled, BackendAvailabilityChangedSite
<1>5. Kept(x, t, {"backendDown", "site"})
  BY TypeKeeps
<1> QED
  BY <1>2, <1>3, <1>4, <1>5

LEMMA BackendAvailabilityChangedEnabled ==
    ASSUME NEW x, NEW e, e.type = "BackendAvailabilityChanged", BackendAvailabilityChangedGuard(x, e)
    PROVE  Handled(x, e) # {}
<1>1. Handled(x, e) = ApplyServer(x, e)
  BY HandledByGroup DEF ServerTypes
<1>2. ApplyServer(x, e) # {}
  BY DEF ApplyServer, BackendAvailabilityChangedGuard
<1> QED
  BY <1>1, <1>2

\* PageRequestStarted: when it applies and what it makes of the fields it changes.
PageRequestStartedGuard(x, e) ==
  /\ Running(x)
  /\ Fact(x, e.at)

LEMMA PageRequestStartedEffect ==
    ASSUME NEW x, DOMAIN x = Fields, NEW e, e.type = "PageRequestStarted", NEW t \in Handled(x, e)
    PROVE  /\ PageRequestStartedGuard(x, e)
           /\ t.capacity = Prune(x, e.at).capacity
           /\ t.used = Prune(x, e.at).used
           /\ t.indexed = Prune(x, e.at).indexed
           /\ Kept(x, t, {"capacity", "used", "indexed"})
<1>1. t \in ApplyPages(x, e)
  BY HandledByGroup DEF PageTypes
<1>2. PageRequestStartedGuard(x, e)
  BY <1>1 DEF ApplyPages, WithStatus, PageRequestStartedGuard
<1>3. t.capacity = Prune(x, e.at).capacity
  BY <1>1 DEF ApplyPages, Fields, NextCursor, MarkScheduled
<1>4. t.used = Prune(x, e.at).used
  BY <1>1 DEF ApplyPages, Fields, NextCursor, MarkScheduled
<1>5. t.indexed = Prune(x, e.at).indexed
  BY <1>1 DEF ApplyPages, Fields, NextCursor, MarkScheduled
<1>6. Kept(x, t, {"capacity", "used", "indexed"})
  BY TypeKeeps
<1> QED
  BY <1>2, <1>3, <1>4, <1>5, <1>6

LEMMA PageRequestStartedEnabled ==
    ASSUME NEW x, NEW e, e.type = "PageRequestStarted", PageRequestStartedGuard(x, e)
    PROVE  Handled(x, e) # {}
<1>1. Handled(x, e) = ApplyPages(x, e)
  BY HandledByGroup DEF PageTypes
<1>2. ApplyPages(x, e) # {}
  BY DEF ApplyPages, PageRequestStartedGuard
<1> QED
  BY <1>1, <1>2

\* PageRequestAccepted: when it applies and what it makes of the fields it changes.
PageRequestAcceptedGuard(x, e) ==
  /\ Running(x)
  /\ Fact(x, e.at)
  /\ e.server \in WithStatus(x, "active")
  /\ e.until = e.at + Hold[e.page]
  /\ FreeCapacity(x, e.server, e.page, e.at) >= Load[e.page]
PageRequestAcceptedCapacity(x, e) == Put(x.capacity, e.request, [server |-> e.server, load |-> Load[e.page], until |-> e.until])
PageRequestAcceptedUsed(x, e) == [x.used EXCEPT ![e.server] = @ + Load[e.page]]

LEMMA PageRequestAcceptedEffect ==
    ASSUME NEW x, DOMAIN x = Fields, NEW e, e.type = "PageRequestAccepted", NEW t \in Handled(x, e)
    PROVE  /\ PageRequestAcceptedGuard(x, e)
           /\ t.capacity = PageRequestAcceptedCapacity(x, e)
           /\ t.used = PageRequestAcceptedUsed(x, e)
           /\ Kept(x, t, {"capacity", "used"})
<1>1. t \in ApplyPages(x, e)
  BY HandledByGroup DEF PageTypes
<1>2. PageRequestAcceptedGuard(x, e)
  BY <1>1 DEF ApplyPages, WithStatus, PageRequestAcceptedGuard
<1>3. t.capacity = PageRequestAcceptedCapacity(x, e)
  BY <1>1 DEF ApplyPages, Fields, NextCursor, MarkScheduled, PageRequestAcceptedCapacity
<1>4. t.used = PageRequestAcceptedUsed(x, e)
  BY <1>1 DEF ApplyPages, Fields, NextCursor, MarkScheduled, PageRequestAcceptedUsed
<1>5. Kept(x, t, {"capacity", "used"})
  BY TypeKeeps
<1> QED
  BY <1>2, <1>3, <1>4, <1>5

LEMMA PageRequestAcceptedEnabled ==
    ASSUME NEW x, NEW e, e.type = "PageRequestAccepted", PageRequestAcceptedGuard(x, e)
    PROVE  Handled(x, e) # {}
<1>1. Handled(x, e) = ApplyPages(x, e)
  BY HandledByGroup DEF PageTypes
<1>2. ApplyPages(x, e) # {}
  BY DEF ApplyPages, PageRequestAcceptedGuard
<1> QED
  BY <1>1, <1>2

\* PageRequestCompleted: when it applies and what it makes of the fields it changes.
PageRequestCompletedGuard(x, e) ==
  /\ Running(x)
  /\ Fact(x, e.at)

LEMMA PageRequestCompletedEffect ==
    ASSUME NEW x, DOMAIN x = Fields, NEW e, e.type = "PageRequestCompleted", NEW t \in Handled(x, e)
    PROVE  /\ PageRequestCompletedGuard(x, e)
           /\ Kept(x, t, {})
<1>1. t \in ApplyPages(x, e)
  BY HandledByGroup DEF PageTypes
<1>2. PageRequestCompletedGuard(x, e)
  BY <1>1 DEF ApplyPages, WithStatus, PageRequestCompletedGuard
<1>3. Kept(x, t, {})
  BY TypeKeeps
<1> QED
  BY <1>2, <1>3

LEMMA PageRequestCompletedEnabled ==
    ASSUME NEW x, NEW e, e.type = "PageRequestCompleted", PageRequestCompletedGuard(x, e)
    PROVE  Handled(x, e) # {}
<1>1. Handled(x, e) = ApplyPages(x, e)
  BY HandledByGroup DEF PageTypes
<1>2. ApplyPages(x, e) # {}
  BY DEF ApplyPages, PageRequestCompletedGuard
<1> QED
  BY <1>1, <1>2

\* PageRequestRejected: when it applies and what it makes of the fields it changes.
PageRequestRejectedGuard(x, e) ==
  /\ Running(x)
  /\ Fact(x, e.at)

LEMMA PageRequestRejectedEffect ==
    ASSUME NEW x, DOMAIN x = Fields, NEW e, e.type = "PageRequestRejected", NEW t \in Handled(x, e)
    PROVE  /\ PageRequestRejectedGuard(x, e)
           /\ Kept(x, t, {})
<1>1. t \in ApplyPages(x, e)
  BY HandledByGroup DEF PageTypes
<1>2. PageRequestRejectedGuard(x, e)
  BY <1>1 DEF ApplyPages, WithStatus, PageRequestRejectedGuard
<1>3. Kept(x, t, {})
  BY TypeKeeps
<1> QED
  BY <1>2, <1>3

LEMMA PageRequestRejectedEnabled ==
    ASSUME NEW x, NEW e, e.type = "PageRequestRejected", PageRequestRejectedGuard(x, e)
    PROVE  Handled(x, e) # {}
<1>1. Handled(x, e) = ApplyPages(x, e)
  BY HandledByGroup DEF PageTypes
<1>2. ApplyPages(x, e) # {}
  BY DEF ApplyPages, PageRequestRejectedGuard
<1> QED
  BY <1>1, <1>2

\* VisitorArrived: when it applies and what it makes of the fields it changes.
VisitorArrivedGuard(x, e) ==
  /\ Fact(x, e.at)

LEMMA VisitorArrivedEffect ==
    ASSUME NEW x, DOMAIN x = Fields, NEW e, e.type = "VisitorArrived", NEW t \in Handled(x, e)
    PROVE  /\ VisitorArrivedGuard(x, e)
           /\ t.capacity = Prune(x, e.at).capacity
           /\ t.used = Prune(x, e.at).used
           /\ t.indexed = Prune(x, e.at).indexed
           /\ t.cursor = NextCursor(x, e)
           /\ Kept(x, t, {"capacity", "used", "indexed", "cursor"})
<1>1. t \in ApplyTraffic(x, e)
  BY HandledByGroup DEF TrafficTypes
<1>2. VisitorArrivedGuard(x, e)
  BY <1>1 DEF ApplyTraffic, WithStatus, VisitorArrivedGuard
<1>3. t.capacity = Prune(x, e.at).capacity
  BY <1>1, PruneKeeps DEF ApplyTraffic, Fields, Kept, NextCursor, MarkScheduled
<1>4. t.used = Prune(x, e.at).used
  BY <1>1, PruneKeeps DEF ApplyTraffic, Fields, Kept, NextCursor, MarkScheduled
<1>5. t.indexed = Prune(x, e.at).indexed
  BY <1>1, PruneKeeps DEF ApplyTraffic, Fields, Kept, NextCursor, MarkScheduled
<1>6. t.cursor = NextCursor(x, e)
  BY <1>1, PruneKeeps DEF ApplyTraffic, Fields, Kept, NextCursor, MarkScheduled
<1>7. Kept(x, t, {"capacity", "used", "indexed", "cursor"})
  BY TypeKeeps
<1> QED
  BY <1>2, <1>3, <1>4, <1>5, <1>6, <1>7

LEMMA VisitorArrivedEnabled ==
    ASSUME NEW x, NEW e, e.type = "VisitorArrived", VisitorArrivedGuard(x, e)
    PROVE  Handled(x, e) # {}
<1>1. Handled(x, e) = ApplyTraffic(x, e)
  BY HandledByGroup DEF TrafficTypes
<1>2. ApplyTraffic(x, e) # {}
  BY DEF ApplyTraffic, VisitorArrivedGuard
<1> QED
  BY <1>1, <1>2

\* TrafficAttackStarted: when it applies and what it makes of the fields it changes.
TrafficAttackStartedGuard(x, e) ==
  /\ Fact(x, e.at)
  /\ e.attack \notin DOMAIN x.attacks
TrafficAttackStartedAttacks(x, e) == Put(x.attacks, e.attack, [page |-> e.page, load |-> e.load, profile |-> e.profile, until |-> e.until])

LEMMA TrafficAttackStartedEffect ==
    ASSUME NEW x, DOMAIN x = Fields, NEW e, e.type = "TrafficAttackStarted", NEW t \in Handled(x, e)
    PROVE  /\ TrafficAttackStartedGuard(x, e)
           /\ t.attacks = TrafficAttackStartedAttacks(x, e)
           /\ t.cursor = NextCursor(x, e)
           /\ Kept(x, t, {"attacks", "cursor"})
<1>1. t \in ApplyTraffic(x, e)
  BY HandledByGroup DEF TrafficTypes
<1>2. TrafficAttackStartedGuard(x, e)
  BY <1>1 DEF ApplyTraffic, WithStatus, TrafficAttackStartedGuard
<1>3. t.attacks = TrafficAttackStartedAttacks(x, e)
  BY <1>1 DEF ApplyTraffic, Fields, NextCursor, MarkScheduled, TrafficAttackStartedAttacks
<1>4. t.cursor = NextCursor(x, e)
  BY <1>1 DEF ApplyTraffic, Fields, NextCursor, MarkScheduled
<1>5. Kept(x, t, {"attacks", "cursor"})
  BY TypeKeeps
<1> QED
  BY <1>2, <1>3, <1>4, <1>5

LEMMA TrafficAttackStartedEnabled ==
    ASSUME NEW x, NEW e, e.type = "TrafficAttackStarted", TrafficAttackStartedGuard(x, e)
    PROVE  Handled(x, e) # {}
<1>1. Handled(x, e) = ApplyTraffic(x, e)
  BY HandledByGroup DEF TrafficTypes
<1>2. ApplyTraffic(x, e) # {}
  BY DEF ApplyTraffic, TrafficAttackStartedGuard
<1> QED
  BY <1>1, <1>2

\* TrafficAttackEnded: when it applies and what it makes of the fields it changes.
TrafficAttackEndedGuard(x, e) ==
  /\ e.attack \in DOMAIN x.attacks
  /\ Fact(x, e.at)
  /\ x.attacks[e.attack].until <= e.at
TrafficAttackEndedAttacks(x, e) == Drop(x.attacks, {e.attack})

LEMMA TrafficAttackEndedEffect ==
    ASSUME NEW x, DOMAIN x = Fields, NEW e, e.type = "TrafficAttackEnded", NEW t \in Handled(x, e)
    PROVE  /\ TrafficAttackEndedGuard(x, e)
           /\ t.attacks = TrafficAttackEndedAttacks(x, e)
           /\ t.cursor = NextCursor(x, e)
           /\ Kept(x, t, {"attacks", "cursor"})
<1>1. t \in ApplyTraffic(x, e)
  BY HandledByGroup DEF TrafficTypes
<1>2. TrafficAttackEndedGuard(x, e)
  BY <1>1 DEF ApplyTraffic, WithStatus, TrafficAttackEndedGuard
<1>3. t.attacks = TrafficAttackEndedAttacks(x, e)
  BY <1>1 DEF ApplyTraffic, Fields, NextCursor, MarkScheduled, TrafficAttackEndedAttacks
<1>4. t.cursor = NextCursor(x, e)
  BY <1>1 DEF ApplyTraffic, Fields, NextCursor, MarkScheduled
<1>5. Kept(x, t, {"attacks", "cursor"})
  BY TypeKeeps
<1> QED
  BY <1>2, <1>3, <1>4, <1>5

LEMMA TrafficAttackEndedEnabled ==
    ASSUME NEW x, NEW e, e.type = "TrafficAttackEnded", TrafficAttackEndedGuard(x, e)
    PROVE  Handled(x, e) # {}
<1>1. Handled(x, e) = ApplyTraffic(x, e)
  BY HandledByGroup DEF TrafficTypes
<1>2. ApplyTraffic(x, e) # {}
  BY DEF ApplyTraffic, TrafficAttackEndedGuard
<1> QED
  BY <1>1, <1>2

\* FirewallRuleUpserted: when it applies and what it makes of the fields it changes.
FirewallRuleUpsertedGuard(x, e) ==
  /\ Running(x)
  /\ e.at = x.now
  /\ e.body.until = Never \/ e.at < e.body.until
FirewallRuleUpsertedRules(x, e) == Put(x.rules, e.rule, e.body)

LEMMA FirewallRuleUpsertedEffect ==
    ASSUME NEW x, DOMAIN x = Fields, NEW e, e.type = "FirewallRuleUpserted", NEW t \in Handled(x, e)
    PROVE  /\ FirewallRuleUpsertedGuard(x, e)
           /\ t.rules = FirewallRuleUpsertedRules(x, e)
           /\ Kept(x, t, {"rules"})
<1>1. t \in ApplyFirewall(x, e)
  BY HandledByGroup DEF FirewallTypes
<1>2. FirewallRuleUpsertedGuard(x, e)
  BY <1>1 DEF ApplyFirewall, WithStatus, FirewallRuleUpsertedGuard
<1>3. t.rules = FirewallRuleUpsertedRules(x, e)
  BY <1>1 DEF ApplyFirewall, Fields, NextCursor, MarkScheduled, FirewallRuleUpsertedRules
<1>4. Kept(x, t, {"rules"})
  BY TypeKeeps
<1> QED
  BY <1>2, <1>3, <1>4

LEMMA FirewallRuleUpsertedEnabled ==
    ASSUME NEW x, NEW e, e.type = "FirewallRuleUpserted", FirewallRuleUpsertedGuard(x, e)
    PROVE  Handled(x, e) # {}
<1>1. Handled(x, e) = ApplyFirewall(x, e)
  BY HandledByGroup DEF FirewallTypes
<1>2. ApplyFirewall(x, e) # {}
  BY DEF ApplyFirewall, FirewallRuleUpsertedGuard
<1> QED
  BY <1>1, <1>2

\* FirewallRuleDeleted: when it applies and what it makes of the fields it changes.
FirewallRuleDeletedGuard(x, e) ==
  /\ Running(x)
  /\ e.at = x.now
  /\ e.rule \in DOMAIN x.rules
FirewallRuleDeletedRules(x, e) == Drop(x.rules, {e.rule})

LEMMA FirewallRuleDeletedEffect ==
    ASSUME NEW x, DOMAIN x = Fields, NEW e, e.type = "FirewallRuleDeleted", NEW t \in Handled(x, e)
    PROVE  /\ FirewallRuleDeletedGuard(x, e)
           /\ t.rules = FirewallRuleDeletedRules(x, e)
           /\ Kept(x, t, {"rules"})
<1>1. t \in ApplyFirewall(x, e)
  BY HandledByGroup DEF FirewallTypes
<1>2. FirewallRuleDeletedGuard(x, e)
  BY <1>1 DEF ApplyFirewall, WithStatus, FirewallRuleDeletedGuard
<1>3. t.rules = FirewallRuleDeletedRules(x, e)
  BY <1>1 DEF ApplyFirewall, Fields, NextCursor, MarkScheduled, FirewallRuleDeletedRules
<1>4. Kept(x, t, {"rules"})
  BY TypeKeeps
<1> QED
  BY <1>2, <1>3, <1>4

LEMMA FirewallRuleDeletedEnabled ==
    ASSUME NEW x, NEW e, e.type = "FirewallRuleDeleted", FirewallRuleDeletedGuard(x, e)
    PROVE  Handled(x, e) # {}
<1>1. Handled(x, e) = ApplyFirewall(x, e)
  BY HandledByGroup DEF FirewallTypes
<1>2. ApplyFirewall(x, e) # {}
  BY DEF ApplyFirewall, FirewallRuleDeletedGuard
<1> QED
  BY <1>1, <1>2

\* FirewallAvailabilityChanged: when it applies and what it makes of the fields it changes.
FirewallAvailabilityChangedGuard(x, e) ==
  /\ Fact(x, e.at)
  /\ e.blocking = Blocking(x, e.at)
  /\ e.up = (e.blocking = {})
  /\ e.up = x.firewallDown
FirewallAvailabilityChangedSite(x, e) == AvailabilityFact([x EXCEPT !.firewallDown = ~e.up], e.up, e.at).site

LEMMA FirewallAvailabilityChangedEffect ==
    ASSUME NEW x, DOMAIN x = Fields, NEW e, e.type = "FirewallAvailabilityChanged", NEW t \in Handled(x, e)
    PROVE  /\ FirewallAvailabilityChangedGuard(x, e)
           /\ t.firewallDown = ~e.up
           /\ t.site = FirewallAvailabilityChangedSite(x, e)
           /\ Kept(x, t, {"firewallDown", "site"})
<1>1. t \in ApplyFirewall(x, e)
  BY HandledByGroup DEF FirewallTypes
<1>2. FirewallAvailabilityChangedGuard(x, e)
  BY <1>1 DEF ApplyFirewall, WithStatus, FirewallAvailabilityChangedGuard
<1>3. t.firewallDown = ~e.up
  <2> DEFINE z == [x EXCEPT !.firewallDown = ~e.up]
  <2>1. Kept(x, z, {"firewallDown"})
    BY DEF Kept
  <2>2. Kept(z, AvailabilityFact(z, e.up, e.at), {"site"})
    BY <2>1, OutageKeeps DEF Kept
  <2>3. AvailabilityFact(z, e.up, e.at).firewallDown = z.firewallDown
    BY <2>2 DEF Kept, Fields
  <2>4. z.firewallDown = ~e.up
    BY DEF Fields
  <2>5. t = AvailabilityFact(z, e.up, e.at)
    BY <1>1 DEF ApplyFirewall
  <2> QED
    BY <2>3, <2>4, <2>5
<1>4. t.site = FirewallAvailabilityChangedSite(x, e)
  BY <1>1 DEF ApplyFirewall, Fields, NextCursor, MarkScheduled, FirewallAvailabilityChangedSite
<1>5. Kept(x, t, {"firewallDown", "site"})
  BY TypeKeeps
<1> QED
  BY <1>2, <1>3, <1>4, <1>5

LEMMA FirewallAvailabilityChangedEnabled ==
    ASSUME NEW x, NEW e, e.type = "FirewallAvailabilityChanged", FirewallAvailabilityChangedGuard(x, e)
    PROVE  Handled(x, e) # {}
<1>1. Handled(x, e) = ApplyFirewall(x, e)
  BY HandledByGroup DEF FirewallTypes
<1>2. ApplyFirewall(x, e) # {}
  BY DEF ApplyFirewall, FirewallAvailabilityChangedGuard
<1> QED
  BY <1>1, <1>2

\* DatabaseCreated: when it applies and what it makes of the fields it changes.
DatabaseCreatedGuard(x, e) ==
  /\ Running(x)
  /\ e.at = x.now
  /\ e.db \notin DOMAIN x.dbs
  /\ e.db \in WithStatus(x, "active")
  /\ ~Backend(e.db)
DatabaseCreatedDbs(x, e) == Put(x.dbs, e.db, [data |-> 0, logs |-> 0, version |-> 0, ready |-> TRUE, reasons |-> {}, from |-> None])

LEMMA DatabaseCreatedEffect ==
    ASSUME NEW x, DOMAIN x = Fields, NEW e, e.type = "DatabaseCreated", NEW t \in Handled(x, e)
    PROVE  /\ DatabaseCreatedGuard(x, e)
           /\ t.dbs = DatabaseCreatedDbs(x, e)
           /\ Kept(x, t, {"dbs"})
<1>1. t \in ApplyDatabase(x, e)
  BY HandledByGroup DEF DatabaseTypes
<1>2. DatabaseCreatedGuard(x, e)
  BY <1>1 DEF ApplyDatabase, WithStatus, DatabaseCreatedGuard
<1>3. t.dbs = DatabaseCreatedDbs(x, e)
  BY <1>1 DEF ApplyDatabase, Fields, NextCursor, MarkScheduled, DatabaseCreatedDbs
<1>4. Kept(x, t, {"dbs"})
  BY TypeKeeps
<1> QED
  BY <1>2, <1>3, <1>4

LEMMA DatabaseCreatedEnabled ==
    ASSUME NEW x, NEW e, e.type = "DatabaseCreated", DatabaseCreatedGuard(x, e)
    PROVE  Handled(x, e) # {}
<1>1. Handled(x, e) = ApplyDatabase(x, e)
  BY HandledByGroup DEF DatabaseTypes
<1>2. ApplyDatabase(x, e) # {}
  BY DEF ApplyDatabase, DatabaseCreatedGuard
<1> QED
  BY <1>1, <1>2

\* DatabaseDeleted: when it applies and what it makes of the fields it changes.
DatabaseDeletedGuard(x, e) ==
  /\ e.db \in DOMAIN x.dbs
  /\ x.site.db # e.db
  /\ Fact(x, e.at)
DatabaseDeletedDbs(x, e) == Drop(x.dbs, {e.db})
DatabaseDeletedGrowth(x, e) == Drop(x.growth, {g \in DOMAIN x.growth : x.growth[g].db = e.db})

LEMMA DatabaseDeletedEffect ==
    ASSUME NEW x, DOMAIN x = Fields, NEW e, e.type = "DatabaseDeleted", NEW t \in Handled(x, e)
    PROVE  /\ DatabaseDeletedGuard(x, e)
           /\ t.dbs = DatabaseDeletedDbs(x, e)
           /\ t.growth = DatabaseDeletedGrowth(x, e)
           /\ Kept(x, t, {"dbs", "growth"})
<1>1. t \in ApplyDatabase(x, e)
  BY HandledByGroup DEF DatabaseTypes
<1>2. DatabaseDeletedGuard(x, e)
  BY <1>1 DEF ApplyDatabase, WithStatus, DatabaseDeletedGuard
<1>3. t.dbs = DatabaseDeletedDbs(x, e)
  BY <1>1 DEF ApplyDatabase, Fields, NextCursor, MarkScheduled, DatabaseDeletedDbs
<1>4. t.growth = DatabaseDeletedGrowth(x, e)
  BY <1>1 DEF ApplyDatabase, Fields, NextCursor, MarkScheduled, DatabaseDeletedGrowth
<1>5. Kept(x, t, {"dbs", "growth"})
  BY TypeKeeps
<1> QED
  BY <1>2, <1>3, <1>4, <1>5

LEMMA DatabaseDeletedEnabled ==
    ASSUME NEW x, NEW e, e.type = "DatabaseDeleted", DatabaseDeletedGuard(x, e)
    PROVE  Handled(x, e) # {}
<1>1. Handled(x, e) = ApplyDatabase(x, e)
  BY HandledByGroup DEF DatabaseTypes
<1>2. ApplyDatabase(x, e) # {}
  BY DEF ApplyDatabase, DatabaseDeletedGuard
<1> QED
  BY <1>1, <1>2

\* DatabaseConnectionOpened: when it applies and what it makes of the fields it changes.
DatabaseConnectionOpenedGuard(x, e) ==
  /\ e.db \in DOMAIN x.dbs
  /\ Available(x.dbs[e.db])
  /\ Fact(x, e.at)
  /\ e.until = e.at + ConnectionHold
  /\ x.counts[e.db] < Catalog[e.db].limit
  /\ e.request \notin DOMAIN x.conns
DatabaseConnectionOpenedConns(x, e) == Put(x.conns, e.request, [db |-> e.db, until |-> e.until])
DatabaseConnectionOpenedCounts(x, e) == [x.counts EXCEPT ![e.db] = @ + 1]

LEMMA DatabaseConnectionOpenedEffect ==
    ASSUME NEW x, DOMAIN x = Fields, NEW e, e.type = "DatabaseConnectionOpened", NEW t \in Handled(x, e)
    PROVE  /\ DatabaseConnectionOpenedGuard(x, e)
           /\ t.conns = DatabaseConnectionOpenedConns(x, e)
           /\ t.counts = DatabaseConnectionOpenedCounts(x, e)
           /\ Kept(x, t, {"conns", "counts"})
<1>1. t \in ApplyDatabase(x, e)
  BY HandledByGroup DEF DatabaseTypes
<1>2. DatabaseConnectionOpenedGuard(x, e)
  BY <1>1 DEF ApplyDatabase, WithStatus, DatabaseConnectionOpenedGuard
<1>3. t.conns = DatabaseConnectionOpenedConns(x, e)
  BY <1>1 DEF ApplyDatabase, Fields, NextCursor, MarkScheduled, DatabaseConnectionOpenedConns
<1>4. t.counts = DatabaseConnectionOpenedCounts(x, e)
  BY <1>1 DEF ApplyDatabase, Fields, NextCursor, MarkScheduled, DatabaseConnectionOpenedCounts
<1>5. Kept(x, t, {"conns", "counts"})
  BY TypeKeeps
<1> QED
  BY <1>2, <1>3, <1>4, <1>5

LEMMA DatabaseConnectionOpenedEnabled ==
    ASSUME NEW x, NEW e, e.type = "DatabaseConnectionOpened", DatabaseConnectionOpenedGuard(x, e)
    PROVE  Handled(x, e) # {}
<1>1. Handled(x, e) = ApplyDatabase(x, e)
  BY HandledByGroup DEF DatabaseTypes
<1>2. ApplyDatabase(x, e) # {}
  BY DEF ApplyDatabase, DatabaseConnectionOpenedGuard
<1> QED
  BY <1>1, <1>2

\* DatabaseConnectionReleased: when it applies and what it makes of the fields it changes.
DatabaseConnectionReleasedGuard(x, e) ==
  /\ e.request \in DOMAIN x.conns
  /\ x.conns[e.request].db = e.db
  /\ x.conns[e.request].until <= e.at
  /\ Fact(x, e.at)
DatabaseConnectionReleasedConns(x, e) == Drop(x.conns, {e.request})
DatabaseConnectionReleasedCounts(x, e) == [x.counts EXCEPT ![e.db] = @ - 1]

LEMMA DatabaseConnectionReleasedEffect ==
    ASSUME NEW x, DOMAIN x = Fields, NEW e, e.type = "DatabaseConnectionReleased", NEW t \in Handled(x, e)
    PROVE  /\ DatabaseConnectionReleasedGuard(x, e)
           /\ t.conns = DatabaseConnectionReleasedConns(x, e)
           /\ t.counts = DatabaseConnectionReleasedCounts(x, e)
           /\ Kept(x, t, {"conns", "counts"})
<1>1. t \in ApplyDatabase(x, e)
  BY HandledByGroup DEF DatabaseTypes
<1>2. DatabaseConnectionReleasedGuard(x, e)
  BY <1>1 DEF ApplyDatabase, WithStatus, DatabaseConnectionReleasedGuard
<1>3. t.conns = DatabaseConnectionReleasedConns(x, e)
  BY <1>1 DEF ApplyDatabase, Fields, NextCursor, MarkScheduled, DatabaseConnectionReleasedConns
<1>4. t.counts = DatabaseConnectionReleasedCounts(x, e)
  BY <1>1 DEF ApplyDatabase, Fields, NextCursor, MarkScheduled, DatabaseConnectionReleasedCounts
<1>5. Kept(x, t, {"conns", "counts"})
  BY TypeKeeps
<1> QED
  BY <1>2, <1>3, <1>4, <1>5

LEMMA DatabaseConnectionReleasedEnabled ==
    ASSUME NEW x, NEW e, e.type = "DatabaseConnectionReleased", DatabaseConnectionReleasedGuard(x, e)
    PROVE  Handled(x, e) # {}
<1>1. Handled(x, e) = ApplyDatabase(x, e)
  BY HandledByGroup DEF DatabaseTypes
<1>2. ApplyDatabase(x, e) # {}
  BY DEF ApplyDatabase, DatabaseConnectionReleasedGuard
<1> QED
  BY <1>1, <1>2

\* DatabaseConnectionRejected: when it applies and what it makes of the fields it changes.
DatabaseConnectionRejectedGuard(x, e) ==
  /\ e.db \in DOMAIN x.dbs
  /\ Fact(x, e.at)
  /\ e.active = x.counts[e.db]
  /\ e.active >= Catalog[e.db].limit

LEMMA DatabaseConnectionRejectedEffect ==
    ASSUME NEW x, DOMAIN x = Fields, NEW e, e.type = "DatabaseConnectionRejected", NEW t \in Handled(x, e)
    PROVE  /\ DatabaseConnectionRejectedGuard(x, e)
           /\ Kept(x, t, {})
<1>1. t \in ApplyDatabase(x, e)
  BY HandledByGroup DEF DatabaseTypes
<1>2. DatabaseConnectionRejectedGuard(x, e)
  BY <1>1 DEF ApplyDatabase, WithStatus, DatabaseConnectionRejectedGuard
<1>3. Kept(x, t, {})
  BY TypeKeeps
<1> QED
  BY <1>2, <1>3

LEMMA DatabaseConnectionRejectedEnabled ==
    ASSUME NEW x, NEW e, e.type = "DatabaseConnectionRejected", DatabaseConnectionRejectedGuard(x, e)
    PROVE  Handled(x, e) # {}
<1>1. Handled(x, e) = ApplyDatabase(x, e)
  BY HandledByGroup DEF DatabaseTypes
<1>2. ApplyDatabase(x, e) # {}
  BY DEF ApplyDatabase, DatabaseConnectionRejectedGuard
<1> QED
  BY <1>1, <1>2

\* DatabaseAvailabilityChanged: when it applies and what it makes of the fields it changes.
DatabaseAvailabilityChangedGuard(x, e) ==
  /\ e.db \in DOMAIN x.dbs
  /\ Fact(x, e.at)
  /\ e.up = (e.reasons = {})
DatabaseAvailabilityChangedDbs(x, e) == [x.dbs EXCEPT ![e.db].reasons = e.reasons]
DatabaseAvailabilityChangedSite(x, e) == IF x.site.db = e.db THEN AvailabilityFact([x EXCEPT !.dbs[e.db].reasons = e.reasons], e.up, e.at).site ELSE x.site

LEMMA DatabaseAvailabilityChangedEffect ==
    ASSUME NEW x, DOMAIN x = Fields, NEW e, e.type = "DatabaseAvailabilityChanged", NEW t \in Handled(x, e)
    PROVE  /\ DatabaseAvailabilityChangedGuard(x, e)
           /\ t.dbs = DatabaseAvailabilityChangedDbs(x, e)
           /\ t.site = DatabaseAvailabilityChangedSite(x, e)
           /\ Kept(x, t, {"dbs", "site"})
<1>1. t \in ApplyDatabase(x, e)
  BY HandledByGroup DEF DatabaseTypes
<1>2. DatabaseAvailabilityChangedGuard(x, e)
  BY <1>1 DEF ApplyDatabase, WithStatus, DatabaseAvailabilityChangedGuard
<1>3. t.dbs = DatabaseAvailabilityChangedDbs(x, e)
  <2> DEFINE z == [x EXCEPT !.dbs[e.db].reasons = e.reasons]
  <2>1. Kept(x, z, {"dbs"})
    BY DEF Kept
  <2>2. Kept(z, AvailabilityFact(z, e.up, e.at), {"site"})
    BY <2>1, OutageKeeps DEF Kept
  <2>3. AvailabilityFact(z, e.up, e.at).dbs = z.dbs
    BY <2>2 DEF Kept, Fields
  <2>4. z.dbs = [x.dbs EXCEPT ![e.db].reasons = e.reasons]
    BY DEF Fields
  <2>5. t = AvailabilityFact(z, e.up, e.at) \/ t = z
    BY <1>1 DEF ApplyDatabase
  <2> QED
    BY <2>3, <2>4, <2>5 DEF DatabaseAvailabilityChangedDbs
<1>4. t.site = DatabaseAvailabilityChangedSite(x, e)
  BY <1>1 DEF ApplyDatabase, Fields, NextCursor, MarkScheduled, DatabaseAvailabilityChangedSite
<1>5. Kept(x, t, {"dbs", "site"})
  BY TypeKeeps
<1> QED
  BY <1>2, <1>3, <1>4, <1>5

LEMMA DatabaseAvailabilityChangedEnabled ==
    ASSUME NEW x, NEW e, e.type = "DatabaseAvailabilityChanged", DatabaseAvailabilityChangedGuard(x, e)
    PROVE  Handled(x, e) # {}
<1>1. Handled(x, e) = ApplyDatabase(x, e)
  BY HandledByGroup DEF DatabaseTypes
<1>2. ApplyDatabase(x, e) # {}
  BY DEF ApplyDatabase, DatabaseAvailabilityChangedGuard
<1> QED
  BY <1>1, <1>2

\* DatabaseGrowthRequested: when it applies and what it makes of the fields it changes.
DatabaseGrowthRequestedGuard(x, e) ==
  /\ e.growth \notin DOMAIN x.growth
  /\ Fact(x, e.at)
DatabaseGrowthRequestedGrowth(x, e) == Put(x.growth, e.growth, [data |-> e.data, logs |-> e.logs, db |-> None, blocked |-> FALSE])

LEMMA DatabaseGrowthRequestedEffect ==
    ASSUME NEW x, DOMAIN x = Fields, NEW e, e.type = "DatabaseGrowthRequested", NEW t \in Handled(x, e)
    PROVE  /\ DatabaseGrowthRequestedGuard(x, e)
           /\ t.growth = DatabaseGrowthRequestedGrowth(x, e)
           /\ t.cursor = NextCursor(x, e)
           /\ Kept(x, t, {"growth", "cursor"})
<1>1. t \in ApplyStorage(x, e)
  BY HandledByGroup DEF StorageTypes
<1>2. DatabaseGrowthRequestedGuard(x, e)
  BY <1>1 DEF ApplyStorage, WithStatus, DatabaseGrowthRequestedGuard
<1>3. t.growth = DatabaseGrowthRequestedGrowth(x, e)
  BY <1>1 DEF ApplyStorage, Fields, NextCursor, MarkScheduled, DatabaseGrowthRequestedGrowth
<1>4. t.cursor = NextCursor(x, e)
  BY <1>1 DEF ApplyStorage, Fields, NextCursor, MarkScheduled
<1>5. Kept(x, t, {"growth", "cursor"})
  BY TypeKeeps
<1> QED
  BY <1>2, <1>3, <1>4, <1>5

LEMMA DatabaseGrowthRequestedEnabled ==
    ASSUME NEW x, NEW e, e.type = "DatabaseGrowthRequested", DatabaseGrowthRequestedGuard(x, e)
    PROVE  Handled(x, e) # {}
<1>1. Handled(x, e) = ApplyStorage(x, e)
  BY HandledByGroup DEF StorageTypes
<1>2. ApplyStorage(x, e) # {}
  BY DEF ApplyStorage, DatabaseGrowthRequestedGuard
<1> QED
  BY <1>1, <1>2

\* DatabaseStorageIncreased: when it applies and what it makes of the fields it changes.
DatabaseStorageIncreasedGuard(x, e) ==
  /\ e.growth \in DOMAIN x.growth
  /\ e.db \in DOMAIN x.dbs
  /\ Fact(x, e.at)
  /\ x.growth[e.growth].data = e.data
  /\ x.growth[e.growth].logs = e.logs
  /\ e.version = x.dbs[e.db].version + (IF e.data > 0 THEN 1 ELSE 0)
  /\ Used(x.dbs[e.db]) + e.data + e.logs <= Catalog[e.db].disk
DatabaseStorageIncreasedDbs(x, e) == [x.dbs EXCEPT ![e.db] = [@ EXCEPT !.data = @ + e.data, !.logs = @ + e.logs, !.version = e.version, !.ready = TRUE]]
DatabaseStorageIncreasedGrowth(x, e) == Drop(x.growth, {e.growth})

LEMMA DatabaseStorageIncreasedEffect ==
    ASSUME NEW x, DOMAIN x = Fields, NEW e, e.type = "DatabaseStorageIncreased", NEW t \in Handled(x, e)
    PROVE  /\ DatabaseStorageIncreasedGuard(x, e)
           /\ t.dbs = DatabaseStorageIncreasedDbs(x, e)
           /\ t.growth = DatabaseStorageIncreasedGrowth(x, e)
           /\ Kept(x, t, {"dbs", "growth"})
<1>1. t \in ApplyStorage(x, e)
  BY HandledByGroup DEF StorageTypes
<1>2. DatabaseStorageIncreasedGuard(x, e)
  BY <1>1 DEF ApplyStorage, WithStatus, DatabaseStorageIncreasedGuard
<1>3. t.dbs = DatabaseStorageIncreasedDbs(x, e)
  BY <1>1 DEF ApplyStorage, Fields, NextCursor, MarkScheduled, DatabaseStorageIncreasedDbs
<1>4. t.growth = DatabaseStorageIncreasedGrowth(x, e)
  BY <1>1 DEF ApplyStorage, Fields, NextCursor, MarkScheduled, DatabaseStorageIncreasedGrowth
<1>5. Kept(x, t, {"dbs", "growth"})
  BY TypeKeeps
<1> QED
  BY <1>2, <1>3, <1>4, <1>5

LEMMA DatabaseStorageIncreasedEnabled ==
    ASSUME NEW x, NEW e, e.type = "DatabaseStorageIncreased", DatabaseStorageIncreasedGuard(x, e)
    PROVE  Handled(x, e) # {}
<1>1. Handled(x, e) = ApplyStorage(x, e)
  BY HandledByGroup DEF StorageTypes
<1>2. ApplyStorage(x, e) # {}
  BY DEF ApplyStorage, DatabaseStorageIncreasedGuard
<1> QED
  BY <1>1, <1>2

\* DatabaseGrowthBlocked: when it applies and what it makes of the fields it changes.
DatabaseGrowthBlockedGuard(x, e) ==
  /\ e.growth \in DOMAIN x.growth
  /\ e.db \in DOMAIN x.dbs
  /\ Fact(x, e.at)
  /\ Used(x.dbs[e.db]) + x.growth[e.growth].data + x.growth[e.growth].logs > Catalog[e.db].disk
DatabaseGrowthBlockedGrowth(x, e) == [x.growth EXCEPT ![e.growth].db = e.db, ![e.growth].blocked = TRUE]

LEMMA DatabaseGrowthBlockedEffect ==
    ASSUME NEW x, DOMAIN x = Fields, NEW e, e.type = "DatabaseGrowthBlocked", NEW t \in Handled(x, e)
    PROVE  /\ DatabaseGrowthBlockedGuard(x, e)
           /\ t.growth = DatabaseGrowthBlockedGrowth(x, e)
           /\ Kept(x, t, {"growth"})
<1>1. t \in ApplyStorage(x, e)
  BY HandledByGroup DEF StorageTypes
<1>2. DatabaseGrowthBlockedGuard(x, e)
  BY <1>1 DEF ApplyStorage, WithStatus, DatabaseGrowthBlockedGuard
<1>3. t.growth = DatabaseGrowthBlockedGrowth(x, e)
  BY <1>1 DEF ApplyStorage, Fields, NextCursor, MarkScheduled, DatabaseGrowthBlockedGrowth
<1>4. Kept(x, t, {"growth"})
  BY TypeKeeps
<1> QED
  BY <1>2, <1>3, <1>4

LEMMA DatabaseGrowthBlockedEnabled ==
    ASSUME NEW x, NEW e, e.type = "DatabaseGrowthBlocked", DatabaseGrowthBlockedGuard(x, e)
    PROVE  Handled(x, e) # {}
<1>1. Handled(x, e) = ApplyStorage(x, e)
  BY HandledByGroup DEF StorageTypes
<1>2. ApplyStorage(x, e) # {}
  BY DEF ApplyStorage, DatabaseGrowthBlockedGuard
<1> QED
  BY <1>1, <1>2

\* DiskLogsCleaned: when it applies and what it makes of the fields it changes.
DiskLogsCleanedGuard(x, e) ==
  /\ e.server \in DOMAIN x.servers
  /\ Fact(x, e.at)
  /\ e.freed <= x.servers[e.server].logs + (IF e.server \in DOMAIN x.dbs THEN x.dbs[e.server].logs ELSE 0)
DiskLogsCleanedServers(x, e) == [x.servers EXCEPT ![e.server].logs = @ - Least(e.freed, x.servers[e.server].logs)]
DiskLogsCleanedDbs(x, e) == IF e.server \in DOMAIN x.dbs THEN [x.dbs EXCEPT ![e.server].logs = @ - (e.freed - Least(e.freed, x.servers[e.server].logs))] ELSE x.dbs

LEMMA DiskLogsCleanedEffect ==
    ASSUME NEW x, DOMAIN x = Fields, NEW e, e.type = "DiskLogsCleaned", NEW t \in Handled(x, e)
    PROVE  /\ DiskLogsCleanedGuard(x, e)
           /\ t.servers = DiskLogsCleanedServers(x, e)
           /\ t.dbs = DiskLogsCleanedDbs(x, e)
           /\ Kept(x, t, {"servers", "dbs"})
<1>1. t \in ApplyStorage(x, e)
  BY HandledByGroup DEF StorageTypes
<1>2. DiskLogsCleanedGuard(x, e)
  BY <1>1 DEF ApplyStorage, WithStatus, DiskLogsCleanedGuard
<1>3. t.servers = DiskLogsCleanedServers(x, e)
  BY <1>1 DEF ApplyStorage, Fields, NextCursor, MarkScheduled, DiskLogsCleanedServers
<1>4. t.dbs = DiskLogsCleanedDbs(x, e)
  BY <1>1 DEF ApplyStorage, Fields, NextCursor, MarkScheduled, DiskLogsCleanedDbs
<1>5. Kept(x, t, {"servers", "dbs"})
  BY TypeKeeps
<1> QED
  BY <1>2, <1>3, <1>4, <1>5

LEMMA DiskLogsCleanedEnabled ==
    ASSUME NEW x, NEW e, e.type = "DiskLogsCleaned", DiskLogsCleanedGuard(x, e)
    PROVE  Handled(x, e) # {}
<1>1. Handled(x, e) = ApplyStorage(x, e)
  BY HandledByGroup DEF StorageTypes
<1>2. ApplyStorage(x, e) # {}
  BY DEF ApplyStorage, DiskLogsCleanedGuard
<1> QED
  BY <1>1, <1>2

\* DiskLogsGrowthRequested: when it applies and what it makes of the fields it changes.
DiskLogsGrowthRequestedGuard(x, e) ==
  /\ e.server \in DOMAIN x.servers
  /\ Fact(x, e.at)

LEMMA DiskLogsGrowthRequestedEffect ==
    ASSUME NEW x, DOMAIN x = Fields, NEW e, e.type = "DiskLogsGrowthRequested", NEW t \in Handled(x, e)
    PROVE  /\ DiskLogsGrowthRequestedGuard(x, e)
           /\ t.cursor = NextCursor(x, e)
           /\ Kept(x, t, {"cursor"})
<1>1. t \in ApplyStorage(x, e)
  BY HandledByGroup DEF StorageTypes
<1>2. DiskLogsGrowthRequestedGuard(x, e)
  BY <1>1 DEF ApplyStorage, WithStatus, DiskLogsGrowthRequestedGuard
<1>3. t.cursor = NextCursor(x, e)
  BY <1>1 DEF ApplyStorage, Fields, NextCursor, MarkScheduled
<1>4. Kept(x, t, {"cursor"})
  BY TypeKeeps
<1> QED
  BY <1>2, <1>3, <1>4

LEMMA DiskLogsGrowthRequestedEnabled ==
    ASSUME NEW x, NEW e, e.type = "DiskLogsGrowthRequested", DiskLogsGrowthRequestedGuard(x, e)
    PROVE  Handled(x, e) # {}
<1>1. Handled(x, e) = ApplyStorage(x, e)
  BY HandledByGroup DEF StorageTypes
<1>2. ApplyStorage(x, e) # {}
  BY DEF ApplyStorage, DiskLogsGrowthRequestedGuard
<1> QED
  BY <1>1, <1>2

\* DiskLogsIncreased: when it applies and what it makes of the fields it changes.
DiskLogsIncreasedGuard(x, e) ==
  /\ e.server \in DOMAIN x.servers
  /\ Fact(x, e.at)
  /\ e.bytes <= FreeDisk(x, e.server)
DiskLogsIncreasedServers(x, e) == [x.servers EXCEPT ![e.server].logs = @ + e.bytes]

LEMMA DiskLogsIncreasedEffect ==
    ASSUME NEW x, DOMAIN x = Fields, NEW e, e.type = "DiskLogsIncreased", NEW t \in Handled(x, e)
    PROVE  /\ DiskLogsIncreasedGuard(x, e)
           /\ t.servers = DiskLogsIncreasedServers(x, e)
           /\ Kept(x, t, {"servers"})
<1>1. t \in ApplyStorage(x, e)
  BY HandledByGroup DEF StorageTypes
<1>2. DiskLogsIncreasedGuard(x, e)
  BY <1>1 DEF ApplyStorage, WithStatus, DiskLogsIncreasedGuard
<1>3. t.servers = DiskLogsIncreasedServers(x, e)
  BY <1>1 DEF ApplyStorage, Fields, NextCursor, MarkScheduled, DiskLogsIncreasedServers
<1>4. Kept(x, t, {"servers"})
  BY TypeKeeps
<1> QED
  BY <1>2, <1>3, <1>4

LEMMA DiskLogsIncreasedEnabled ==
    ASSUME NEW x, NEW e, e.type = "DiskLogsIncreased", DiskLogsIncreasedGuard(x, e)
    PROVE  Handled(x, e) # {}
<1>1. Handled(x, e) = ApplyStorage(x, e)
  BY HandledByGroup DEF StorageTypes
<1>2. ApplyStorage(x, e) # {}
  BY DEF ApplyStorage, DiskLogsIncreasedGuard
<1> QED
  BY <1>1, <1>2

\* DiskLogsGrowthBlocked: when it applies and what it makes of the fields it changes.
DiskLogsGrowthBlockedGuard(x, e) ==
  /\ e.server \in DOMAIN x.servers
  /\ Fact(x, e.at)
  /\ e.bytes > FreeDisk(x, e.server)

LEMMA DiskLogsGrowthBlockedEffect ==
    ASSUME NEW x, DOMAIN x = Fields, NEW e, e.type = "DiskLogsGrowthBlocked", NEW t \in Handled(x, e)
    PROVE  /\ DiskLogsGrowthBlockedGuard(x, e)
           /\ Kept(x, t, {})
<1>1. t \in ApplyStorage(x, e)
  BY HandledByGroup DEF StorageTypes
<1>2. DiskLogsGrowthBlockedGuard(x, e)
  BY <1>1 DEF ApplyStorage, WithStatus, DiskLogsGrowthBlockedGuard
<1>3. Kept(x, t, {})
  BY TypeKeeps
<1> QED
  BY <1>2, <1>3

LEMMA DiskLogsGrowthBlockedEnabled ==
    ASSUME NEW x, NEW e, e.type = "DiskLogsGrowthBlocked", DiskLogsGrowthBlockedGuard(x, e)
    PROVE  Handled(x, e) # {}
<1>1. Handled(x, e) = ApplyStorage(x, e)
  BY HandledByGroup DEF StorageTypes
<1>2. ApplyStorage(x, e) # {}
  BY DEF ApplyStorage, DiskLogsGrowthBlockedGuard
<1> QED
  BY <1>1, <1>2

\* DatabaseBackupStarted: when it applies and what it makes of the fields it changes.
DatabaseBackupStartedGuard(x, e) ==
  /\ e.db \in DOMAIN x.dbs
  /\ e.backup \notin DOMAIN x.backups
  /\ Fact(x, e.at)
DatabaseBackupStartedBackups(x, e) == Put(x.backups, e.backup, [status |-> "creating", db |-> e.db, data |-> 0, version |-> 0, rate |-> 0, completed |-> Never, billed |-> 0])

LEMMA DatabaseBackupStartedEffect ==
    ASSUME NEW x, DOMAIN x = Fields, NEW e, e.type = "DatabaseBackupStarted", NEW t \in Handled(x, e)
    PROVE  /\ DatabaseBackupStartedGuard(x, e)
           /\ t.backups = DatabaseBackupStartedBackups(x, e)
           /\ Kept(x, t, {"backups"})
<1>1. t \in ApplyMigration(x, e)
  BY HandledByGroup DEF MigrationTypes
<1>2. DatabaseBackupStartedGuard(x, e)
  BY <1>1 DEF ApplyMigration, WithStatus, DatabaseBackupStartedGuard
<1>3. t.backups = DatabaseBackupStartedBackups(x, e)
  BY <1>1 DEF ApplyMigration, Fields, NextCursor, MarkScheduled, DatabaseBackupStartedBackups
<1>4. Kept(x, t, {"backups"})
  BY TypeKeeps
<1> QED
  BY <1>2, <1>3, <1>4

LEMMA DatabaseBackupStartedEnabled ==
    ASSUME NEW x, NEW e, e.type = "DatabaseBackupStarted", DatabaseBackupStartedGuard(x, e)
    PROVE  Handled(x, e) # {}
<1>1. Handled(x, e) = ApplyMigration(x, e)
  BY HandledByGroup DEF MigrationTypes
<1>2. ApplyMigration(x, e) # {}
  BY DEF ApplyMigration, DatabaseBackupStartedGuard
<1> QED
  BY <1>1, <1>2

\* DatabaseBackupCompleted: when it applies and what it makes of the fields it changes.
DatabaseBackupCompletedGuard(x, e) ==
  /\ e.backup \in DOMAIN x.backups
  /\ e.db \in DOMAIN x.dbs
  /\ Fact(x, e.at)
  /\ x.backups[e.backup].status = "creating"
  /\ x.backups[e.backup].db = e.db
  /\ e.data = x.dbs[e.db].data
  /\ e.version = x.dbs[e.db].version
  /\ e.rate = BackupRate(e.data)
DatabaseBackupCompletedBackups(x, e) == [x.backups EXCEPT ![e.backup] = [@ EXCEPT !.status = "ready", !.data = e.data, !.version = e.version, !.rate = e.rate, !.completed = e.at]]

LEMMA DatabaseBackupCompletedEffect ==
    ASSUME NEW x, DOMAIN x = Fields, NEW e, e.type = "DatabaseBackupCompleted", NEW t \in Handled(x, e)
    PROVE  /\ DatabaseBackupCompletedGuard(x, e)
           /\ t.backups = DatabaseBackupCompletedBackups(x, e)
           /\ Kept(x, t, {"backups"})
<1>1. t \in ApplyMigration(x, e)
  BY HandledByGroup DEF MigrationTypes
<1>2. DatabaseBackupCompletedGuard(x, e)
  BY <1>1 DEF ApplyMigration, WithStatus, DatabaseBackupCompletedGuard
<1>3. t.backups = DatabaseBackupCompletedBackups(x, e)
  BY <1>1 DEF ApplyMigration, Fields, NextCursor, MarkScheduled, DatabaseBackupCompletedBackups
<1>4. Kept(x, t, {"backups"})
  BY TypeKeeps
<1> QED
  BY <1>2, <1>3, <1>4

LEMMA DatabaseBackupCompletedEnabled ==
    ASSUME NEW x, NEW e, e.type = "DatabaseBackupCompleted", DatabaseBackupCompletedGuard(x, e)
    PROVE  Handled(x, e) # {}
<1>1. Handled(x, e) = ApplyMigration(x, e)
  BY HandledByGroup DEF MigrationTypes
<1>2. ApplyMigration(x, e) # {}
  BY DEF ApplyMigration, DatabaseBackupCompletedGuard
<1> QED
  BY <1>1, <1>2

\* DatabaseRestoreStarted: when it applies and what it makes of the fields it changes.
DatabaseRestoreStartedGuard(x, e) ==
  /\ e.db \in DOMAIN x.dbs
  /\ e.backup \in DOMAIN x.backups
  /\ Fact(x, e.at)
  /\ x.backups[e.backup].status = "ready"
  /\ Used(x.dbs[e.db]) = 0
DatabaseRestoreStartedDbs(x, e) == [x.dbs EXCEPT ![e.db].ready = FALSE]

LEMMA DatabaseRestoreStartedEffect ==
    ASSUME NEW x, DOMAIN x = Fields, NEW e, e.type = "DatabaseRestoreStarted", NEW t \in Handled(x, e)
    PROVE  /\ DatabaseRestoreStartedGuard(x, e)
           /\ t.dbs = DatabaseRestoreStartedDbs(x, e)
           /\ Kept(x, t, {"dbs"})
<1>1. t \in ApplyMigration(x, e)
  BY HandledByGroup DEF MigrationTypes
<1>2. DatabaseRestoreStartedGuard(x, e)
  BY <1>1 DEF ApplyMigration, WithStatus, DatabaseRestoreStartedGuard
<1>3. t.dbs = DatabaseRestoreStartedDbs(x, e)
  BY <1>1 DEF ApplyMigration, Fields, NextCursor, MarkScheduled, DatabaseRestoreStartedDbs
<1>4. Kept(x, t, {"dbs"})
  BY TypeKeeps
<1> QED
  BY <1>2, <1>3, <1>4

LEMMA DatabaseRestoreStartedEnabled ==
    ASSUME NEW x, NEW e, e.type = "DatabaseRestoreStarted", DatabaseRestoreStartedGuard(x, e)
    PROVE  Handled(x, e) # {}
<1>1. Handled(x, e) = ApplyMigration(x, e)
  BY HandledByGroup DEF MigrationTypes
<1>2. ApplyMigration(x, e) # {}
  BY DEF ApplyMigration, DatabaseRestoreStartedGuard
<1> QED
  BY <1>1, <1>2

\* DatabaseRestoreCompleted: when it applies and what it makes of the fields it changes.
DatabaseRestoreCompletedGuard(x, e) ==
  /\ e.db \in DOMAIN x.dbs
  /\ e.backup \in DOMAIN x.backups
  /\ Fact(x, e.at)
  /\ x.backups[e.backup].status = "ready"
  /\ e.data = x.backups[e.backup].data
  /\ e.version = x.backups[e.backup].version
DatabaseRestoreCompletedDbs(x, e) == [x.dbs EXCEPT ![e.db] = [@ EXCEPT !.data = e.data, !.version = e.version, !.ready = TRUE, !.from = x.backups[e.backup].db]]

LEMMA DatabaseRestoreCompletedEffect ==
    ASSUME NEW x, DOMAIN x = Fields, NEW e, e.type = "DatabaseRestoreCompleted", NEW t \in Handled(x, e)
    PROVE  /\ DatabaseRestoreCompletedGuard(x, e)
           /\ t.dbs = DatabaseRestoreCompletedDbs(x, e)
           /\ Kept(x, t, {"dbs"})
<1>1. t \in ApplyMigration(x, e)
  BY HandledByGroup DEF MigrationTypes
<1>2. DatabaseRestoreCompletedGuard(x, e)
  BY <1>1 DEF ApplyMigration, WithStatus, DatabaseRestoreCompletedGuard
<1>3. t.dbs = DatabaseRestoreCompletedDbs(x, e)
  BY <1>1 DEF ApplyMigration, Fields, NextCursor, MarkScheduled, DatabaseRestoreCompletedDbs
<1>4. Kept(x, t, {"dbs"})
  BY TypeKeeps
<1> QED
  BY <1>2, <1>3, <1>4

LEMMA DatabaseRestoreCompletedEnabled ==
    ASSUME NEW x, NEW e, e.type = "DatabaseRestoreCompleted", DatabaseRestoreCompletedGuard(x, e)
    PROVE  Handled(x, e) # {}
<1>1. Handled(x, e) = ApplyMigration(x, e)
  BY HandledByGroup DEF MigrationTypes
<1>2. ApplyMigration(x, e) # {}
  BY DEF ApplyMigration, DatabaseRestoreCompletedGuard
<1> QED
  BY <1>1, <1>2

\* SiteStopStarted: when it applies and what it makes of the fields it changes.
SiteStopStartedGuard(x, e) ==
  /\ x.site.status = "running"
  /\ e.at = x.now
SiteStopStartedSite(x, e) == OpenOutage([x EXCEPT !.site.status = "stopping", !.site.op = e.op], e.at).site

LEMMA SiteStopStartedEffect ==
    ASSUME NEW x, DOMAIN x = Fields, NEW e, e.type = "SiteStopStarted", NEW t \in Handled(x, e)
    PROVE  /\ SiteStopStartedGuard(x, e)
           /\ t.site = SiteStopStartedSite(x, e)
           /\ Kept(x, t, {"site"})
<1>1. t \in ApplyMigration(x, e)
  BY HandledByGroup DEF MigrationTypes
<1>2. SiteStopStartedGuard(x, e)
  BY <1>1 DEF ApplyMigration, WithStatus, SiteStopStartedGuard
<1>3. t.site = SiteStopStartedSite(x, e)
  BY <1>1 DEF ApplyMigration, Fields, NextCursor, MarkScheduled, SiteStopStartedSite
<1>4. Kept(x, t, {"site"})
  BY TypeKeeps
<1> QED
  BY <1>2, <1>3, <1>4

LEMMA SiteStopStartedEnabled ==
    ASSUME NEW x, NEW e, e.type = "SiteStopStarted", SiteStopStartedGuard(x, e)
    PROVE  Handled(x, e) # {}
<1>1. Handled(x, e) = ApplyMigration(x, e)
  BY HandledByGroup DEF MigrationTypes
<1>2. ApplyMigration(x, e) # {}
  BY DEF ApplyMigration, SiteStopStartedGuard
<1> QED
  BY <1>1, <1>2

\* SiteStopped: when it applies and what it makes of the fields it changes.
SiteStoppedGuard(x, e) ==
  /\ x.site.status = "stopping"
  /\ x.site.op = e.op
  /\ DOMAIN x.conns = {}
  /\ Fact(x, e.at)
SiteStoppedSite(x, e) == [x.site EXCEPT !.status = "stopped"]

LEMMA SiteStoppedEffect ==
    ASSUME NEW x, DOMAIN x = Fields, NEW e, e.type = "SiteStopped", NEW t \in Handled(x, e)
    PROVE  /\ SiteStoppedGuard(x, e)
           /\ t.site = SiteStoppedSite(x, e)
           /\ Kept(x, t, {"site"})
<1>1. t \in ApplyMigration(x, e)
  BY HandledByGroup DEF MigrationTypes
<1>2. SiteStoppedGuard(x, e)
  BY <1>1 DEF ApplyMigration, WithStatus, SiteStoppedGuard
<1>3. t.site = SiteStoppedSite(x, e)
  BY <1>1 DEF ApplyMigration, Fields, NextCursor, MarkScheduled, SiteStoppedSite
<1>4. Kept(x, t, {"site"})
  BY TypeKeeps
<1> QED
  BY <1>2, <1>3, <1>4

LEMMA SiteStoppedEnabled ==
    ASSUME NEW x, NEW e, e.type = "SiteStopped", SiteStoppedGuard(x, e)
    PROVE  Handled(x, e) # {}
<1>1. Handled(x, e) = ApplyMigration(x, e)
  BY HandledByGroup DEF MigrationTypes
<1>2. ApplyMigration(x, e) # {}
  BY DEF ApplyMigration, SiteStoppedGuard
<1> QED
  BY <1>1, <1>2

\* SiteDatabaseChanged: when it applies and what it makes of the fields it changes.
SiteDatabaseChangedGuard(x, e) ==
  /\ x.site.status = "stopped"
  /\ e.db \in DOMAIN x.dbs
  /\ Fact(x, e.at)
  /\ x.dbs[e.db].ready
  /\ x.site.db = e.previous
SiteDatabaseChangedSite(x, e) == [x.site EXCEPT !.db = e.db]

LEMMA SiteDatabaseChangedEffect ==
    ASSUME NEW x, DOMAIN x = Fields, NEW e, e.type = "SiteDatabaseChanged", NEW t \in Handled(x, e)
    PROVE  /\ SiteDatabaseChangedGuard(x, e)
           /\ t.site = SiteDatabaseChangedSite(x, e)
           /\ Kept(x, t, {"site"})
<1>1. t \in ApplyMigration(x, e)
  BY HandledByGroup DEF MigrationTypes
<1>2. SiteDatabaseChangedGuard(x, e)
  BY <1>1 DEF ApplyMigration, WithStatus, SiteDatabaseChangedGuard
<1>3. t.site = SiteDatabaseChangedSite(x, e)
  BY <1>1 DEF ApplyMigration, Fields, NextCursor, MarkScheduled, SiteDatabaseChangedSite
<1>4. Kept(x, t, {"site"})
  BY TypeKeeps
<1> QED
  BY <1>2, <1>3, <1>4

LEMMA SiteDatabaseChangedEnabled ==
    ASSUME NEW x, NEW e, e.type = "SiteDatabaseChanged", SiteDatabaseChangedGuard(x, e)
    PROVE  Handled(x, e) # {}
<1>1. Handled(x, e) = ApplyMigration(x, e)
  BY HandledByGroup DEF MigrationTypes
<1>2. ApplyMigration(x, e) # {}
  BY DEF ApplyMigration, SiteDatabaseChangedGuard
<1> QED
  BY <1>1, <1>2

\* SiteStarted: when it applies and what it makes of the fields it changes.
SiteStartedGuard(x, e) ==
  /\ x.site.status = "stopped"
  /\ x.site.db = e.db
  /\ e.at = x.now
  /\ e.db \in DOMAIN x.dbs
  /\ Available(x.dbs[e.db])
SiteStartedSite(x, e) == CloseOutage([x EXCEPT !.site.status = "running", !.site.op = NoOperation], e.at).site

LEMMA SiteStartedEffect ==
    ASSUME NEW x, DOMAIN x = Fields, NEW e, e.type = "SiteStarted", NEW t \in Handled(x, e)
    PROVE  /\ SiteStartedGuard(x, e)
           /\ t.site = SiteStartedSite(x, e)
           /\ Kept(x, t, {"site"})
<1>1. t \in ApplyMigration(x, e)
  BY HandledByGroup DEF MigrationTypes
<1>2. SiteStartedGuard(x, e)
  BY <1>1 DEF ApplyMigration, WithStatus, SiteStartedGuard
<1>3. t.site = SiteStartedSite(x, e)
  BY <1>1 DEF ApplyMigration, Fields, NextCursor, MarkScheduled, SiteStartedSite
<1>4. Kept(x, t, {"site"})
  BY TypeKeeps
<1> QED
  BY <1>2, <1>3, <1>4

LEMMA SiteStartedEnabled ==
    ASSUME NEW x, NEW e, e.type = "SiteStarted", SiteStartedGuard(x, e)
    PROVE  Handled(x, e) # {}
<1>1. Handled(x, e) = ApplyMigration(x, e)
  BY HandledByGroup DEF MigrationTypes
<1>2. ApplyMigration(x, e) # {}
  BY DEF ApplyMigration, SiteStartedGuard
<1> QED
  BY <1>1, <1>2

\* What the site's availability depends on.
AlikeSites(x, y) ==
  /\ DOMAIN x = Fields /\ DOMAIN y = Fields
  /\ x.site = y.site /\ x.dbs = y.dbs
  /\ x.firewallDown = y.firewallDown /\ x.backendDown = y.backendDown

LEMMA AlikeOutage ==
    ASSUME NEW x, NEW y, AlikeSites(x, y), NEW up, NEW at
    PROVE  /\ AvailabilityFact(x, up, at).site = AvailabilityFact(y, up, at).site
           /\ OpenOutage(x, at).site = OpenOutage(y, at).site
           /\ CloseOutage(x, at).site = CloseOutage(y, at).site
<1>1. OpenOutage(x, at).site = OpenOutage(y, at).site
  BY DEF OpenOutage, AlikeSites, Fields
<1>2. CloseOutage(x, at).site = CloseOutage(y, at).site
  BY DEF CloseOutage, DependenciesUp, AlikeSites, Fields
<1> QED
  BY <1>1, <1>2 DEF AvailabilityFact, AlikeSites

LEMMA SameBackupReadings ==
    ASSUME NEW x, NEW y, Alike(x, y)
    PROVE  /\ DOMAIN x.backups = DOMAIN y.backups
           /\ \A b \in DOMAIN x.backups :
                /\ x.backups[b].status = y.backups[b].status
                /\ x.backups[b].db = y.backups[b].db
                /\ x.backups[b].data = y.backups[b].data
                /\ x.backups[b].version = y.backups[b].version
  BY DEF Alike, SameRows, BackupFields

LEMMA AlikeByRows ==
    ASSUME NEW x, NEW y, Alike(x, y), NEW F, NEW t, Kept(x, t, F), NEW u, Kept(y, u, F),
           \A f \in F \ ButBilled : t[f] = u[f],
           "servers" \in F => SameRows(t.servers, u.servers, ServerFields, {"accrued", "billed"}),
           "backups" \in F => SameRows(t.backups, u.backups, BackupFields, {"billed"})
    PROVE  Alike(t, u)
<1>1. "servers" \notin F => t.servers = x.servers /\ u.servers = y.servers
  BY DEF Kept, Fields
<1>2. "backups" \notin F => t.backups = x.backups /\ u.backups = y.backups
  BY DEF Kept, Fields
<1>3. ASSUME NEW f \in Fields \ ButBilled
      PROVE  t[f] = u[f]
  <2>1. CASE f \in F
    BY <2>1
  <2>2. CASE f \notin F
    BY <2>2 DEF Kept, Alike
  <2> QED
    BY <2>1, <2>2
<1>4. SameRows(t.servers, u.servers, ServerFields, {"accrued", "billed"})
  BY <1>1 DEF Alike
<1>5. SameRows(t.backups, u.backups, BackupFields, {"billed"})
  BY <1>2 DEF Alike
<1> QED
  BY <1>3, <1>4, <1>5 DEF Alike, Kept

LEMMA RunEndedAlike ==
    ASSUME NEW x, NEW y, Alike(x, y), NEW e, TimeFits(e, x, y), e.type = "RunEnded",
           NEW t \in Handled(x, e)
    PROVE  Carries(t, Handled(y, e))
<1>1. DOMAIN x = Fields /\ DOMAIN y = Fields
  BY DEF Alike
<1>2. RunEndedGuard(x, e)
  BY <1>1, RunEndedEffect
<1>3. /\ x.status = y.status
  BY SameFields
<1>4. RunEndedGuard(y, e)
  BY <1>2, <1>3, SameReadings, SameServerReadings, SameBackupReadings
     DEF RunEndedGuard, TimeFits, FactTypes, PageTypes, TrafficTypes, StorageTypes, Running, Fact
<1>5. Handled(y, e) # {}
  BY <1>1, <1>4, RunEndedEnabled
<1>6. ASSUME NEW u \in Handled(y, e)
      PROVE  Alike(t, u)
  <2>1. t.status = u.status
    <3>1. t.status = "completed"
      BY <1>1, RunEndedEffect
    <3>2. u.status = "completed"
      BY <1>1, <1>6, RunEndedEffect
    <3> QED
      BY <1>3, <3>1, <3>2
  <2>2. Kept(x, t, {"status"}) /\ Kept(y, u, {"status"})
    BY <1>1, <1>6, RunEndedEffect
  <2> QED
    BY <2>1, <2>2, AlikeByKept
<1> QED
  BY <1>5, <1>6 DEF Carries

LEMMA OperationStartedAlike ==
    ASSUME NEW x, NEW y, Alike(x, y), NEW e, TimeFits(e, x, y), e.type = "OperationStarted",
           NEW t \in Handled(x, e)
    PROVE  Carries(t, Handled(y, e))
<1>1. DOMAIN x = Fields /\ DOMAIN y = Fields
  BY DEF Alike
<1>2. OperationStartedGuard(x, e)
  BY <1>1, OperationStartedEffect
<1>3. /\ x.ops = y.ops
      /\ x.status = y.status
  BY SameFields
<1>4. OperationStartedGuard(y, e)
  BY <1>2, <1>3, SameReadings, SameServerReadings, SameBackupReadings
     DEF OperationStartedGuard, TimeFits, FactTypes, PageTypes, TrafficTypes, StorageTypes, Running, Fact
<1>5. Handled(y, e) # {}
  BY <1>1, <1>4, OperationStartedEnabled
<1>6. ASSUME NEW u \in Handled(y, e)
      PROVE  Alike(t, u)
  <2>1. t.ops = u.ops
    <3>1. t.ops = OperationStartedOps(x, e)
      BY <1>1, OperationStartedEffect
    <3>2. u.ops = OperationStartedOps(y, e)
      BY <1>1, <1>6, OperationStartedEffect
    <3>3. OperationStartedOps(x, e) = OperationStartedOps(y, e)
      BY <1>2, <1>3 DEF OperationStartedOps
    <3> QED
      BY <3>1, <3>2, <3>3
  <2>2. Kept(x, t, {"ops"}) /\ Kept(y, u, {"ops"})
    BY <1>1, <1>6, OperationStartedEffect
  <2> QED
    BY <2>1, <2>2, AlikeByKept
<1> QED
  BY <1>5, <1>6 DEF Carries

LEMMA OperationSucceededAlike ==
    ASSUME NEW x, NEW y, Alike(x, y), NEW e, TimeFits(e, x, y), e.type = "OperationSucceeded",
           NEW t \in Handled(x, e)
    PROVE  Carries(t, Handled(y, e))
<1>1. DOMAIN x = Fields /\ DOMAIN y = Fields
  BY DEF Alike
<1>2. OperationSucceededGuard(x, e)
  BY <1>1, OperationSucceededEffect
<1>3. /\ x.ops = y.ops
  BY SameFields
<1>4. OperationSucceededGuard(y, e)
  BY <1>2, <1>3, SameReadings, SameServerReadings, SameBackupReadings
     DEF OperationSucceededGuard, TimeFits, FactTypes, PageTypes, TrafficTypes, StorageTypes, Running, Fact
<1>5. Handled(y, e) # {}
  BY <1>1, <1>4, OperationSucceededEnabled
<1>6. ASSUME NEW u \in Handled(y, e)
      PROVE  Alike(t, u)
  <2>1. t.ops = u.ops
    <3>1. t.ops = OperationSucceededOps(x, e)
      BY <1>1, OperationSucceededEffect
    <3>2. u.ops = OperationSucceededOps(y, e)
      BY <1>1, <1>6, OperationSucceededEffect
    <3>3. OperationSucceededOps(x, e) = OperationSucceededOps(y, e)
      BY <1>2, <1>3 DEF OperationSucceededOps
    <3> QED
      BY <3>1, <3>2, <3>3
  <2>2. Kept(x, t, {"ops"}) /\ Kept(y, u, {"ops"})
    BY <1>1, <1>6, OperationSucceededEffect
  <2> QED
    BY <2>1, <2>2, AlikeByKept
<1> QED
  BY <1>5, <1>6 DEF Carries

LEMMA ServerProvisioningStartedAlike ==
    ASSUME NEW x, NEW y, Alike(x, y), NEW e, TimeFits(e, x, y), e.type = "ServerProvisioningStarted",
           NEW t \in Handled(x, e)
    PROVE  Carries(t, Handled(y, e))
<1>1. DOMAIN x = Fields /\ DOMAIN y = Fields
  BY DEF Alike
<1>2. ServerProvisioningStartedGuard(x, e)
  BY <1>1, ServerProvisioningStartedEffect
<1>3. /\ x.status = y.status
  BY SameFields
<1>4. ServerProvisioningStartedGuard(y, e)
  BY <1>2, <1>3, SameReadings, SameServerReadings, SameBackupReadings
     DEF ServerProvisioningStartedGuard, TimeFits, FactTypes, PageTypes, TrafficTypes, StorageTypes, Running, Fact, WithStatus
<1>5. Handled(y, e) # {}
  BY <1>1, <1>4, ServerProvisioningStartedEnabled
<1>6. ASSUME NEW u \in Handled(y, e)
      PROVE  Alike(t, u)
  <2>1. SameRows(t.servers, u.servers, ServerFields, {"accrued", "billed"})
    <3>1. t.servers = ServerProvisioningStartedServers(x, e)
      BY <1>1, ServerProvisioningStartedEffect
    <3>2. u.servers = ServerProvisioningStartedServers(y, e)
      BY <1>1, <1>6, ServerProvisioningStartedEffect
    <3>3. SameRows(x.servers, y.servers, ServerFields, {"accrued", "billed"})
      BY DEF Alike
    <3>4. SameRows(ServerProvisioningStartedServers(x, e), ServerProvisioningStartedServers(y, e), ServerFields, {"accrued", "billed"})
      BY <1>2, <1>3, <3>3 DEF ServerProvisioningStartedServers, SameRows, ServerFields, Put, Drop, ServerProvisioningStartedGuard, WithStatus
    <3> QED
      BY <3>1, <3>2, <3>4
  <2>2. Kept(x, t, {"servers"}) /\ Kept(y, u, {"servers"})
    BY <1>1, <1>6, ServerProvisioningStartedEffect
  <2>3. \A f \in {"servers"} \ ButBilled : t[f] = u[f]
    BY <2>1, <2>2 DEF ButBilled
  <2>4. "servers" \in {"servers"} => SameRows(t.servers, u.servers, ServerFields, {"accrued", "billed"})
    BY <2>1, <2>2
  <2>5. "backups" \in {"servers"} => SameRows(t.backups, u.backups, BackupFields, {"billed"})
    BY <2>1, <2>2
  <2> QED
    BY <2>2, <2>3, <2>4, <2>5, AlikeByRows
<1> QED
  BY <1>5, <1>6 DEF Carries

LEMMA ServerActivatedAlike ==
    ASSUME NEW x, NEW y, Alike(x, y), NEW e, TimeFits(e, x, y), e.type = "ServerActivated",
           NEW t \in Handled(x, e)
    PROVE  Carries(t, Handled(y, e))
<1>1. DOMAIN x = Fields /\ DOMAIN y = Fields
  BY DEF Alike
<1>2. ServerActivatedGuard(x, e)
  BY <1>1, ServerActivatedEffect
<1>3. TRUE
  BY SameFields
<1>4. ServerActivatedGuard(y, e)
  BY <1>2, <1>3, SameReadings, SameServerReadings, SameBackupReadings
     DEF ServerActivatedGuard, TimeFits, FactTypes, PageTypes, TrafficTypes, StorageTypes, Running, Fact, WithStatus
<1>5. Handled(y, e) # {}
  BY <1>1, <1>4, ServerActivatedEnabled
<1>6. ASSUME NEW u \in Handled(y, e)
      PROVE  Alike(t, u)
  <2>1. SameRows(t.servers, u.servers, ServerFields, {"accrued", "billed"})
    <3>1. t.servers = ServerActivatedServers(x, e)
      BY <1>1, ServerActivatedEffect
    <3>2. u.servers = ServerActivatedServers(y, e)
      BY <1>1, <1>6, ServerActivatedEffect
    <3>3. SameRows(x.servers, y.servers, ServerFields, {"accrued", "billed"})
      BY DEF Alike
    <3>4. SameRows(ServerActivatedServers(x, e), ServerActivatedServers(y, e), ServerFields, {"accrued", "billed"})
      BY <1>2, <1>3, <3>3 DEF ServerActivatedServers, SameRows, ServerFields, Put, Drop, ServerActivatedGuard, WithStatus
    <3> QED
      BY <3>1, <3>2, <3>4
  <2>2. Kept(x, t, {"servers"}) /\ Kept(y, u, {"servers"})
    BY <1>1, <1>6, ServerActivatedEffect
  <2>3. \A f \in {"servers"} \ ButBilled : t[f] = u[f]
    BY <2>1, <2>2 DEF ButBilled
  <2>4. "servers" \in {"servers"} => SameRows(t.servers, u.servers, ServerFields, {"accrued", "billed"})
    BY <2>1, <2>2
  <2>5. "backups" \in {"servers"} => SameRows(t.backups, u.backups, BackupFields, {"billed"})
    BY <2>1, <2>2
  <2> QED
    BY <2>2, <2>3, <2>4, <2>5, AlikeByRows
<1> QED
  BY <1>5, <1>6 DEF Carries

LEMMA ServerDrainingStartedAlike ==
    ASSUME NEW x, NEW y, Alike(x, y), NEW e, TimeFits(e, x, y), e.type = "ServerDrainingStarted",
           NEW t \in Handled(x, e)
    PROVE  Carries(t, Handled(y, e))
<1>1. DOMAIN x = Fields /\ DOMAIN y = Fields
  BY DEF Alike
<1>2. ServerDrainingStartedGuard(x, e)
  BY <1>1, ServerDrainingStartedEffect
<1>3. /\ x.ops = y.ops
      /\ x.status = y.status
  BY SameFields
<1>4. ServerDrainingStartedGuard(y, e)
  BY <1>2, <1>3, SameReadings, SameServerReadings, SameBackupReadings
     DEF ServerDrainingStartedGuard, TimeFits, FactTypes, PageTypes, TrafficTypes, StorageTypes, Running, Fact, WithStatus
<1>5. Handled(y, e) # {}
  BY <1>1, <1>4, ServerDrainingStartedEnabled
<1>6. ASSUME NEW u \in Handled(y, e)
      PROVE  Alike(t, u)
  <2>1. SameRows(t.servers, u.servers, ServerFields, {"accrued", "billed"})
    <3>1. t.servers = ServerDrainingStartedServers(x, e)
      BY <1>1, ServerDrainingStartedEffect
    <3>2. u.servers = ServerDrainingStartedServers(y, e)
      BY <1>1, <1>6, ServerDrainingStartedEffect
    <3>3. SameRows(x.servers, y.servers, ServerFields, {"accrued", "billed"})
      BY DEF Alike
    <3>4. SameRows(ServerDrainingStartedServers(x, e), ServerDrainingStartedServers(y, e), ServerFields, {"accrued", "billed"})
      BY <1>2, <1>3, <3>3 DEF ServerDrainingStartedServers, SameRows, ServerFields, Put, Drop, ServerDrainingStartedGuard, WithStatus
    <3> QED
      BY <3>1, <3>2, <3>4
  <2>2. Kept(x, t, {"servers"}) /\ Kept(y, u, {"servers"})
    BY <1>1, <1>6, ServerDrainingStartedEffect
  <2>3. \A f \in {"servers"} \ ButBilled : t[f] = u[f]
    BY <2>1, <2>2 DEF ButBilled
  <2>4. "servers" \in {"servers"} => SameRows(t.servers, u.servers, ServerFields, {"accrued", "billed"})
    BY <2>1, <2>2
  <2>5. "backups" \in {"servers"} => SameRows(t.backups, u.backups, BackupFields, {"billed"})
    BY <2>1, <2>2
  <2> QED
    BY <2>2, <2>3, <2>4, <2>5, AlikeByRows
<1> QED
  BY <1>5, <1>6 DEF Carries

LEMMA ServerRemovedAlike ==
    ASSUME NEW x, NEW y, Alike(x, y), NEW e, TimeFits(e, x, y), e.type = "ServerRemoved",
           NEW t \in Handled(x, e)
    PROVE  Carries(t, Handled(y, e))
<1>1. DOMAIN x = Fields /\ DOMAIN y = Fields
  BY DEF Alike
<1>2. ServerRemovedGuard(x, e)
  BY <1>1, ServerRemovedEffect
<1>3. /\ x.dbs = y.dbs
      /\ x.growth = y.growth
  BY SameFields
<1>4. ServerRemovedGuard(y, e)
  BY <1>2, <1>3, SameReadings, SameServerReadings, SameBackupReadings
     DEF ServerRemovedGuard, TimeFits, FactTypes, PageTypes, TrafficTypes, StorageTypes, Running, Fact, WithStatus
<1>5. Handled(y, e) # {}
  BY <1>1, <1>4, ServerRemovedEnabled
<1>6. ASSUME NEW u \in Handled(y, e)
      PROVE  Alike(t, u)
  <2>1. SameRows(t.servers, u.servers, ServerFields, {"accrued", "billed"})
    <3>1. t.servers = ServerRemovedServers(x, e)
      BY <1>1, ServerRemovedEffect
    <3>2. u.servers = ServerRemovedServers(y, e)
      BY <1>1, <1>6, ServerRemovedEffect
    <3>3. SameRows(x.servers, y.servers, ServerFields, {"accrued", "billed"})
      BY DEF Alike
    <3>4. SameRows(ServerRemovedServers(x, e), ServerRemovedServers(y, e), ServerFields, {"accrued", "billed"})
      BY <1>2, <1>3, <3>3 DEF ServerRemovedServers, SameRows, ServerFields, Put, Drop, ServerRemovedGuard, WithStatus
    <3> QED
      BY <3>1, <3>2, <3>4
  <2>2. t.dbs = u.dbs
    <3>1. t.dbs = ServerRemovedDbs(x, e)
      BY <1>1, ServerRemovedEffect
    <3>2. u.dbs = ServerRemovedDbs(y, e)
      BY <1>1, <1>6, ServerRemovedEffect
    <3>3. ServerRemovedDbs(x, e) = ServerRemovedDbs(y, e)
      BY <1>2, <1>3 DEF ServerRemovedDbs
    <3> QED
      BY <3>1, <3>2, <3>3
  <2>3. t.growth = u.growth
    <3>1. t.growth = ServerRemovedGrowth(x, e)
      BY <1>1, ServerRemovedEffect
    <3>2. u.growth = ServerRemovedGrowth(y, e)
      BY <1>1, <1>6, ServerRemovedEffect
    <3>3. ServerRemovedGrowth(x, e) = ServerRemovedGrowth(y, e)
      BY <1>2, <1>3 DEF ServerRemovedGrowth
    <3> QED
      BY <3>1, <3>2, <3>3
  <2>4. Kept(x, t, {"servers", "dbs", "growth"}) /\ Kept(y, u, {"servers", "dbs", "growth"})
    BY <1>1, <1>6, ServerRemovedEffect
  <2>5. \A f \in {"servers", "dbs", "growth"} \ ButBilled : t[f] = u[f]
    BY <2>1, <2>2, <2>3, <2>4 DEF ButBilled
  <2>6. "servers" \in {"servers", "dbs", "growth"} => SameRows(t.servers, u.servers, ServerFields, {"accrued", "billed"})
    BY <2>1, <2>2, <2>3, <2>4
  <2>7. "backups" \in {"servers", "dbs", "growth"} => SameRows(t.backups, u.backups, BackupFields, {"billed"})
    BY <2>1, <2>2, <2>3, <2>4
  <2> QED
    BY <2>4, <2>5, <2>6, <2>7, AlikeByRows
<1> QED
  BY <1>5, <1>6 DEF Carries

LEMMA BackendAvailabilityChangedAlike ==
    ASSUME NEW x, NEW y, Alike(x, y), NEW e, TimeFits(e, x, y), e.type = "BackendAvailabilityChanged",
           NEW t \in Handled(x, e)
    PROVE  Carries(t, Handled(y, e))
<1>1. DOMAIN x = Fields /\ DOMAIN y = Fields
  BY DEF Alike
<1>2. BackendAvailabilityChangedGuard(x, e)
  BY <1>1, BackendAvailabilityChangedEffect
<1>3. /\ x.backendDown = y.backendDown
      /\ x.site = y.site
      /\ x.dbs = y.dbs
      /\ x.firewallDown = y.firewallDown
  BY SameFields
<1>4. BackendAvailabilityChangedGuard(y, e)
  BY <1>2, <1>3, SameReadings, SameServerReadings, SameBackupReadings
     DEF BackendAvailabilityChangedGuard, TimeFits, FactTypes, PageTypes, TrafficTypes, StorageTypes, Running, Fact
<1>5. Handled(y, e) # {}
  BY <1>1, <1>4, BackendAvailabilityChangedEnabled
<1>6. ASSUME NEW u \in Handled(y, e)
      PROVE  Alike(t, u)
  <2>1. t.backendDown = u.backendDown
    <3>1. t.backendDown = ~e.up
      BY <1>1, BackendAvailabilityChangedEffect
    <3>2. u.backendDown = ~e.up
      BY <1>1, <1>6, BackendAvailabilityChangedEffect
    <3> QED
      BY <1>3, <3>1, <3>2
  <2>2. t.site = u.site
    <3>1. t.site = BackendAvailabilityChangedSite(x, e)
      BY <1>1, BackendAvailabilityChangedEffect
    <3>2. u.site = BackendAvailabilityChangedSite(y, e)
      BY <1>1, <1>6, BackendAvailabilityChangedEffect
    <3> DEFINE zx == [x EXCEPT !.backendDown = ~e.up]
               zy == [y EXCEPT !.backendDown = ~e.up]
    <3>3. AlikeSites(zx, zy)
      BY <1>1, <1>3 DEF AlikeSites, Fields
    <3> HIDE DEF zx, zy
    <3>4. AvailabilityFact(zx, e.up, e.at).site = AvailabilityFact(zy, e.up, e.at).site
      BY <3>3, AlikeOutage
    <3>5. BackendAvailabilityChangedSite(x, e) = BackendAvailabilityChangedSite(y, e)
      BY <1>3, <3>4 DEF zx, zy, BackendAvailabilityChangedSite
    <3> QED
      BY <3>1, <3>2, <3>5
  <2>3. Kept(x, t, {"backendDown", "site"}) /\ Kept(y, u, {"backendDown", "site"})
    BY <1>1, <1>6, BackendAvailabilityChangedEffect
  <2> QED
    BY <2>1, <2>2, <2>3, AlikeByKept
<1> QED
  BY <1>5, <1>6 DEF Carries

LEMMA PageRequestStartedAlike ==
    ASSUME NEW x, NEW y, Alike(x, y), NEW e, TimeFits(e, x, y), e.type = "PageRequestStarted",
           NEW t \in Handled(x, e)
    PROVE  Carries(t, Handled(y, e))
<1>1. DOMAIN x = Fields /\ DOMAIN y = Fields
  BY DEF Alike
<1>2. PageRequestStartedGuard(x, e)
  BY <1>1, PageRequestStartedEffect
<1>3. /\ x.status = y.status
  BY SameFields
<1>4. PageRequestStartedGuard(y, e)
  BY <1>2, <1>3, SameReadings, SameServerReadings, SameBackupReadings
     DEF PageRequestStartedGuard, TimeFits, FactTypes, PageTypes, TrafficTypes, StorageTypes, Running, Fact
<1>5. Handled(y, e) # {}
  BY <1>1, <1>4, PageRequestStartedEnabled
<1>6. ASSUME NEW u \in Handled(y, e)
      PROVE  Alike(t, u)
  <2>1. t.capacity = u.capacity
    <3>1. t.capacity = Prune(x, e.at).capacity
      BY <1>1, PageRequestStartedEffect
    <3>2. u.capacity = Prune(y, e.at).capacity
      BY <1>1, <1>6, PageRequestStartedEffect
    <3> QED
      BY <1>3, <3>1, <3>2, SamePrune
  <2>2. t.used = u.used
    <3>1. t.used = Prune(x, e.at).used
      BY <1>1, PageRequestStartedEffect
    <3>2. u.used = Prune(y, e.at).used
      BY <1>1, <1>6, PageRequestStartedEffect
    <3> QED
      BY <1>3, <3>1, <3>2, SamePrune
  <2>3. t.indexed = u.indexed
    <3>1. t.indexed = Prune(x, e.at).indexed
      BY <1>1, PageRequestStartedEffect
    <3>2. u.indexed = Prune(y, e.at).indexed
      BY <1>1, <1>6, PageRequestStartedEffect
    <3> QED
      BY <1>3, <3>1, <3>2, SamePrune
  <2>4. Kept(x, t, {"capacity", "used", "indexed"}) /\ Kept(y, u, {"capacity", "used", "indexed"})
    BY <1>1, <1>6, PageRequestStartedEffect
  <2> QED
    BY <2>1, <2>2, <2>3, <2>4, AlikeByKept
<1> QED
  BY <1>5, <1>6 DEF Carries

LEMMA PageRequestAcceptedAlike ==
    ASSUME NEW x, NEW y, Alike(x, y), NEW e, TimeFits(e, x, y), e.type = "PageRequestAccepted",
           NEW t \in Handled(x, e)
    PROVE  Carries(t, Handled(y, e))
<1>1. DOMAIN x = Fields /\ DOMAIN y = Fields
  BY DEF Alike
<1>2. PageRequestAcceptedGuard(x, e)
  BY <1>1, PageRequestAcceptedEffect
<1>3. /\ x.capacity = y.capacity
      /\ x.used = y.used
      /\ x.status = y.status
  BY SameFields
<1>4. PageRequestAcceptedGuard(y, e)
  BY <1>2, <1>3, SameReadings, SameServerReadings, SameBackupReadings
     DEF PageRequestAcceptedGuard, TimeFits, FactTypes, PageTypes, TrafficTypes, StorageTypes, Running, Fact
<1>5. Handled(y, e) # {}
  BY <1>1, <1>4, PageRequestAcceptedEnabled
<1>6. ASSUME NEW u \in Handled(y, e)
      PROVE  Alike(t, u)
  <2>1. t.capacity = u.capacity
    <3>1. t.capacity = PageRequestAcceptedCapacity(x, e)
      BY <1>1, PageRequestAcceptedEffect
    <3>2. u.capacity = PageRequestAcceptedCapacity(y, e)
      BY <1>1, <1>6, PageRequestAcceptedEffect
    <3>3. PageRequestAcceptedCapacity(x, e) = PageRequestAcceptedCapacity(y, e)
      BY <1>2, <1>3 DEF PageRequestAcceptedCapacity
    <3> QED
      BY <3>1, <3>2, <3>3
  <2>2. t.used = u.used
    <3>1. t.used = PageRequestAcceptedUsed(x, e)
      BY <1>1, PageRequestAcceptedEffect
    <3>2. u.used = PageRequestAcceptedUsed(y, e)
      BY <1>1, <1>6, PageRequestAcceptedEffect
    <3>3. PageRequestAcceptedUsed(x, e) = PageRequestAcceptedUsed(y, e)
      BY <1>2, <1>3 DEF PageRequestAcceptedUsed
    <3> QED
      BY <3>1, <3>2, <3>3
  <2>3. Kept(x, t, {"capacity", "used"}) /\ Kept(y, u, {"capacity", "used"})
    BY <1>1, <1>6, PageRequestAcceptedEffect
  <2> QED
    BY <2>1, <2>2, <2>3, AlikeByKept
<1> QED
  BY <1>5, <1>6 DEF Carries

LEMMA PageRequestCompletedAlike ==
    ASSUME NEW x, NEW y, Alike(x, y), NEW e, TimeFits(e, x, y), e.type = "PageRequestCompleted",
           NEW t \in Handled(x, e)
    PROVE  Carries(t, Handled(y, e))
<1>1. DOMAIN x = Fields /\ DOMAIN y = Fields
  BY DEF Alike
<1>2. PageRequestCompletedGuard(x, e)
  BY <1>1, PageRequestCompletedEffect
<1>3. /\ x.status = y.status
  BY SameFields
<1>4. PageRequestCompletedGuard(y, e)
  BY <1>2, <1>3, SameReadings, SameServerReadings, SameBackupReadings
     DEF PageRequestCompletedGuard, TimeFits, FactTypes, PageTypes, TrafficTypes, StorageTypes, Running, Fact
<1>5. Handled(y, e) # {}
  BY <1>1, <1>4, PageRequestCompletedEnabled
<1>6. ASSUME NEW u \in Handled(y, e)
      PROVE  Alike(t, u)
  <2>1. Kept(x, t, {}) /\ Kept(y, u, {})
    BY <1>1, <1>6, PageRequestCompletedEffect
  <2> QED
    BY <2>1, AlikeByKept
<1> QED
  BY <1>5, <1>6 DEF Carries

LEMMA PageRequestRejectedAlike ==
    ASSUME NEW x, NEW y, Alike(x, y), NEW e, TimeFits(e, x, y), e.type = "PageRequestRejected",
           NEW t \in Handled(x, e)
    PROVE  Carries(t, Handled(y, e))
<1>1. DOMAIN x = Fields /\ DOMAIN y = Fields
  BY DEF Alike
<1>2. PageRequestRejectedGuard(x, e)
  BY <1>1, PageRequestRejectedEffect
<1>3. /\ x.status = y.status
  BY SameFields
<1>4. PageRequestRejectedGuard(y, e)
  BY <1>2, <1>3, SameReadings, SameServerReadings, SameBackupReadings
     DEF PageRequestRejectedGuard, TimeFits, FactTypes, PageTypes, TrafficTypes, StorageTypes, Running, Fact
<1>5. Handled(y, e) # {}
  BY <1>1, <1>4, PageRequestRejectedEnabled
<1>6. ASSUME NEW u \in Handled(y, e)
      PROVE  Alike(t, u)
  <2>1. Kept(x, t, {}) /\ Kept(y, u, {})
    BY <1>1, <1>6, PageRequestRejectedEffect
  <2> QED
    BY <2>1, AlikeByKept
<1> QED
  BY <1>5, <1>6 DEF Carries

LEMMA VisitorArrivedAlike ==
    ASSUME NEW x, NEW y, Alike(x, y), NEW e, TimeFits(e, x, y), e.type = "VisitorArrived",
           NEW t \in Handled(x, e)
    PROVE  Carries(t, Handled(y, e))
<1>1. DOMAIN x = Fields /\ DOMAIN y = Fields
  BY DEF Alike
<1>2. VisitorArrivedGuard(x, e)
  BY <1>1, VisitorArrivedEffect
<1>3. /\ x.cursor = y.cursor
  BY SameFields
<1>4. VisitorArrivedGuard(y, e)
  BY <1>2, <1>3, SameReadings, SameServerReadings, SameBackupReadings
     DEF VisitorArrivedGuard, TimeFits, FactTypes, PageTypes, TrafficTypes, StorageTypes, Running, Fact
<1>5. Handled(y, e) # {}
  BY <1>1, <1>4, VisitorArrivedEnabled
<1>6. ASSUME NEW u \in Handled(y, e)
      PROVE  Alike(t, u)
  <2>1. t.capacity = u.capacity
    <3>1. t.capacity = Prune(x, e.at).capacity
      BY <1>1, VisitorArrivedEffect
    <3>2. u.capacity = Prune(y, e.at).capacity
      BY <1>1, <1>6, VisitorArrivedEffect
    <3> QED
      BY <1>3, <3>1, <3>2, SamePrune
  <2>2. t.used = u.used
    <3>1. t.used = Prune(x, e.at).used
      BY <1>1, VisitorArrivedEffect
    <3>2. u.used = Prune(y, e.at).used
      BY <1>1, <1>6, VisitorArrivedEffect
    <3> QED
      BY <1>3, <3>1, <3>2, SamePrune
  <2>3. t.indexed = u.indexed
    <3>1. t.indexed = Prune(x, e.at).indexed
      BY <1>1, VisitorArrivedEffect
    <3>2. u.indexed = Prune(y, e.at).indexed
      BY <1>1, <1>6, VisitorArrivedEffect
    <3> QED
      BY <1>3, <3>1, <3>2, SamePrune
  <2>4. t.cursor = u.cursor
    <3>1. t.cursor = NextCursor(x, e)
      BY <1>1, VisitorArrivedEffect
    <3>2. u.cursor = NextCursor(y, e)
      BY <1>1, <1>6, VisitorArrivedEffect
    <3> QED
      BY <1>3, <3>1, <3>2 DEF NextCursor
  <2>5. Kept(x, t, {"capacity", "used", "indexed", "cursor"}) /\ Kept(y, u, {"capacity", "used", "indexed", "cursor"})
    BY <1>1, <1>6, VisitorArrivedEffect
  <2> QED
    BY <2>1, <2>2, <2>3, <2>4, <2>5, AlikeByKept
<1> QED
  BY <1>5, <1>6 DEF Carries

LEMMA TrafficAttackStartedAlike ==
    ASSUME NEW x, NEW y, Alike(x, y), NEW e, TimeFits(e, x, y), e.type = "TrafficAttackStarted",
           NEW t \in Handled(x, e)
    PROVE  Carries(t, Handled(y, e))
<1>1. DOMAIN x = Fields /\ DOMAIN y = Fields
  BY DEF Alike
<1>2. TrafficAttackStartedGuard(x, e)
  BY <1>1, TrafficAttackStartedEffect
<1>3. /\ x.attacks = y.attacks
      /\ x.cursor = y.cursor
  BY SameFields
<1>4. TrafficAttackStartedGuard(y, e)
  BY <1>2, <1>3, SameReadings, SameServerReadings, SameBackupReadings
     DEF TrafficAttackStartedGuard, TimeFits, FactTypes, PageTypes, TrafficTypes, StorageTypes, Running, Fact
<1>5. Handled(y, e) # {}
  BY <1>1, <1>4, TrafficAttackStartedEnabled
<1>6. ASSUME NEW u \in Handled(y, e)
      PROVE  Alike(t, u)
  <2>1. t.attacks = u.attacks
    <3>1. t.attacks = TrafficAttackStartedAttacks(x, e)
      BY <1>1, TrafficAttackStartedEffect
    <3>2. u.attacks = TrafficAttackStartedAttacks(y, e)
      BY <1>1, <1>6, TrafficAttackStartedEffect
    <3>3. TrafficAttackStartedAttacks(x, e) = TrafficAttackStartedAttacks(y, e)
      BY <1>2, <1>3 DEF TrafficAttackStartedAttacks
    <3> QED
      BY <3>1, <3>2, <3>3
  <2>2. t.cursor = u.cursor
    <3>1. t.cursor = NextCursor(x, e)
      BY <1>1, TrafficAttackStartedEffect
    <3>2. u.cursor = NextCursor(y, e)
      BY <1>1, <1>6, TrafficAttackStartedEffect
    <3> QED
      BY <1>3, <3>1, <3>2 DEF NextCursor
  <2>3. Kept(x, t, {"attacks", "cursor"}) /\ Kept(y, u, {"attacks", "cursor"})
    BY <1>1, <1>6, TrafficAttackStartedEffect
  <2> QED
    BY <2>1, <2>2, <2>3, AlikeByKept
<1> QED
  BY <1>5, <1>6 DEF Carries

LEMMA TrafficAttackEndedAlike ==
    ASSUME NEW x, NEW y, Alike(x, y), NEW e, TimeFits(e, x, y), e.type = "TrafficAttackEnded",
           NEW t \in Handled(x, e)
    PROVE  Carries(t, Handled(y, e))
<1>1. DOMAIN x = Fields /\ DOMAIN y = Fields
  BY DEF Alike
<1>2. TrafficAttackEndedGuard(x, e)
  BY <1>1, TrafficAttackEndedEffect
<1>3. /\ x.attacks = y.attacks
      /\ x.cursor = y.cursor
  BY SameFields
<1>4. TrafficAttackEndedGuard(y, e)
  BY <1>2, <1>3, SameReadings, SameServerReadings, SameBackupReadings
     DEF TrafficAttackEndedGuard, TimeFits, FactTypes, PageTypes, TrafficTypes, StorageTypes, Running, Fact
<1>5. Handled(y, e) # {}
  BY <1>1, <1>4, TrafficAttackEndedEnabled
<1>6. ASSUME NEW u \in Handled(y, e)
      PROVE  Alike(t, u)
  <2>1. t.attacks = u.attacks
    <3>1. t.attacks = TrafficAttackEndedAttacks(x, e)
      BY <1>1, TrafficAttackEndedEffect
    <3>2. u.attacks = TrafficAttackEndedAttacks(y, e)
      BY <1>1, <1>6, TrafficAttackEndedEffect
    <3>3. TrafficAttackEndedAttacks(x, e) = TrafficAttackEndedAttacks(y, e)
      BY <1>2, <1>3 DEF TrafficAttackEndedAttacks
    <3> QED
      BY <3>1, <3>2, <3>3
  <2>2. t.cursor = u.cursor
    <3>1. t.cursor = NextCursor(x, e)
      BY <1>1, TrafficAttackEndedEffect
    <3>2. u.cursor = NextCursor(y, e)
      BY <1>1, <1>6, TrafficAttackEndedEffect
    <3> QED
      BY <1>3, <3>1, <3>2 DEF NextCursor
  <2>3. Kept(x, t, {"attacks", "cursor"}) /\ Kept(y, u, {"attacks", "cursor"})
    BY <1>1, <1>6, TrafficAttackEndedEffect
  <2> QED
    BY <2>1, <2>2, <2>3, AlikeByKept
<1> QED
  BY <1>5, <1>6 DEF Carries

LEMMA FirewallRuleUpsertedAlike ==
    ASSUME NEW x, NEW y, Alike(x, y), NEW e, TimeFits(e, x, y), e.type = "FirewallRuleUpserted",
           NEW t \in Handled(x, e)
    PROVE  Carries(t, Handled(y, e))
<1>1. DOMAIN x = Fields /\ DOMAIN y = Fields
  BY DEF Alike
<1>2. FirewallRuleUpsertedGuard(x, e)
  BY <1>1, FirewallRuleUpsertedEffect
<1>3. /\ x.rules = y.rules
      /\ x.status = y.status
  BY SameFields
<1>4. FirewallRuleUpsertedGuard(y, e)
  BY <1>2, <1>3, SameReadings, SameServerReadings, SameBackupReadings
     DEF FirewallRuleUpsertedGuard, TimeFits, FactTypes, PageTypes, TrafficTypes, StorageTypes, Running, Fact
<1>5. Handled(y, e) # {}
  BY <1>1, <1>4, FirewallRuleUpsertedEnabled
<1>6. ASSUME NEW u \in Handled(y, e)
      PROVE  Alike(t, u)
  <2>1. t.rules = u.rules
    <3>1. t.rules = FirewallRuleUpsertedRules(x, e)
      BY <1>1, FirewallRuleUpsertedEffect
    <3>2. u.rules = FirewallRuleUpsertedRules(y, e)
      BY <1>1, <1>6, FirewallRuleUpsertedEffect
    <3>3. FirewallRuleUpsertedRules(x, e) = FirewallRuleUpsertedRules(y, e)
      BY <1>2, <1>3 DEF FirewallRuleUpsertedRules
    <3> QED
      BY <3>1, <3>2, <3>3
  <2>2. Kept(x, t, {"rules"}) /\ Kept(y, u, {"rules"})
    BY <1>1, <1>6, FirewallRuleUpsertedEffect
  <2> QED
    BY <2>1, <2>2, AlikeByKept
<1> QED
  BY <1>5, <1>6 DEF Carries

LEMMA FirewallRuleDeletedAlike ==
    ASSUME NEW x, NEW y, Alike(x, y), NEW e, TimeFits(e, x, y), e.type = "FirewallRuleDeleted",
           NEW t \in Handled(x, e)
    PROVE  Carries(t, Handled(y, e))
<1>1. DOMAIN x = Fields /\ DOMAIN y = Fields
  BY DEF Alike
<1>2. FirewallRuleDeletedGuard(x, e)
  BY <1>1, FirewallRuleDeletedEffect
<1>3. /\ x.rules = y.rules
      /\ x.status = y.status
  BY SameFields
<1>4. FirewallRuleDeletedGuard(y, e)
  BY <1>2, <1>3, SameReadings, SameServerReadings, SameBackupReadings
     DEF FirewallRuleDeletedGuard, TimeFits, FactTypes, PageTypes, TrafficTypes, StorageTypes, Running, Fact
<1>5. Handled(y, e) # {}
  BY <1>1, <1>4, FirewallRuleDeletedEnabled
<1>6. ASSUME NEW u \in Handled(y, e)
      PROVE  Alike(t, u)
  <2>1. t.rules = u.rules
    <3>1. t.rules = FirewallRuleDeletedRules(x, e)
      BY <1>1, FirewallRuleDeletedEffect
    <3>2. u.rules = FirewallRuleDeletedRules(y, e)
      BY <1>1, <1>6, FirewallRuleDeletedEffect
    <3>3. FirewallRuleDeletedRules(x, e) = FirewallRuleDeletedRules(y, e)
      BY <1>2, <1>3 DEF FirewallRuleDeletedRules
    <3> QED
      BY <3>1, <3>2, <3>3
  <2>2. Kept(x, t, {"rules"}) /\ Kept(y, u, {"rules"})
    BY <1>1, <1>6, FirewallRuleDeletedEffect
  <2> QED
    BY <2>1, <2>2, AlikeByKept
<1> QED
  BY <1>5, <1>6 DEF Carries

LEMMA FirewallAvailabilityChangedAlike ==
    ASSUME NEW x, NEW y, Alike(x, y), NEW e, TimeFits(e, x, y), e.type = "FirewallAvailabilityChanged",
           NEW t \in Handled(x, e)
    PROVE  Carries(t, Handled(y, e))
<1>1. DOMAIN x = Fields /\ DOMAIN y = Fields
  BY DEF Alike
<1>2. FirewallAvailabilityChangedGuard(x, e)
  BY <1>1, FirewallAvailabilityChangedEffect
<1>3. /\ x.firewallDown = y.firewallDown
      /\ x.site = y.site
      /\ x.dbs = y.dbs
      /\ x.backendDown = y.backendDown
  BY SameFields
<1>4. FirewallAvailabilityChangedGuard(y, e)
  BY <1>2, <1>3, SameReadings, SameServerReadings, SameBackupReadings
     DEF FirewallAvailabilityChangedGuard, TimeFits, FactTypes, PageTypes, TrafficTypes, StorageTypes, Running, Fact
<1>5. Handled(y, e) # {}
  BY <1>1, <1>4, FirewallAvailabilityChangedEnabled
<1>6. ASSUME NEW u \in Handled(y, e)
      PROVE  Alike(t, u)
  <2>1. t.firewallDown = u.firewallDown
    <3>1. t.firewallDown = ~e.up
      BY <1>1, FirewallAvailabilityChangedEffect
    <3>2. u.firewallDown = ~e.up
      BY <1>1, <1>6, FirewallAvailabilityChangedEffect
    <3> QED
      BY <1>3, <3>1, <3>2
  <2>2. t.site = u.site
    <3>1. t.site = FirewallAvailabilityChangedSite(x, e)
      BY <1>1, FirewallAvailabilityChangedEffect
    <3>2. u.site = FirewallAvailabilityChangedSite(y, e)
      BY <1>1, <1>6, FirewallAvailabilityChangedEffect
    <3> DEFINE zx == [x EXCEPT !.firewallDown = ~e.up]
               zy == [y EXCEPT !.firewallDown = ~e.up]
    <3>3. AlikeSites(zx, zy)
      BY <1>1, <1>3 DEF AlikeSites, Fields
    <3> HIDE DEF zx, zy
    <3>4. AvailabilityFact(zx, e.up, e.at).site = AvailabilityFact(zy, e.up, e.at).site
      BY <3>3, AlikeOutage
    <3>5. FirewallAvailabilityChangedSite(x, e) = FirewallAvailabilityChangedSite(y, e)
      BY <1>3, <3>4 DEF zx, zy, FirewallAvailabilityChangedSite
    <3> QED
      BY <3>1, <3>2, <3>5
  <2>3. Kept(x, t, {"firewallDown", "site"}) /\ Kept(y, u, {"firewallDown", "site"})
    BY <1>1, <1>6, FirewallAvailabilityChangedEffect
  <2> QED
    BY <2>1, <2>2, <2>3, AlikeByKept
<1> QED
  BY <1>5, <1>6 DEF Carries

LEMMA DatabaseCreatedAlike ==
    ASSUME NEW x, NEW y, Alike(x, y), NEW e, TimeFits(e, x, y), e.type = "DatabaseCreated",
           NEW t \in Handled(x, e)
    PROVE  Carries(t, Handled(y, e))
<1>1. DOMAIN x = Fields /\ DOMAIN y = Fields
  BY DEF Alike
<1>2. DatabaseCreatedGuard(x, e)
  BY <1>1, DatabaseCreatedEffect
<1>3. /\ x.dbs = y.dbs
      /\ x.status = y.status
  BY SameFields
<1>4. DatabaseCreatedGuard(y, e)
  BY <1>2, <1>3, SameReadings, SameServerReadings, SameBackupReadings
     DEF DatabaseCreatedGuard, TimeFits, FactTypes, PageTypes, TrafficTypes, StorageTypes, Running, Fact
<1>5. Handled(y, e) # {}
  BY <1>1, <1>4, DatabaseCreatedEnabled
<1>6. ASSUME NEW u \in Handled(y, e)
      PROVE  Alike(t, u)
  <2>1. t.dbs = u.dbs
    <3>1. t.dbs = DatabaseCreatedDbs(x, e)
      BY <1>1, DatabaseCreatedEffect
    <3>2. u.dbs = DatabaseCreatedDbs(y, e)
      BY <1>1, <1>6, DatabaseCreatedEffect
    <3>3. DatabaseCreatedDbs(x, e) = DatabaseCreatedDbs(y, e)
      BY <1>2, <1>3 DEF DatabaseCreatedDbs
    <3> QED
      BY <3>1, <3>2, <3>3
  <2>2. Kept(x, t, {"dbs"}) /\ Kept(y, u, {"dbs"})
    BY <1>1, <1>6, DatabaseCreatedEffect
  <2> QED
    BY <2>1, <2>2, AlikeByKept
<1> QED
  BY <1>5, <1>6 DEF Carries

LEMMA DatabaseDeletedAlike ==
    ASSUME NEW x, NEW y, Alike(x, y), NEW e, TimeFits(e, x, y), e.type = "DatabaseDeleted",
           NEW t \in Handled(x, e)
    PROVE  Carries(t, Handled(y, e))
<1>1. DOMAIN x = Fields /\ DOMAIN y = Fields
  BY DEF Alike
<1>2. DatabaseDeletedGuard(x, e)
  BY <1>1, DatabaseDeletedEffect
<1>3. /\ x.dbs = y.dbs
      /\ x.site = y.site
      /\ x.growth = y.growth
  BY SameFields
<1>4. DatabaseDeletedGuard(y, e)
  BY <1>2, <1>3, SameReadings, SameServerReadings, SameBackupReadings
     DEF DatabaseDeletedGuard, TimeFits, FactTypes, PageTypes, TrafficTypes, StorageTypes, Running, Fact
<1>5. Handled(y, e) # {}
  BY <1>1, <1>4, DatabaseDeletedEnabled
<1>6. ASSUME NEW u \in Handled(y, e)
      PROVE  Alike(t, u)
  <2>1. t.dbs = u.dbs
    <3>1. t.dbs = DatabaseDeletedDbs(x, e)
      BY <1>1, DatabaseDeletedEffect
    <3>2. u.dbs = DatabaseDeletedDbs(y, e)
      BY <1>1, <1>6, DatabaseDeletedEffect
    <3>3. DatabaseDeletedDbs(x, e) = DatabaseDeletedDbs(y, e)
      BY <1>2, <1>3 DEF DatabaseDeletedDbs
    <3> QED
      BY <3>1, <3>2, <3>3
  <2>2. t.growth = u.growth
    <3>1. t.growth = DatabaseDeletedGrowth(x, e)
      BY <1>1, DatabaseDeletedEffect
    <3>2. u.growth = DatabaseDeletedGrowth(y, e)
      BY <1>1, <1>6, DatabaseDeletedEffect
    <3>3. DatabaseDeletedGrowth(x, e) = DatabaseDeletedGrowth(y, e)
      BY <1>2, <1>3 DEF DatabaseDeletedGrowth
    <3> QED
      BY <3>1, <3>2, <3>3
  <2>3. Kept(x, t, {"dbs", "growth"}) /\ Kept(y, u, {"dbs", "growth"})
    BY <1>1, <1>6, DatabaseDeletedEffect
  <2> QED
    BY <2>1, <2>2, <2>3, AlikeByKept
<1> QED
  BY <1>5, <1>6 DEF Carries

LEMMA DatabaseConnectionOpenedAlike ==
    ASSUME NEW x, NEW y, Alike(x, y), NEW e, TimeFits(e, x, y), e.type = "DatabaseConnectionOpened",
           NEW t \in Handled(x, e)
    PROVE  Carries(t, Handled(y, e))
<1>1. DOMAIN x = Fields /\ DOMAIN y = Fields
  BY DEF Alike
<1>2. DatabaseConnectionOpenedGuard(x, e)
  BY <1>1, DatabaseConnectionOpenedEffect
<1>3. /\ x.dbs = y.dbs
      /\ x.counts = y.counts
      /\ x.conns = y.conns
  BY SameFields
<1>4. DatabaseConnectionOpenedGuard(y, e)
  BY <1>2, <1>3, SameReadings, SameServerReadings, SameBackupReadings
     DEF DatabaseConnectionOpenedGuard, TimeFits, FactTypes, PageTypes, TrafficTypes, StorageTypes, Running, Fact
<1>5. Handled(y, e) # {}
  BY <1>1, <1>4, DatabaseConnectionOpenedEnabled
<1>6. ASSUME NEW u \in Handled(y, e)
      PROVE  Alike(t, u)
  <2>1. t.conns = u.conns
    <3>1. t.conns = DatabaseConnectionOpenedConns(x, e)
      BY <1>1, DatabaseConnectionOpenedEffect
    <3>2. u.conns = DatabaseConnectionOpenedConns(y, e)
      BY <1>1, <1>6, DatabaseConnectionOpenedEffect
    <3>3. DatabaseConnectionOpenedConns(x, e) = DatabaseConnectionOpenedConns(y, e)
      BY <1>2, <1>3 DEF DatabaseConnectionOpenedConns
    <3> QED
      BY <3>1, <3>2, <3>3
  <2>2. t.counts = u.counts
    <3>1. t.counts = DatabaseConnectionOpenedCounts(x, e)
      BY <1>1, DatabaseConnectionOpenedEffect
    <3>2. u.counts = DatabaseConnectionOpenedCounts(y, e)
      BY <1>1, <1>6, DatabaseConnectionOpenedEffect
    <3>3. DatabaseConnectionOpenedCounts(x, e) = DatabaseConnectionOpenedCounts(y, e)
      BY <1>2, <1>3 DEF DatabaseConnectionOpenedCounts
    <3> QED
      BY <3>1, <3>2, <3>3
  <2>3. Kept(x, t, {"conns", "counts"}) /\ Kept(y, u, {"conns", "counts"})
    BY <1>1, <1>6, DatabaseConnectionOpenedEffect
  <2> QED
    BY <2>1, <2>2, <2>3, AlikeByKept
<1> QED
  BY <1>5, <1>6 DEF Carries

LEMMA DatabaseConnectionReleasedAlike ==
    ASSUME NEW x, NEW y, Alike(x, y), NEW e, TimeFits(e, x, y), e.type = "DatabaseConnectionReleased",
           NEW t \in Handled(x, e)
    PROVE  Carries(t, Handled(y, e))
<1>1. DOMAIN x = Fields /\ DOMAIN y = Fields
  BY DEF Alike
<1>2. DatabaseConnectionReleasedGuard(x, e)
  BY <1>1, DatabaseConnectionReleasedEffect
<1>3. /\ x.conns = y.conns
      /\ x.counts = y.counts
  BY SameFields
<1>4. DatabaseConnectionReleasedGuard(y, e)
  BY <1>2, <1>3, SameReadings, SameServerReadings, SameBackupReadings
     DEF DatabaseConnectionReleasedGuard, TimeFits, FactTypes, PageTypes, TrafficTypes, StorageTypes, Running, Fact
<1>5. Handled(y, e) # {}
  BY <1>1, <1>4, DatabaseConnectionReleasedEnabled
<1>6. ASSUME NEW u \in Handled(y, e)
      PROVE  Alike(t, u)
  <2>1. t.conns = u.conns
    <3>1. t.conns = DatabaseConnectionReleasedConns(x, e)
      BY <1>1, DatabaseConnectionReleasedEffect
    <3>2. u.conns = DatabaseConnectionReleasedConns(y, e)
      BY <1>1, <1>6, DatabaseConnectionReleasedEffect
    <3>3. DatabaseConnectionReleasedConns(x, e) = DatabaseConnectionReleasedConns(y, e)
      BY <1>2, <1>3 DEF DatabaseConnectionReleasedConns
    <3> QED
      BY <3>1, <3>2, <3>3
  <2>2. t.counts = u.counts
    <3>1. t.counts = DatabaseConnectionReleasedCounts(x, e)
      BY <1>1, DatabaseConnectionReleasedEffect
    <3>2. u.counts = DatabaseConnectionReleasedCounts(y, e)
      BY <1>1, <1>6, DatabaseConnectionReleasedEffect
    <3>3. DatabaseConnectionReleasedCounts(x, e) = DatabaseConnectionReleasedCounts(y, e)
      BY <1>2, <1>3 DEF DatabaseConnectionReleasedCounts
    <3> QED
      BY <3>1, <3>2, <3>3
  <2>3. Kept(x, t, {"conns", "counts"}) /\ Kept(y, u, {"conns", "counts"})
    BY <1>1, <1>6, DatabaseConnectionReleasedEffect
  <2> QED
    BY <2>1, <2>2, <2>3, AlikeByKept
<1> QED
  BY <1>5, <1>6 DEF Carries

LEMMA DatabaseConnectionRejectedAlike ==
    ASSUME NEW x, NEW y, Alike(x, y), NEW e, TimeFits(e, x, y), e.type = "DatabaseConnectionRejected",
           NEW t \in Handled(x, e)
    PROVE  Carries(t, Handled(y, e))
<1>1. DOMAIN x = Fields /\ DOMAIN y = Fields
  BY DEF Alike
<1>2. DatabaseConnectionRejectedGuard(x, e)
  BY <1>1, DatabaseConnectionRejectedEffect
<1>3. /\ x.dbs = y.dbs
      /\ x.counts = y.counts
  BY SameFields
<1>4. DatabaseConnectionRejectedGuard(y, e)
  BY <1>2, <1>3, SameReadings, SameServerReadings, SameBackupReadings
     DEF DatabaseConnectionRejectedGuard, TimeFits, FactTypes, PageTypes, TrafficTypes, StorageTypes, Running, Fact
<1>5. Handled(y, e) # {}
  BY <1>1, <1>4, DatabaseConnectionRejectedEnabled
<1>6. ASSUME NEW u \in Handled(y, e)
      PROVE  Alike(t, u)
  <2>1. Kept(x, t, {}) /\ Kept(y, u, {})
    BY <1>1, <1>6, DatabaseConnectionRejectedEffect
  <2> QED
    BY <2>1, AlikeByKept
<1> QED
  BY <1>5, <1>6 DEF Carries

LEMMA DatabaseAvailabilityChangedAlike ==
    ASSUME NEW x, NEW y, Alike(x, y), NEW e, TimeFits(e, x, y), e.type = "DatabaseAvailabilityChanged",
           NEW t \in Handled(x, e)
    PROVE  Carries(t, Handled(y, e))
<1>1. DOMAIN x = Fields /\ DOMAIN y = Fields
  BY DEF Alike
<1>2. DatabaseAvailabilityChangedGuard(x, e)
  BY <1>1, DatabaseAvailabilityChangedEffect
<1>3. /\ x.dbs = y.dbs
      /\ x.site = y.site
      /\ x.firewallDown = y.firewallDown
      /\ x.backendDown = y.backendDown
  BY SameFields
<1>4. DatabaseAvailabilityChangedGuard(y, e)
  BY <1>2, <1>3, SameReadings, SameServerReadings, SameBackupReadings
     DEF DatabaseAvailabilityChangedGuard, TimeFits, FactTypes, PageTypes, TrafficTypes, StorageTypes, Running, Fact
<1>5. Handled(y, e) # {}
  BY <1>1, <1>4, DatabaseAvailabilityChangedEnabled
<1>6. ASSUME NEW u \in Handled(y, e)
      PROVE  Alike(t, u)
  <2>1. t.dbs = u.dbs
    <3>1. t.dbs = DatabaseAvailabilityChangedDbs(x, e)
      BY <1>1, DatabaseAvailabilityChangedEffect
    <3>2. u.dbs = DatabaseAvailabilityChangedDbs(y, e)
      BY <1>1, <1>6, DatabaseAvailabilityChangedEffect
    <3>3. DatabaseAvailabilityChangedDbs(x, e) = DatabaseAvailabilityChangedDbs(y, e)
      BY <1>2, <1>3 DEF DatabaseAvailabilityChangedDbs
    <3> QED
      BY <3>1, <3>2, <3>3
  <2>2. t.site = u.site
    <3>1. t.site = DatabaseAvailabilityChangedSite(x, e)
      BY <1>1, DatabaseAvailabilityChangedEffect
    <3>2. u.site = DatabaseAvailabilityChangedSite(y, e)
      BY <1>1, <1>6, DatabaseAvailabilityChangedEffect
    <3> DEFINE zx == [x EXCEPT !.dbs[e.db].reasons = e.reasons]
               zy == [y EXCEPT !.dbs[e.db].reasons = e.reasons]
    <3>3. AlikeSites(zx, zy)
      BY <1>1, <1>3 DEF AlikeSites, Fields
    <3> HIDE DEF zx, zy
    <3>4. AvailabilityFact(zx, e.up, e.at).site = AvailabilityFact(zy, e.up, e.at).site
      BY <3>3, AlikeOutage
    <3>5. DatabaseAvailabilityChangedSite(x, e) = DatabaseAvailabilityChangedSite(y, e)
      BY <1>3, <3>4 DEF zx, zy, DatabaseAvailabilityChangedSite
    <3> QED
      BY <3>1, <3>2, <3>5
  <2>3. Kept(x, t, {"dbs", "site"}) /\ Kept(y, u, {"dbs", "site"})
    BY <1>1, <1>6, DatabaseAvailabilityChangedEffect
  <2> QED
    BY <2>1, <2>2, <2>3, AlikeByKept
<1> QED
  BY <1>5, <1>6 DEF Carries

LEMMA DatabaseGrowthRequestedAlike ==
    ASSUME NEW x, NEW y, Alike(x, y), NEW e, TimeFits(e, x, y), e.type = "DatabaseGrowthRequested",
           NEW t \in Handled(x, e)
    PROVE  Carries(t, Handled(y, e))
<1>1. DOMAIN x = Fields /\ DOMAIN y = Fields
  BY DEF Alike
<1>2. DatabaseGrowthRequestedGuard(x, e)
  BY <1>1, DatabaseGrowthRequestedEffect
<1>3. /\ x.growth = y.growth
      /\ x.cursor = y.cursor
  BY SameFields
<1>4. DatabaseGrowthRequestedGuard(y, e)
  BY <1>2, <1>3, SameReadings, SameServerReadings, SameBackupReadings
     DEF DatabaseGrowthRequestedGuard, TimeFits, FactTypes, PageTypes, TrafficTypes, StorageTypes, Running, Fact
<1>5. Handled(y, e) # {}
  BY <1>1, <1>4, DatabaseGrowthRequestedEnabled
<1>6. ASSUME NEW u \in Handled(y, e)
      PROVE  Alike(t, u)
  <2>1. t.growth = u.growth
    <3>1. t.growth = DatabaseGrowthRequestedGrowth(x, e)
      BY <1>1, DatabaseGrowthRequestedEffect
    <3>2. u.growth = DatabaseGrowthRequestedGrowth(y, e)
      BY <1>1, <1>6, DatabaseGrowthRequestedEffect
    <3>3. DatabaseGrowthRequestedGrowth(x, e) = DatabaseGrowthRequestedGrowth(y, e)
      BY <1>2, <1>3 DEF DatabaseGrowthRequestedGrowth
    <3> QED
      BY <3>1, <3>2, <3>3
  <2>2. t.cursor = u.cursor
    <3>1. t.cursor = NextCursor(x, e)
      BY <1>1, DatabaseGrowthRequestedEffect
    <3>2. u.cursor = NextCursor(y, e)
      BY <1>1, <1>6, DatabaseGrowthRequestedEffect
    <3> QED
      BY <1>3, <3>1, <3>2 DEF NextCursor
  <2>3. Kept(x, t, {"growth", "cursor"}) /\ Kept(y, u, {"growth", "cursor"})
    BY <1>1, <1>6, DatabaseGrowthRequestedEffect
  <2> QED
    BY <2>1, <2>2, <2>3, AlikeByKept
<1> QED
  BY <1>5, <1>6 DEF Carries

LEMMA DatabaseStorageIncreasedAlike ==
    ASSUME NEW x, NEW y, Alike(x, y), NEW e, TimeFits(e, x, y), e.type = "DatabaseStorageIncreased",
           NEW t \in Handled(x, e)
    PROVE  Carries(t, Handled(y, e))
<1>1. DOMAIN x = Fields /\ DOMAIN y = Fields
  BY DEF Alike
<1>2. DatabaseStorageIncreasedGuard(x, e)
  BY <1>1, DatabaseStorageIncreasedEffect
<1>3. /\ x.growth = y.growth
      /\ x.dbs = y.dbs
  BY SameFields
<1>4. DatabaseStorageIncreasedGuard(y, e)
  BY <1>2, <1>3, SameReadings, SameServerReadings, SameBackupReadings
     DEF DatabaseStorageIncreasedGuard, TimeFits, FactTypes, PageTypes, TrafficTypes, StorageTypes, Running, Fact
<1>5. Handled(y, e) # {}
  BY <1>1, <1>4, DatabaseStorageIncreasedEnabled
<1>6. ASSUME NEW u \in Handled(y, e)
      PROVE  Alike(t, u)
  <2>1. t.dbs = u.dbs
    <3>1. t.dbs = DatabaseStorageIncreasedDbs(x, e)
      BY <1>1, DatabaseStorageIncreasedEffect
    <3>2. u.dbs = DatabaseStorageIncreasedDbs(y, e)
      BY <1>1, <1>6, DatabaseStorageIncreasedEffect
    <3>3. DatabaseStorageIncreasedDbs(x, e) = DatabaseStorageIncreasedDbs(y, e)
      BY <1>2, <1>3 DEF DatabaseStorageIncreasedDbs
    <3> QED
      BY <3>1, <3>2, <3>3
  <2>2. t.growth = u.growth
    <3>1. t.growth = DatabaseStorageIncreasedGrowth(x, e)
      BY <1>1, DatabaseStorageIncreasedEffect
    <3>2. u.growth = DatabaseStorageIncreasedGrowth(y, e)
      BY <1>1, <1>6, DatabaseStorageIncreasedEffect
    <3>3. DatabaseStorageIncreasedGrowth(x, e) = DatabaseStorageIncreasedGrowth(y, e)
      BY <1>2, <1>3 DEF DatabaseStorageIncreasedGrowth
    <3> QED
      BY <3>1, <3>2, <3>3
  <2>3. Kept(x, t, {"dbs", "growth"}) /\ Kept(y, u, {"dbs", "growth"})
    BY <1>1, <1>6, DatabaseStorageIncreasedEffect
  <2> QED
    BY <2>1, <2>2, <2>3, AlikeByKept
<1> QED
  BY <1>5, <1>6 DEF Carries

LEMMA DatabaseGrowthBlockedAlike ==
    ASSUME NEW x, NEW y, Alike(x, y), NEW e, TimeFits(e, x, y), e.type = "DatabaseGrowthBlocked",
           NEW t \in Handled(x, e)
    PROVE  Carries(t, Handled(y, e))
<1>1. DOMAIN x = Fields /\ DOMAIN y = Fields
  BY DEF Alike
<1>2. DatabaseGrowthBlockedGuard(x, e)
  BY <1>1, DatabaseGrowthBlockedEffect
<1>3. /\ x.growth = y.growth
      /\ x.dbs = y.dbs
  BY SameFields
<1>4. DatabaseGrowthBlockedGuard(y, e)
  BY <1>2, <1>3, SameReadings, SameServerReadings, SameBackupReadings
     DEF DatabaseGrowthBlockedGuard, TimeFits, FactTypes, PageTypes, TrafficTypes, StorageTypes, Running, Fact
<1>5. Handled(y, e) # {}
  BY <1>1, <1>4, DatabaseGrowthBlockedEnabled
<1>6. ASSUME NEW u \in Handled(y, e)
      PROVE  Alike(t, u)
  <2>1. t.growth = u.growth
    <3>1. t.growth = DatabaseGrowthBlockedGrowth(x, e)
      BY <1>1, DatabaseGrowthBlockedEffect
    <3>2. u.growth = DatabaseGrowthBlockedGrowth(y, e)
      BY <1>1, <1>6, DatabaseGrowthBlockedEffect
    <3>3. DatabaseGrowthBlockedGrowth(x, e) = DatabaseGrowthBlockedGrowth(y, e)
      BY <1>2, <1>3 DEF DatabaseGrowthBlockedGrowth
    <3> QED
      BY <3>1, <3>2, <3>3
  <2>2. Kept(x, t, {"growth"}) /\ Kept(y, u, {"growth"})
    BY <1>1, <1>6, DatabaseGrowthBlockedEffect
  <2> QED
    BY <2>1, <2>2, AlikeByKept
<1> QED
  BY <1>5, <1>6 DEF Carries

LEMMA DiskLogsCleanedAlike ==
    ASSUME NEW x, NEW y, Alike(x, y), NEW e, TimeFits(e, x, y), e.type = "DiskLogsCleaned",
           NEW t \in Handled(x, e)
    PROVE  Carries(t, Handled(y, e))
<1>1. DOMAIN x = Fields /\ DOMAIN y = Fields
  BY DEF Alike
<1>2. DiskLogsCleanedGuard(x, e)
  BY <1>1, DiskLogsCleanedEffect
<1>3. /\ x.dbs = y.dbs
  BY SameFields
<1>4. DiskLogsCleanedGuard(y, e)
  BY <1>2, <1>3, SameReadings, SameServerReadings, SameBackupReadings
     DEF DiskLogsCleanedGuard, TimeFits, FactTypes, PageTypes, TrafficTypes, StorageTypes, Running, Fact, WithStatus
<1>5. Handled(y, e) # {}
  BY <1>1, <1>4, DiskLogsCleanedEnabled
<1>6. ASSUME NEW u \in Handled(y, e)
      PROVE  Alike(t, u)
  <2>1. SameRows(t.servers, u.servers, ServerFields, {"accrued", "billed"})
    <3>1. t.servers = DiskLogsCleanedServers(x, e)
      BY <1>1, DiskLogsCleanedEffect
    <3>2. u.servers = DiskLogsCleanedServers(y, e)
      BY <1>1, <1>6, DiskLogsCleanedEffect
    <3>3. SameRows(x.servers, y.servers, ServerFields, {"accrued", "billed"})
      BY DEF Alike
    <3>4. SameRows(DiskLogsCleanedServers(x, e), DiskLogsCleanedServers(y, e), ServerFields, {"accrued", "billed"})
      BY <1>2, <1>3, <3>3 DEF DiskLogsCleanedServers, SameRows, ServerFields, Put, Drop, DiskLogsCleanedGuard, WithStatus
    <3> QED
      BY <3>1, <3>2, <3>4
  <2>2. t.dbs = u.dbs
    <3>1. t.dbs = DiskLogsCleanedDbs(x, e)
      BY <1>1, DiskLogsCleanedEffect
    <3>2. u.dbs = DiskLogsCleanedDbs(y, e)
      BY <1>1, <1>6, DiskLogsCleanedEffect
    <3>3. DiskLogsCleanedDbs(x, e) = DiskLogsCleanedDbs(y, e)
      BY <1>2, <1>3, SameServerReadings DEF DiskLogsCleanedDbs, DiskLogsCleanedGuard
    <3> QED
      BY <3>1, <3>2, <3>3
  <2>3. Kept(x, t, {"servers", "dbs"}) /\ Kept(y, u, {"servers", "dbs"})
    BY <1>1, <1>6, DiskLogsCleanedEffect
  <2>4. \A f \in {"servers", "dbs"} \ ButBilled : t[f] = u[f]
    BY <2>1, <2>2, <2>3 DEF ButBilled
  <2>5. "servers" \in {"servers", "dbs"} => SameRows(t.servers, u.servers, ServerFields, {"accrued", "billed"})
    BY <2>1, <2>2, <2>3
  <2>6. "backups" \in {"servers", "dbs"} => SameRows(t.backups, u.backups, BackupFields, {"billed"})
    BY <2>1, <2>2, <2>3
  <2> QED
    BY <2>3, <2>4, <2>5, <2>6, AlikeByRows
<1> QED
  BY <1>5, <1>6 DEF Carries

LEMMA DiskLogsGrowthRequestedAlike ==
    ASSUME NEW x, NEW y, Alike(x, y), NEW e, TimeFits(e, x, y), e.type = "DiskLogsGrowthRequested",
           NEW t \in Handled(x, e)
    PROVE  Carries(t, Handled(y, e))
<1>1. DOMAIN x = Fields /\ DOMAIN y = Fields
  BY DEF Alike
<1>2. DiskLogsGrowthRequestedGuard(x, e)
  BY <1>1, DiskLogsGrowthRequestedEffect
<1>3. /\ x.cursor = y.cursor
  BY SameFields
<1>4. DiskLogsGrowthRequestedGuard(y, e)
  BY <1>2, <1>3, SameReadings, SameServerReadings, SameBackupReadings
     DEF DiskLogsGrowthRequestedGuard, TimeFits, FactTypes, PageTypes, TrafficTypes, StorageTypes, Running, Fact
<1>5. Handled(y, e) # {}
  BY <1>1, <1>4, DiskLogsGrowthRequestedEnabled
<1>6. ASSUME NEW u \in Handled(y, e)
      PROVE  Alike(t, u)
  <2>1. t.cursor = u.cursor
    <3>1. t.cursor = NextCursor(x, e)
      BY <1>1, DiskLogsGrowthRequestedEffect
    <3>2. u.cursor = NextCursor(y, e)
      BY <1>1, <1>6, DiskLogsGrowthRequestedEffect
    <3> QED
      BY <1>3, <3>1, <3>2 DEF NextCursor
  <2>2. Kept(x, t, {"cursor"}) /\ Kept(y, u, {"cursor"})
    BY <1>1, <1>6, DiskLogsGrowthRequestedEffect
  <2> QED
    BY <2>1, <2>2, AlikeByKept
<1> QED
  BY <1>5, <1>6 DEF Carries

LEMMA DiskLogsIncreasedAlike ==
    ASSUME NEW x, NEW y, Alike(x, y), NEW e, TimeFits(e, x, y), e.type = "DiskLogsIncreased",
           NEW t \in Handled(x, e)
    PROVE  Carries(t, Handled(y, e))
<1>1. DOMAIN x = Fields /\ DOMAIN y = Fields
  BY DEF Alike
<1>2. DiskLogsIncreasedGuard(x, e)
  BY <1>1, DiskLogsIncreasedEffect
<1>3. TRUE
  BY SameFields
<1>4. DiskLogsIncreasedGuard(y, e)
  BY <1>2, <1>3, SameReadings, SameServerReadings, SameBackupReadings
     DEF DiskLogsIncreasedGuard, TimeFits, FactTypes, PageTypes, TrafficTypes, StorageTypes, Running, Fact, WithStatus
<1>5. Handled(y, e) # {}
  BY <1>1, <1>4, DiskLogsIncreasedEnabled
<1>6. ASSUME NEW u \in Handled(y, e)
      PROVE  Alike(t, u)
  <2>1. SameRows(t.servers, u.servers, ServerFields, {"accrued", "billed"})
    <3>1. t.servers = DiskLogsIncreasedServers(x, e)
      BY <1>1, DiskLogsIncreasedEffect
    <3>2. u.servers = DiskLogsIncreasedServers(y, e)
      BY <1>1, <1>6, DiskLogsIncreasedEffect
    <3>3. SameRows(x.servers, y.servers, ServerFields, {"accrued", "billed"})
      BY DEF Alike
    <3>4. SameRows(DiskLogsIncreasedServers(x, e), DiskLogsIncreasedServers(y, e), ServerFields, {"accrued", "billed"})
      BY <1>2, <1>3, <3>3 DEF DiskLogsIncreasedServers, SameRows, ServerFields, Put, Drop, DiskLogsIncreasedGuard, WithStatus
    <3> QED
      BY <3>1, <3>2, <3>4
  <2>2. Kept(x, t, {"servers"}) /\ Kept(y, u, {"servers"})
    BY <1>1, <1>6, DiskLogsIncreasedEffect
  <2>3. \A f \in {"servers"} \ ButBilled : t[f] = u[f]
    BY <2>1, <2>2 DEF ButBilled
  <2>4. "servers" \in {"servers"} => SameRows(t.servers, u.servers, ServerFields, {"accrued", "billed"})
    BY <2>1, <2>2
  <2>5. "backups" \in {"servers"} => SameRows(t.backups, u.backups, BackupFields, {"billed"})
    BY <2>1, <2>2
  <2> QED
    BY <2>2, <2>3, <2>4, <2>5, AlikeByRows
<1> QED
  BY <1>5, <1>6 DEF Carries

LEMMA DiskLogsGrowthBlockedAlike ==
    ASSUME NEW x, NEW y, Alike(x, y), NEW e, TimeFits(e, x, y), e.type = "DiskLogsGrowthBlocked",
           NEW t \in Handled(x, e)
    PROVE  Carries(t, Handled(y, e))
<1>1. DOMAIN x = Fields /\ DOMAIN y = Fields
  BY DEF Alike
<1>2. DiskLogsGrowthBlockedGuard(x, e)
  BY <1>1, DiskLogsGrowthBlockedEffect
<1>3. TRUE
  BY SameFields
<1>4. DiskLogsGrowthBlockedGuard(y, e)
  BY <1>2, <1>3, SameReadings, SameServerReadings, SameBackupReadings
     DEF DiskLogsGrowthBlockedGuard, TimeFits, FactTypes, PageTypes, TrafficTypes, StorageTypes, Running, Fact
<1>5. Handled(y, e) # {}
  BY <1>1, <1>4, DiskLogsGrowthBlockedEnabled
<1>6. ASSUME NEW u \in Handled(y, e)
      PROVE  Alike(t, u)
  <2>1. Kept(x, t, {}) /\ Kept(y, u, {})
    BY <1>1, <1>6, DiskLogsGrowthBlockedEffect
  <2> QED
    BY <2>1, AlikeByKept
<1> QED
  BY <1>5, <1>6 DEF Carries

LEMMA DatabaseBackupStartedAlike ==
    ASSUME NEW x, NEW y, Alike(x, y), NEW e, TimeFits(e, x, y), e.type = "DatabaseBackupStarted",
           NEW t \in Handled(x, e)
    PROVE  Carries(t, Handled(y, e))
<1>1. DOMAIN x = Fields /\ DOMAIN y = Fields
  BY DEF Alike
<1>2. DatabaseBackupStartedGuard(x, e)
  BY <1>1, DatabaseBackupStartedEffect
<1>3. /\ x.dbs = y.dbs
  BY SameFields
<1>4. DatabaseBackupStartedGuard(y, e)
  BY <1>2, <1>3, SameReadings, SameServerReadings, SameBackupReadings
     DEF DatabaseBackupStartedGuard, TimeFits, FactTypes, PageTypes, TrafficTypes, StorageTypes, Running, Fact, WithStatus
<1>5. Handled(y, e) # {}
  BY <1>1, <1>4, DatabaseBackupStartedEnabled
<1>6. ASSUME NEW u \in Handled(y, e)
      PROVE  Alike(t, u)
  <2>1. SameRows(t.backups, u.backups, BackupFields, {"billed"})
    <3>1. t.backups = DatabaseBackupStartedBackups(x, e)
      BY <1>1, DatabaseBackupStartedEffect
    <3>2. u.backups = DatabaseBackupStartedBackups(y, e)
      BY <1>1, <1>6, DatabaseBackupStartedEffect
    <3>3. SameRows(x.backups, y.backups, BackupFields, {"billed"})
      BY DEF Alike
    <3>4. SameRows(DatabaseBackupStartedBackups(x, e), DatabaseBackupStartedBackups(y, e), BackupFields, {"billed"})
      BY <1>2, <1>3, <3>3 DEF DatabaseBackupStartedBackups, SameRows, BackupFields, Put, Drop, DatabaseBackupStartedGuard, WithStatus
    <3> QED
      BY <3>1, <3>2, <3>4
  <2>2. Kept(x, t, {"backups"}) /\ Kept(y, u, {"backups"})
    BY <1>1, <1>6, DatabaseBackupStartedEffect
  <2>3. \A f \in {"backups"} \ ButBilled : t[f] = u[f]
    BY <2>1, <2>2 DEF ButBilled
  <2>4. "servers" \in {"backups"} => SameRows(t.servers, u.servers, ServerFields, {"accrued", "billed"})
    BY <2>1, <2>2
  <2>5. "backups" \in {"backups"} => SameRows(t.backups, u.backups, BackupFields, {"billed"})
    BY <2>1, <2>2
  <2> QED
    BY <2>2, <2>3, <2>4, <2>5, AlikeByRows
<1> QED
  BY <1>5, <1>6 DEF Carries

LEMMA DatabaseBackupCompletedAlike ==
    ASSUME NEW x, NEW y, Alike(x, y), NEW e, TimeFits(e, x, y), e.type = "DatabaseBackupCompleted",
           NEW t \in Handled(x, e)
    PROVE  Carries(t, Handled(y, e))
<1>1. DOMAIN x = Fields /\ DOMAIN y = Fields
  BY DEF Alike
<1>2. DatabaseBackupCompletedGuard(x, e)
  BY <1>1, DatabaseBackupCompletedEffect
<1>3. /\ x.dbs = y.dbs
  BY SameFields
<1>4. DatabaseBackupCompletedGuard(y, e)
  BY <1>2, <1>3, SameReadings, SameServerReadings, SameBackupReadings
     DEF DatabaseBackupCompletedGuard, TimeFits, FactTypes, PageTypes, TrafficTypes, StorageTypes, Running, Fact, WithStatus
<1>5. Handled(y, e) # {}
  BY <1>1, <1>4, DatabaseBackupCompletedEnabled
<1>6. ASSUME NEW u \in Handled(y, e)
      PROVE  Alike(t, u)
  <2>1. SameRows(t.backups, u.backups, BackupFields, {"billed"})
    <3>1. t.backups = DatabaseBackupCompletedBackups(x, e)
      BY <1>1, DatabaseBackupCompletedEffect
    <3>2. u.backups = DatabaseBackupCompletedBackups(y, e)
      BY <1>1, <1>6, DatabaseBackupCompletedEffect
    <3>3. SameRows(x.backups, y.backups, BackupFields, {"billed"})
      BY DEF Alike
    <3>4. SameRows(DatabaseBackupCompletedBackups(x, e), DatabaseBackupCompletedBackups(y, e), BackupFields, {"billed"})
      BY <1>2, <1>3, <3>3 DEF DatabaseBackupCompletedBackups, SameRows, BackupFields, Put, Drop, DatabaseBackupCompletedGuard, WithStatus
    <3> QED
      BY <3>1, <3>2, <3>4
  <2>2. Kept(x, t, {"backups"}) /\ Kept(y, u, {"backups"})
    BY <1>1, <1>6, DatabaseBackupCompletedEffect
  <2>3. \A f \in {"backups"} \ ButBilled : t[f] = u[f]
    BY <2>1, <2>2 DEF ButBilled
  <2>4. "servers" \in {"backups"} => SameRows(t.servers, u.servers, ServerFields, {"accrued", "billed"})
    BY <2>1, <2>2
  <2>5. "backups" \in {"backups"} => SameRows(t.backups, u.backups, BackupFields, {"billed"})
    BY <2>1, <2>2
  <2> QED
    BY <2>2, <2>3, <2>4, <2>5, AlikeByRows
<1> QED
  BY <1>5, <1>6 DEF Carries

LEMMA DatabaseRestoreStartedAlike ==
    ASSUME NEW x, NEW y, Alike(x, y), NEW e, TimeFits(e, x, y), e.type = "DatabaseRestoreStarted",
           NEW t \in Handled(x, e)
    PROVE  Carries(t, Handled(y, e))
<1>1. DOMAIN x = Fields /\ DOMAIN y = Fields
  BY DEF Alike
<1>2. DatabaseRestoreStartedGuard(x, e)
  BY <1>1, DatabaseRestoreStartedEffect
<1>3. /\ x.dbs = y.dbs
  BY SameFields
<1>4. DatabaseRestoreStartedGuard(y, e)
  BY <1>2, <1>3, SameReadings, SameServerReadings, SameBackupReadings
     DEF DatabaseRestoreStartedGuard, TimeFits, FactTypes, PageTypes, TrafficTypes, StorageTypes, Running, Fact
<1>5. Handled(y, e) # {}
  BY <1>1, <1>4, DatabaseRestoreStartedEnabled
<1>6. ASSUME NEW u \in Handled(y, e)
      PROVE  Alike(t, u)
  <2>1. t.dbs = u.dbs
    <3>1. t.dbs = DatabaseRestoreStartedDbs(x, e)
      BY <1>1, DatabaseRestoreStartedEffect
    <3>2. u.dbs = DatabaseRestoreStartedDbs(y, e)
      BY <1>1, <1>6, DatabaseRestoreStartedEffect
    <3>3. DatabaseRestoreStartedDbs(x, e) = DatabaseRestoreStartedDbs(y, e)
      BY <1>2, <1>3 DEF DatabaseRestoreStartedDbs
    <3> QED
      BY <3>1, <3>2, <3>3
  <2>2. Kept(x, t, {"dbs"}) /\ Kept(y, u, {"dbs"})
    BY <1>1, <1>6, DatabaseRestoreStartedEffect
  <2> QED
    BY <2>1, <2>2, AlikeByKept
<1> QED
  BY <1>5, <1>6 DEF Carries

LEMMA DatabaseRestoreCompletedAlike ==
    ASSUME NEW x, NEW y, Alike(x, y), NEW e, TimeFits(e, x, y), e.type = "DatabaseRestoreCompleted",
           NEW t \in Handled(x, e)
    PROVE  Carries(t, Handled(y, e))
<1>1. DOMAIN x = Fields /\ DOMAIN y = Fields
  BY DEF Alike
<1>2. DatabaseRestoreCompletedGuard(x, e)
  BY <1>1, DatabaseRestoreCompletedEffect
<1>3. /\ x.dbs = y.dbs
  BY SameFields
<1>4. DatabaseRestoreCompletedGuard(y, e)
  BY <1>2, <1>3, SameReadings, SameServerReadings, SameBackupReadings
     DEF DatabaseRestoreCompletedGuard, TimeFits, FactTypes, PageTypes, TrafficTypes, StorageTypes, Running, Fact
<1>5. Handled(y, e) # {}
  BY <1>1, <1>4, DatabaseRestoreCompletedEnabled
<1>6. ASSUME NEW u \in Handled(y, e)
      PROVE  Alike(t, u)
  <2>1. t.dbs = u.dbs
    <3>1. t.dbs = DatabaseRestoreCompletedDbs(x, e)
      BY <1>1, DatabaseRestoreCompletedEffect
    <3>2. u.dbs = DatabaseRestoreCompletedDbs(y, e)
      BY <1>1, <1>6, DatabaseRestoreCompletedEffect
    <3>4. x.backups[e.backup].db = y.backups[e.backup].db
      BY <1>2, SameBackupReadings DEF DatabaseRestoreCompletedGuard
    <3>3. DatabaseRestoreCompletedDbs(x, e) = DatabaseRestoreCompletedDbs(y, e)
      BY <3>4, <1>2, <1>3, SameBackupReadings DEF DatabaseRestoreCompletedDbs, DatabaseRestoreCompletedGuard
    <3> QED
      BY <3>1, <3>2, <3>3
  <2>2. Kept(x, t, {"dbs"}) /\ Kept(y, u, {"dbs"})
    BY <1>1, <1>6, DatabaseRestoreCompletedEffect
  <2> QED
    BY <2>1, <2>2, AlikeByKept
<1> QED
  BY <1>5, <1>6 DEF Carries

LEMMA SiteStopStartedAlike ==
    ASSUME NEW x, NEW y, Alike(x, y), NEW e, TimeFits(e, x, y), e.type = "SiteStopStarted",
           NEW t \in Handled(x, e)
    PROVE  Carries(t, Handled(y, e))
<1>1. DOMAIN x = Fields /\ DOMAIN y = Fields
  BY DEF Alike
<1>2. SiteStopStartedGuard(x, e)
  BY <1>1, SiteStopStartedEffect
<1>3. /\ x.site = y.site
      /\ x.dbs = y.dbs
      /\ x.firewallDown = y.firewallDown
      /\ x.backendDown = y.backendDown
  BY SameFields
<1>4. SiteStopStartedGuard(y, e)
  BY <1>2, <1>3, SameReadings, SameServerReadings, SameBackupReadings
     DEF SiteStopStartedGuard, TimeFits, FactTypes, PageTypes, TrafficTypes, StorageTypes, Running, Fact
<1>5. Handled(y, e) # {}
  BY <1>1, <1>4, SiteStopStartedEnabled
<1>6. ASSUME NEW u \in Handled(y, e)
      PROVE  Alike(t, u)
  <2>1. t.site = u.site
    <3>1. t.site = SiteStopStartedSite(x, e)
      BY <1>1, SiteStopStartedEffect
    <3>2. u.site = SiteStopStartedSite(y, e)
      BY <1>1, <1>6, SiteStopStartedEffect
    <3> DEFINE zx == [x EXCEPT !.site.status = "stopping", !.site.op = e.op]
               zy == [y EXCEPT !.site.status = "stopping", !.site.op = e.op]
    <3>3. AlikeSites(zx, zy)
      BY <1>1, <1>3 DEF AlikeSites, Fields
    <3> HIDE DEF zx, zy
    <3>4. OpenOutage(zx, e.at).site = OpenOutage(zy, e.at).site
      BY <3>3, AlikeOutage
    <3>5. SiteStopStartedSite(x, e) = SiteStopStartedSite(y, e)
      BY <1>3, <3>4 DEF zx, zy, SiteStopStartedSite
    <3> QED
      BY <3>1, <3>2, <3>5
  <2>2. Kept(x, t, {"site"}) /\ Kept(y, u, {"site"})
    BY <1>1, <1>6, SiteStopStartedEffect
  <2> QED
    BY <2>1, <2>2, AlikeByKept
<1> QED
  BY <1>5, <1>6 DEF Carries

LEMMA SiteStoppedAlike ==
    ASSUME NEW x, NEW y, Alike(x, y), NEW e, TimeFits(e, x, y), e.type = "SiteStopped",
           NEW t \in Handled(x, e)
    PROVE  Carries(t, Handled(y, e))
<1>1. DOMAIN x = Fields /\ DOMAIN y = Fields
  BY DEF Alike
<1>2. SiteStoppedGuard(x, e)
  BY <1>1, SiteStoppedEffect
<1>3. /\ x.site = y.site
      /\ x.conns = y.conns
  BY SameFields
<1>4. SiteStoppedGuard(y, e)
  BY <1>2, <1>3, SameReadings, SameServerReadings, SameBackupReadings
     DEF SiteStoppedGuard, TimeFits, FactTypes, PageTypes, TrafficTypes, StorageTypes, Running, Fact
<1>5. Handled(y, e) # {}
  BY <1>1, <1>4, SiteStoppedEnabled
<1>6. ASSUME NEW u \in Handled(y, e)
      PROVE  Alike(t, u)
  <2>1. t.site = u.site
    <3>1. t.site = SiteStoppedSite(x, e)
      BY <1>1, SiteStoppedEffect
    <3>2. u.site = SiteStoppedSite(y, e)
      BY <1>1, <1>6, SiteStoppedEffect
    <3>3. SiteStoppedSite(x, e) = SiteStoppedSite(y, e)
      BY <1>2, <1>3 DEF SiteStoppedSite
    <3> QED
      BY <3>1, <3>2, <3>3
  <2>2. Kept(x, t, {"site"}) /\ Kept(y, u, {"site"})
    BY <1>1, <1>6, SiteStoppedEffect
  <2> QED
    BY <2>1, <2>2, AlikeByKept
<1> QED
  BY <1>5, <1>6 DEF Carries

LEMMA SiteDatabaseChangedAlike ==
    ASSUME NEW x, NEW y, Alike(x, y), NEW e, TimeFits(e, x, y), e.type = "SiteDatabaseChanged",
           NEW t \in Handled(x, e)
    PROVE  Carries(t, Handled(y, e))
<1>1. DOMAIN x = Fields /\ DOMAIN y = Fields
  BY DEF Alike
<1>2. SiteDatabaseChangedGuard(x, e)
  BY <1>1, SiteDatabaseChangedEffect
<1>3. /\ x.site = y.site
      /\ x.dbs = y.dbs
  BY SameFields
<1>4. SiteDatabaseChangedGuard(y, e)
  BY <1>2, <1>3, SameReadings, SameServerReadings, SameBackupReadings
     DEF SiteDatabaseChangedGuard, TimeFits, FactTypes, PageTypes, TrafficTypes, StorageTypes, Running, Fact
<1>5. Handled(y, e) # {}
  BY <1>1, <1>4, SiteDatabaseChangedEnabled
<1>6. ASSUME NEW u \in Handled(y, e)
      PROVE  Alike(t, u)
  <2>1. t.site = u.site
    <3>1. t.site = SiteDatabaseChangedSite(x, e)
      BY <1>1, SiteDatabaseChangedEffect
    <3>2. u.site = SiteDatabaseChangedSite(y, e)
      BY <1>1, <1>6, SiteDatabaseChangedEffect
    <3>3. SiteDatabaseChangedSite(x, e) = SiteDatabaseChangedSite(y, e)
      BY <1>2, <1>3 DEF SiteDatabaseChangedSite
    <3> QED
      BY <3>1, <3>2, <3>3
  <2>2. Kept(x, t, {"site"}) /\ Kept(y, u, {"site"})
    BY <1>1, <1>6, SiteDatabaseChangedEffect
  <2> QED
    BY <2>1, <2>2, AlikeByKept
<1> QED
  BY <1>5, <1>6 DEF Carries

LEMMA SiteStartedAlike ==
    ASSUME NEW x, NEW y, Alike(x, y), NEW e, TimeFits(e, x, y), e.type = "SiteStarted",
           NEW t \in Handled(x, e)
    PROVE  Carries(t, Handled(y, e))
<1>1. DOMAIN x = Fields /\ DOMAIN y = Fields
  BY DEF Alike
<1>2. SiteStartedGuard(x, e)
  BY <1>1, SiteStartedEffect
<1>3. /\ x.site = y.site
      /\ x.dbs = y.dbs
      /\ x.firewallDown = y.firewallDown
      /\ x.backendDown = y.backendDown
  BY SameFields
<1>4. SiteStartedGuard(y, e)
  BY <1>2, <1>3, SameReadings, SameServerReadings, SameBackupReadings
     DEF SiteStartedGuard, TimeFits, FactTypes, PageTypes, TrafficTypes, StorageTypes, Running, Fact
<1>5. Handled(y, e) # {}
  BY <1>1, <1>4, SiteStartedEnabled
<1>6. ASSUME NEW u \in Handled(y, e)
      PROVE  Alike(t, u)
  <2>1. t.site = u.site
    <3>1. t.site = SiteStartedSite(x, e)
      BY <1>1, SiteStartedEffect
    <3>2. u.site = SiteStartedSite(y, e)
      BY <1>1, <1>6, SiteStartedEffect
    <3> DEFINE zx == [x EXCEPT !.site.status = "running", !.site.op = NoOperation]
               zy == [y EXCEPT !.site.status = "running", !.site.op = NoOperation]
    <3>3. AlikeSites(zx, zy)
      BY <1>1, <1>3 DEF AlikeSites, Fields
    <3> HIDE DEF zx, zy
    <3>4. CloseOutage(zx, e.at).site = CloseOutage(zy, e.at).site
      BY <3>3, AlikeOutage
    <3>5. SiteStartedSite(x, e) = SiteStartedSite(y, e)
      BY <1>3, <3>4 DEF zx, zy, SiteStartedSite
    <3> QED
      BY <3>1, <3>2, <3>5
  <2>2. Kept(x, t, {"site"}) /\ Kept(y, u, {"site"})
    BY <1>1, <1>6, SiteStartedEffect
  <2> QED
    BY <2>1, <2>2, AlikeByKept
<1> QED
  BY <1>5, <1>6 DEF Carries

\* An event that one of two alike states accepts, the other does.
LEMMA AlikeStep ==
    ASSUME NEW x, NEW y, Alike(x, y), NEW e, TimeFits(e, x, y), e.type \in AlikeTypes,
           NEW t \in Handled(x, e)
    PROVE  Carries(t, Handled(y, e))
<1>1. e.type \in {"RunEnded",
                  "OperationStarted",
                  "OperationSucceeded",
                  "ServerProvisioningStarted",
                  "ServerActivated",
                  "ServerDrainingStarted",
                  "ServerRemoved",
                  "BackendAvailabilityChanged",
                  "PageRequestStarted",
                  "PageRequestAccepted",
                  "PageRequestCompleted",
                  "PageRequestRejected",
                  "VisitorArrived",
                  "TrafficAttackStarted",
                  "TrafficAttackEnded",
                  "FirewallRuleUpserted",
                  "FirewallRuleDeleted",
                  "FirewallAvailabilityChanged",
                  "DatabaseCreated",
                  "DatabaseDeleted",
                  "DatabaseConnectionOpened",
                  "DatabaseConnectionReleased",
                  "DatabaseConnectionRejected",
                  "DatabaseAvailabilityChanged",
                  "DatabaseGrowthRequested",
                  "DatabaseStorageIncreased",
                  "DatabaseGrowthBlocked",
                  "DiskLogsCleaned",
                  "DiskLogsGrowthRequested",
                  "DiskLogsIncreased",
                  "DiskLogsGrowthBlocked",
                  "DatabaseBackupStarted",
                  "DatabaseBackupCompleted",
                  "DatabaseRestoreStarted",
                  "DatabaseRestoreCompleted",
                  "SiteStopStarted",
                  "SiteStopped",
                  "SiteDatabaseChanged",
                  "SiteStarted"}
  BY DEF AlikeTypes, KnownTypes, TimeTypes, CostTypes, OperationTypes, ServerTypes, PageTypes,
     TrafficTypes, FirewallTypes, DatabaseTypes, StorageTypes, MigrationTypes
<1>2. CASE e.type = "RunEnded"
  BY <1>2, RunEndedAlike
<1>3. CASE e.type = "OperationStarted"
  BY <1>3, OperationStartedAlike
<1>4. CASE e.type = "OperationSucceeded"
  BY <1>4, OperationSucceededAlike
<1>5. CASE e.type = "ServerProvisioningStarted"
  BY <1>5, ServerProvisioningStartedAlike
<1>6. CASE e.type = "ServerActivated"
  BY <1>6, ServerActivatedAlike
<1>7. CASE e.type = "ServerDrainingStarted"
  BY <1>7, ServerDrainingStartedAlike
<1>8. CASE e.type = "ServerRemoved"
  BY <1>8, ServerRemovedAlike
<1>9. CASE e.type = "BackendAvailabilityChanged"
  BY <1>9, BackendAvailabilityChangedAlike
<1>10. CASE e.type = "PageRequestStarted"
  BY <1>10, PageRequestStartedAlike
<1>11. CASE e.type = "PageRequestAccepted"
  BY <1>11, PageRequestAcceptedAlike
<1>12. CASE e.type = "PageRequestCompleted"
  BY <1>12, PageRequestCompletedAlike
<1>13. CASE e.type = "PageRequestRejected"
  BY <1>13, PageRequestRejectedAlike
<1>14. CASE e.type = "VisitorArrived"
  BY <1>14, VisitorArrivedAlike
<1>15. CASE e.type = "TrafficAttackStarted"
  BY <1>15, TrafficAttackStartedAlike
<1>16. CASE e.type = "TrafficAttackEnded"
  BY <1>16, TrafficAttackEndedAlike
<1>17. CASE e.type = "FirewallRuleUpserted"
  BY <1>17, FirewallRuleUpsertedAlike
<1>18. CASE e.type = "FirewallRuleDeleted"
  BY <1>18, FirewallRuleDeletedAlike
<1>19. CASE e.type = "FirewallAvailabilityChanged"
  BY <1>19, FirewallAvailabilityChangedAlike
<1>20. CASE e.type = "DatabaseCreated"
  BY <1>20, DatabaseCreatedAlike
<1>21. CASE e.type = "DatabaseDeleted"
  BY <1>21, DatabaseDeletedAlike
<1>22. CASE e.type = "DatabaseConnectionOpened"
  BY <1>22, DatabaseConnectionOpenedAlike
<1>23. CASE e.type = "DatabaseConnectionReleased"
  BY <1>23, DatabaseConnectionReleasedAlike
<1>24. CASE e.type = "DatabaseConnectionRejected"
  BY <1>24, DatabaseConnectionRejectedAlike
<1>25. CASE e.type = "DatabaseAvailabilityChanged"
  BY <1>25, DatabaseAvailabilityChangedAlike
<1>26. CASE e.type = "DatabaseGrowthRequested"
  BY <1>26, DatabaseGrowthRequestedAlike
<1>27. CASE e.type = "DatabaseStorageIncreased"
  BY <1>27, DatabaseStorageIncreasedAlike
<1>28. CASE e.type = "DatabaseGrowthBlocked"
  BY <1>28, DatabaseGrowthBlockedAlike
<1>29. CASE e.type = "DiskLogsCleaned"
  BY <1>29, DiskLogsCleanedAlike
<1>30. CASE e.type = "DiskLogsGrowthRequested"
  BY <1>30, DiskLogsGrowthRequestedAlike
<1>31. CASE e.type = "DiskLogsIncreased"
  BY <1>31, DiskLogsIncreasedAlike
<1>32. CASE e.type = "DiskLogsGrowthBlocked"
  BY <1>32, DiskLogsGrowthBlockedAlike
<1>33. CASE e.type = "DatabaseBackupStarted"
  BY <1>33, DatabaseBackupStartedAlike
<1>34. CASE e.type = "DatabaseBackupCompleted"
  BY <1>34, DatabaseBackupCompletedAlike
<1>35. CASE e.type = "DatabaseRestoreStarted"
  BY <1>35, DatabaseRestoreStartedAlike
<1>36. CASE e.type = "DatabaseRestoreCompleted"
  BY <1>36, DatabaseRestoreCompletedAlike
<1>37. CASE e.type = "SiteStopStarted"
  BY <1>37, SiteStopStartedAlike
<1>38. CASE e.type = "SiteStopped"
  BY <1>38, SiteStoppedAlike
<1>39. CASE e.type = "SiteDatabaseChanged"
  BY <1>39, SiteDatabaseChangedAlike
<1>40. CASE e.type = "SiteStarted"
  BY <1>40, SiteStartedAlike
<1> QED
  BY <1>1, <1>2, <1>3, <1>4, <1>5, <1>6, <1>7, <1>8, <1>9, <1>10, <1>11, <1>12, <1>13, <1>14, <1>15, <1>16, <1>17, <1>18, <1>19, <1>20, <1>21, <1>22, <1>23, <1>24, <1>25, <1>26, <1>27, <1>28, <1>29, <1>30, <1>31, <1>32, <1>33, <1>34, <1>35, <1>36, <1>37, <1>38, <1>39, <1>40

LEMMA ApplyShape ==
    ASSUME NEW x, DOMAIN x = Fields, NEW e
    PROVE  /\ DOMAIN Apply(x, e) = Fields
           /\ x.refused => Apply(x, e).refused
           /\ e.type # "TimeAdvanced" => Apply(x, e).now = x.now
<1>1. DOMAIN Refuse(x) = Fields /\ Refuse(x).refused /\ Refuse(x).now = x.now
  BY DEF Refuse, Fields
<1>2. CASE x.refused \/ Handled(x, e) = {}
  <2>1. Apply(x, e) = Refuse(x)
    BY <1>2 DEF Apply, Handled, Outcome
  <2> QED
    BY <1>1, <2>1
<1>3. CASE ~x.refused /\ Handled(x, e) # {}
  <2>1. PICK t \in Handled(x, e) : TRUE
    BY <1>3
  <2>2. Apply(x, e) = t
    BY <1>3, <2>1, ApplyGives
  <2>3. DOMAIN t = Fields /\ e.type \in KnownTypes
    BY <2>1, GroupKeeps, UnknownRefused DEF Kept, KnownTypes
  <2>4. ASSUME e.type # "TimeAdvanced"
        PROVE  t.now = x.now
    <3>1. e.type = "RunEnded" \/ e.type \in KnownTypes \ TimeTypes
      BY <2>3, <2>4 DEF TimeTypes
    <3>2. CASE e.type = "RunEnded"
      BY <2>1, <3>2, TypeKeeps DEF Kept, Fields
    <3>3. CASE e.type \in KnownTypes \ TimeTypes
      BY <2>1, <3>3, GroupKeeps DEF Kept, Fields, KnownTypes
    <3> QED
      BY <3>1, <3>2, <3>3
  <2> QED
    BY <1>3, <2>2, <2>3, <2>4
<1> QED
  BY <1>2, <1>3

LEMMA AlikeApply ==
    ASSUME NEW x, NEW y, Alike(x, y), NEW e, TimeFits(e, x, y), e.type \in AlikeTypes,
           ~Apply(x, e).refused
    PROVE  Alike(Apply(x, e), Apply(y, e))
<1>1. DOMAIN x = Fields /\ DOMAIN y = Fields /\ x.refused = y.refused
  BY DEF Alike, Fields, ButBilled
<1>2. ~x.refused /\ Apply(x, e) \in Handled(x, e)
  BY <1>1, Accepted
<1>3. Carries(Apply(x, e), Handled(y, e))
  BY <1>2, AlikeStep
<1>4. PICK u \in Handled(y, e) : TRUE
  BY <1>3 DEF Carries
<1>5. Apply(y, e) = u
  BY <1>1, <1>2, <1>4, ApplyGives
<1> QED
  BY <1>3, <1>4, <1>5 DEF Carries

----------------------------------------------------------------------------
(* A sequence of events, and the states it leads through                    *)

ApplyIn(c, x, e) == Apply(x, e)
AnyState(c, k, x) == TRUE
LoadIn(table, r) == table[r].load
Events == INSTANCE FoldSteps WITH Op <- ApplyIn, Inv <- AnyState, Weight <- LoadIn

Listed(es) == \E S : es \in Seq(S)

LEMMA ListedDomain ==
    ASSUME NEW es, Listed(es)
    PROVE  Len(es) \in Nat /\ DOMAIN es = 1..Len(es)
  BY LenProperties DEF Listed

LEMMA ListedAppend ==
    ASSUME NEW p, NEW q, Listed(p), Listed(q)
    PROVE  /\ Listed(p \o q) /\ Len(p \o q) = Len(p) + Len(q)
           /\ \A i \in 1..Len(p) : (p \o q)[i] = p[i]
           /\ \A i \in 1..Len(q) : (p \o q)[Len(p) + i] = q[i]
<1>1. PICK S1 : p \in Seq(S1)
  BY DEF Listed
<1>2. PICK S2 : q \in Seq(S2)
  BY DEF Listed
<1> DEFINE S == S1 \cup S2
<1>3. p \in Seq(S) /\ q \in Seq(S)
  BY <1>1, <1>2, SeqMonotonic
<1>4. Len(p) \in Nat /\ Len(q) \in Nat
  BY <1>3, LenProperties
<1> HIDE DEF S
<1>5. /\ p \o q \in Seq(S) /\ Len(p \o q) = Len(p) + Len(q)
      /\ \A i \in 1..(Len(p) + Len(q)) :
           (p \o q)[i] = IF i <= Len(p) THEN p[i] ELSE q[i - Len(p)]
  BY <1>3, ConcatProperties
<1>6. ASSUME NEW i \in 1..Len(p)
      PROVE  (p \o q)[i] = p[i]
  BY <1>4, <1>5
<1>7. ASSUME NEW i \in 1..Len(q)
      PROVE  (p \o q)[Len(p) + i] = q[i]
  <2>1. Len(p) + i \in 1..(Len(p) + Len(q)) /\ ~(Len(p) + i <= Len(p)) /\ (Len(p) + i) - Len(p) = i
    BY <1>4
  <2> QED
    BY <1>5, <2>1
<1> QED
  BY <1>5, <1>6, <1>7 DEF Listed

LEMMA ListedLiterals ==
    /\ Listed(<<>>)
    /\ \A a : Listed(<<a>>)
    /\ \A a, b : Listed(<<a, b>>)
    /\ \A a, b, c : Listed(<<a, b, c>>)
    /\ \A a, b, c, d : Listed(<<a, b, c, d>>)
<1>1. <<>> \in Seq({})
  OBVIOUS
<1>2. \A a : <<a>> \in Seq({a})
  OBVIOUS
<1>3. \A a, b : <<a, b>> \in Seq({a, b})
  OBVIOUS
<1>4. \A a, b, c : <<a, b, c>> \in Seq({a, b, c})
  OBVIOUS
<1>5. \A a, b, c, d : <<a, b, c, d>> \in Seq({a, b, c, d})
  OBVIOUS
<1> QED
  BY <1>1, <1>2, <1>3, <1>4, <1>5 DEF Listed

LEMMA ListedFunction ==
    ASSUME NEW n \in Nat, NEW f, DOMAIN f = 1..n, f = [k \in DOMAIN f |-> f[k]]
    PROVE  Listed(f) /\ Len(f) = n
<1> DEFINE S == {f[k] : k \in 1..n}
<1>1. f \in [1..n -> S]
  OBVIOUS
<1>2. f \in Seq(S)
  BY <1>1
<1>3. Len(f) \in Nat /\ DOMAIN f = 1..Len(f)
  BY <1>2, LenProperties
<1> QED
  BY <1>2, <1>3 DEF Listed

\* g follows es from x, one state per event.
Follows(g, x, es) ==
  /\ g[0] = x
  /\ \A i \in 1..Len(es) : g[i] = Apply(g[i - 1], es[i])
  /\ ApplyAll(x, es) = g[Len(es)]

LEMMA ApplyAllFolds ==
    ASSUME NEW x, NEW es
    PROVE  Events!Folded(0, x, es) = ApplyAll(x, es)
  BY DEF Events!Folded, ApplyAll, FoldLeft, MapThenFoldSet,
         Events!MapThenFoldSet, Max, Events!Max, ApplyIn

LEMMA ApplyAllFollows ==
    ASSUME NEW x, NEW es, Listed(es)
    PROVE  \E g : Follows(g, x, es)
<1>1. Len(es) \in Nat /\ DOMAIN es = 1..Len(es)
  BY ListedDomain
<1>2. PICK g : Events!Unfolds(g, 0, x, es, Len(es))
  BY <1>1, Events!Unfolded
<1>3. /\ g[0] = x
      /\ \A i \in 1..Len(es) : g[i] = ApplyIn(0, g[i - 1], es[i])
      /\ Events!Folded(0, x, es) = g[Len(es)]
  BY <1>2 DEF Events!Unfolds
<1>4. Follows(g, x, es)
  BY <1>3, ApplyAllFolds DEF Follows, ApplyIn
<1> QED
  BY <1>4

LEMMA ApplyAllAppend ==
    ASSUME NEW x, NEW p, NEW q, Listed(p), Listed(q)
    PROVE  ApplyAll(x, p \o q) = ApplyAll(ApplyAll(x, p), q)
<1>1. Len(p) \in Nat /\ DOMAIN p = 1..Len(p) /\ Len(q) \in Nat /\ DOMAIN q = 1..Len(q)
  BY ListedDomain
<1>2. /\ DOMAIN (p \o q) = 1..(Len(p) + Len(q))
      /\ \A i \in 1..Len(p) : (p \o q)[i] = p[i]
      /\ \A i \in 1..Len(q) : (p \o q)[Len(p) + i] = q[i]
  BY ListedAppend, ListedDomain
<1>3. Events!Appended(p \o q, p, Len(p), q, Len(q))
  BY <1>1, <1>2 DEF Events!Appended
<1>4. Events!Folded(0, x, p \o q) = Events!Folded(0, Events!Folded(0, x, p), q)
  BY <1>1, <1>3, Events!FoldAppend
<1> QED
  BY <1>4, ApplyAllFolds

LEMMA ApplyAllNone ==
    ASSUME NEW x
    PROVE  ApplyAll(x, <<>>) = x
<1>1. PICK g : Follows(g, x, <<>>)
  BY ApplyAllFollows, ListedLiterals
<1>2. Len(<<>>) = 0
  OBVIOUS
<1> QED
  BY <1>1, <1>2 DEF Follows

LEMMA ApplyAllOne ==
    ASSUME NEW x, NEW e
    PROVE  ApplyAll(x, <<e>>) = Apply(x, e)
<1>1. PICK g : Follows(g, x, <<e>>)
  BY ApplyAllFollows, ListedLiterals
<1>2. Len(<<e>>) = 1 /\ <<e>>[1] = e
  OBVIOUS
<1>3. g[1] = Apply(g[0], e)
  BY <1>1, <1>2 DEF Follows
<1> QED
  BY <1>1, <1>2, <1>3 DEF Follows


LEMMA ShapeKept ==
    ASSUME NEW x, DOMAIN x = Fields, NEW es, Listed(es)
    PROVE  /\ DOMAIN ApplyAll(x, es) = Fields
           /\ x.refused => ApplyAll(x, es).refused
           /\ (\A i \in 1..Len(es) : es[i].type # "TimeAdvanced") => ApplyAll(x, es).now = x.now
<1>1. PICK g : Follows(g, x, es)
  BY ApplyAllFollows
<1>2. Len(es) \in Nat
  BY ListedDomain
<1> DEFINE T == {k \in Nat : k <= Len(es) =>
                   /\ DOMAIN g[k] = Fields
                   /\ x.refused => g[k].refused
                   /\ (\A i \in 1..Len(es) : es[i].type # "TimeAdvanced") => g[k].now = x.now}
<1>3. 0 \in T
  BY <1>1 DEF Follows
<1>4. ASSUME NEW k \in Nat, k \in T
      PROVE  k + 1 \in T
  <2> SUFFICES ASSUME k + 1 <= Len(es)
               PROVE  /\ DOMAIN g[k + 1] = Fields
                      /\ x.refused => g[k + 1].refused
                      /\ (\A i \in 1..Len(es) : es[i].type # "TimeAdvanced")
                         => g[k + 1].now = x.now
    OBVIOUS
  <2>1. /\ DOMAIN g[k] = Fields
        /\ x.refused => g[k].refused
        /\ (\A i \in 1..Len(es) : es[i].type # "TimeAdvanced") => g[k].now = x.now
    BY <1>2, <1>4
  <2>2. k + 1 \in 1..Len(es) /\ (k + 1) - 1 = k
    BY <1>2
  <2>3. g[k + 1] = Apply(g[k], es[k + 1])
    BY <1>1, <2>2 DEF Follows
  <2>4. DOMAIN g[k + 1] = Fields
    <3>1. DOMAIN Apply(g[k], es[k + 1]) = Fields
      BY <2>1, ApplyShape
    <3> QED
      BY <2>3, <3>1
  <2>5. x.refused => g[k + 1].refused
    BY <2>1, <2>3, ApplyShape
  <2>6. ASSUME \A i \in 1..Len(es) : es[i].type # "TimeAdvanced"
        PROVE  g[k + 1].now = x.now
    <3>1. DOMAIN g[k] = Fields /\ g[k].now = x.now /\ es[k + 1].type # "TimeAdvanced"
      BY <2>1, <2>2, <2>6
    <3>2. Apply(g[k], es[k + 1]).now = g[k].now
      BY <3>1, ApplyShape
    <3> QED
      BY <2>3, <3>1, <3>2
  <2> QED
    BY <2>4, <2>5, <2>6
<1>5. Len(es) \in T
  <2> HIDE DEF T
  <2> QED
    BY <1>2, <1>3, <1>4, Events!SetInduction
<1> QED
  BY <1>1, <1>2, <1>5 DEF Follows

----------------------------------------------------------------------------
(* Which events change a field                                              *)

LEMMA ChangedBy ==
    ASSUME NEW x, DOMAIN x = Fields, NEW e, NEW t \in Handled(x, e)
    PROVE  /\ t.refused = x.refused
           /\ t.status = x.status
              \/ e.type \in {"RunEnded"}
           /\ t.now = x.now
              \/ e.type \in {"TimeAdvanced"}
           /\ t.cursor = x.cursor
              \/ e.type \in {"VisitorArrived", "TrafficAttackStarted", "TrafficAttackEnded",
                             "DatabaseGrowthRequested", "DiskLogsGrowthRequested"}
           /\ t.site = x.site
              \/ e.type \in {"BackendAvailabilityChanged", "FirewallAvailabilityChanged",
                             "DatabaseAvailabilityChanged", "SiteStopStarted", "SiteStopped",
                             "SiteDatabaseChanged", "SiteStarted"}
           /\ t.servers = x.servers
              \/ e.type \in {"InfrastructureCostAccrued", "ServerProvisioningStarted",
                             "ServerActivated", "ServerDrainingStarted", "ServerRemoved",
                             "DiskLogsCleaned", "DiskLogsIncreased"}
           /\ t.dbs = x.dbs
              \/ e.type \in {"ServerRemoved", "DatabaseCreated", "DatabaseDeleted",
                             "DatabaseAvailabilityChanged", "DatabaseStorageIncreased",
                             "DiskLogsCleaned", "DatabaseRestoreStarted",
                             "DatabaseRestoreCompleted"}
           /\ t.growth = x.growth
              \/ e.type \in {"ServerRemoved", "DatabaseDeleted", "DatabaseGrowthRequested",
                             "DatabaseStorageIncreased", "DatabaseGrowthBlocked"}
           /\ t.conns = x.conns
              \/ e.type \in {"DatabaseConnectionOpened", "DatabaseConnectionReleased"}
           /\ t.counts = x.counts
              \/ e.type \in {"DatabaseConnectionOpened", "DatabaseConnectionReleased"}
           /\ t.capacity = x.capacity
              \/ e.type \in {"TimeAdvanced", "PageRequestStarted", "PageRequestAccepted",
                             "VisitorArrived"}
           /\ t.used = x.used
              \/ e.type \in {"TimeAdvanced", "PageRequestStarted", "PageRequestAccepted",
                             "VisitorArrived"}
           /\ t.indexed = x.indexed
              \/ e.type \in {"TimeAdvanced", "PageRequestStarted", "VisitorArrived"}
           /\ t.backups = x.backups
              \/ e.type \in {"BackupStorageCostAccrued", "DatabaseBackupStarted",
                             "DatabaseBackupCompleted"}
           /\ t.rules = x.rules
              \/ e.type \in {"FirewallRuleUpserted", "FirewallRuleDeleted"}
           /\ t.attacks = x.attacks
              \/ e.type \in {"TrafficAttackStarted", "TrafficAttackEnded"}
           /\ t.firewallDown = x.firewallDown
              \/ e.type \in {"FirewallAvailabilityChanged"}
           /\ t.backendDown = x.backendDown
              \/ e.type \in {"BackendAvailabilityChanged"}
           /\ t.ops = x.ops
              \/ e.type \in {"OperationStarted", "OperationSucceeded"}
           /\ t.serverCost = x.serverCost
              \/ e.type \in {"InfrastructureCostAccrued"}
           /\ t.backupCost = x.backupCost
              \/ e.type \in {"BackupStorageCostAccrued"}
<1>1. e.type \in {"TimeAdvanced", "RunEnded", "InfrastructureCostAccrued",
                  "BackupStorageCostAccrued", "OperationStarted", "OperationSucceeded",
                  "ServerProvisioningStarted", "ServerActivated", "ServerDrainingStarted",
                  "ServerRemoved", "BackendAvailabilityChanged", "PageRequestStarted",
                  "PageRequestAccepted", "PageRequestCompleted", "PageRequestRejected",
                  "VisitorArrived", "TrafficAttackStarted", "TrafficAttackEnded",
                  "FirewallRuleUpserted", "FirewallRuleDeleted", "FirewallAvailabilityChanged",
                  "DatabaseCreated", "DatabaseDeleted", "DatabaseConnectionOpened",
                  "DatabaseConnectionReleased", "DatabaseConnectionRejected",
                  "DatabaseAvailabilityChanged", "DatabaseGrowthRequested",
                  "DatabaseStorageIncreased", "DatabaseGrowthBlocked", "DiskLogsCleaned",
                  "DiskLogsGrowthRequested", "DiskLogsIncreased", "DiskLogsGrowthBlocked",
                  "DatabaseBackupStarted", "DatabaseBackupCompleted", "DatabaseRestoreStarted",
                  "DatabaseRestoreCompleted", "SiteStopStarted", "SiteStopped",
                  "SiteDatabaseChanged", "SiteStarted"}
  BY UnknownRefused DEF KnownTypes, TimeTypes, CostTypes, OperationTypes, ServerTypes, PageTypes,
     TrafficTypes, FirewallTypes, DatabaseTypes, StorageTypes, MigrationTypes
<1>2. t.refused = x.refused
  BY <1>1, TypeKeeps DEF Kept, Fields
<1>3. t.status = x.status
      \/ e.type \in {"RunEnded"}
  BY <1>1, TypeKeeps DEF Kept, Fields
<1>4. t.now = x.now
      \/ e.type \in {"TimeAdvanced"}
  BY <1>1, TypeKeeps DEF Kept, Fields
<1>5. t.cursor = x.cursor
      \/ e.type \in {"VisitorArrived", "TrafficAttackStarted", "TrafficAttackEnded",
                     "DatabaseGrowthRequested", "DiskLogsGrowthRequested"}
  BY <1>1, TypeKeeps DEF Kept, Fields
<1>6. t.site = x.site
      \/ e.type \in {"BackendAvailabilityChanged", "FirewallAvailabilityChanged",
                     "DatabaseAvailabilityChanged", "SiteStopStarted", "SiteStopped",
                     "SiteDatabaseChanged", "SiteStarted"}
  BY <1>1, TypeKeeps DEF Kept, Fields
<1>7. t.servers = x.servers
      \/ e.type \in {"InfrastructureCostAccrued", "ServerProvisioningStarted",
                     "ServerActivated", "ServerDrainingStarted", "ServerRemoved",
                     "DiskLogsCleaned", "DiskLogsIncreased"}
  BY <1>1, TypeKeeps DEF Kept, Fields
<1>8. t.dbs = x.dbs
      \/ e.type \in {"ServerRemoved", "DatabaseCreated", "DatabaseDeleted",
                     "DatabaseAvailabilityChanged", "DatabaseStorageIncreased",
                     "DiskLogsCleaned", "DatabaseRestoreStarted", "DatabaseRestoreCompleted"}
  BY <1>1, TypeKeeps DEF Kept, Fields
<1>9. t.growth = x.growth
      \/ e.type \in {"ServerRemoved", "DatabaseDeleted", "DatabaseGrowthRequested",
                     "DatabaseStorageIncreased", "DatabaseGrowthBlocked"}
  BY <1>1, TypeKeeps DEF Kept, Fields
<1>10. t.conns = x.conns
      \/ e.type \in {"DatabaseConnectionOpened", "DatabaseConnectionReleased"}
  BY <1>1, TypeKeeps DEF Kept, Fields
<1>11. t.counts = x.counts
      \/ e.type \in {"DatabaseConnectionOpened", "DatabaseConnectionReleased"}
  BY <1>1, TypeKeeps DEF Kept, Fields
<1>12. t.capacity = x.capacity
      \/ e.type \in {"TimeAdvanced", "PageRequestStarted", "PageRequestAccepted",
                     "VisitorArrived"}
  BY <1>1, TypeKeeps DEF Kept, Fields
<1>13. t.used = x.used
      \/ e.type \in {"TimeAdvanced", "PageRequestStarted", "PageRequestAccepted",
                     "VisitorArrived"}
  BY <1>1, TypeKeeps DEF Kept, Fields
<1>14. t.indexed = x.indexed
      \/ e.type \in {"TimeAdvanced", "PageRequestStarted", "VisitorArrived"}
  BY <1>1, TypeKeeps DEF Kept, Fields
<1>15. t.backups = x.backups
      \/ e.type \in {"BackupStorageCostAccrued", "DatabaseBackupStarted",
                     "DatabaseBackupCompleted"}
  BY <1>1, TypeKeeps DEF Kept, Fields
<1>16. t.rules = x.rules
      \/ e.type \in {"FirewallRuleUpserted", "FirewallRuleDeleted"}
  BY <1>1, TypeKeeps DEF Kept, Fields
<1>17. t.attacks = x.attacks
      \/ e.type \in {"TrafficAttackStarted", "TrafficAttackEnded"}
  BY <1>1, TypeKeeps DEF Kept, Fields
<1>18. t.firewallDown = x.firewallDown
      \/ e.type \in {"FirewallAvailabilityChanged"}
  BY <1>1, TypeKeeps DEF Kept, Fields
<1>19. t.backendDown = x.backendDown
      \/ e.type \in {"BackendAvailabilityChanged"}
  BY <1>1, TypeKeeps DEF Kept, Fields
<1>20. t.ops = x.ops
      \/ e.type \in {"OperationStarted", "OperationSucceeded"}
  BY <1>1, TypeKeeps DEF Kept, Fields
<1>21. t.serverCost = x.serverCost
      \/ e.type \in {"InfrastructureCostAccrued"}
  BY <1>1, TypeKeeps DEF Kept, Fields
<1>22. t.backupCost = x.backupCost
      \/ e.type \in {"BackupStorageCostAccrued"}
  BY <1>1, TypeKeeps DEF Kept, Fields
<1> QED
  BY <1>2, <1>3, <1>4, <1>5, <1>6, <1>7, <1>8, <1>9, <1>10, <1>11, <1>12, <1>13, <1>14, <1>15, <1>16, <1>17, <1>18, <1>19, <1>20, <1>21, <1>22

----------------------------------------------------------------------------
(* Tables: finite, with rows of one shape, whatever is applied              *)

Rows(table, fields) == \A i \in DOMAIN table : DOMAIN table[i] = fields
Tables(x) ==
  /\ DOMAIN x = Fields
  /\ \A f \in {"servers", "growth", "conns", "capacity", "backups", "rules"} :
       IsFiniteSet(DOMAIN x[f])
  /\ Rows(x.servers, ServerFields) /\ Rows(x.backups, BackupFields)

LEMMA PutDomain ==
    ASSUME NEW table, NEW k, NEW v
    PROVE  /\ DOMAIN Put(table, k, v) = DOMAIN table \cup {k}
           /\ Put(table, k, v)[k] = v
           /\ \A i \in DOMAIN table \ {k} : Put(table, k, v)[i] = table[i]
  BY DEF Put

LEMMA DropDomain ==
    ASSUME NEW table, NEW K
    PROVE  /\ DOMAIN Drop(table, K) = DOMAIN table \ K
           /\ \A i \in DOMAIN table \ K : Drop(table, K)[i] = table[i]
  BY DEF Drop

\* What a table's domain becomes: it is kept, gains a row or loses some.
Extends(b, a) == b \subseteq a \/ \E k : b = a \cup {k}

LEMMA ExtendsBy ==
    ASSUME NEW a
    PROVE  /\ Extends(a, a)
           /\ \A k : Extends(a \cup {k}, a)
           /\ \A K : Extends(a \ K, a)
           /\ \A b : b \subseteq a => Extends(b, a)
  BY DEF Extends

LEMMA ExtendsFinite ==
    ASSUME NEW a, NEW b, IsFiniteSet(a), Extends(b, a)
    PROVE  IsFiniteSet(b)
<1>1. CASE b \subseteq a
  BY <1>1, FS_Subset
<1>2. CASE \E k : b = a \cup {k}
  BY <1>2, FS_AddElement
<1> QED
  BY <1>1, <1>2 DEF Extends

LEMMA PruneDomain ==
    ASSUME NEW x, DOMAIN x = Fields, NEW at
    PROVE  DOMAIN Prune(x, at).capacity \subseteq DOMAIN x.capacity
<1>1. CASE at < x.indexed
  BY <1>1 DEF Prune
<1>2. CASE ~(at < x.indexed)
  <2>1. Prune(x, at).capacity = Drop(x.capacity, {r \in DOMAIN x.capacity : x.capacity[r].until <= at})
    BY <1>2 DEF Prune, Fields
  <2> DEFINE gone == {r \in DOMAIN x.capacity : x.capacity[r].until <= at}
  <2>2. Prune(x, at).capacity = Drop(x.capacity, gone)
    BY <2>1
  <2> HIDE DEF gone
  <2>3. DOMAIN Drop(x.capacity, gone) = DOMAIN x.capacity \ gone
    BY DropDomain
  <2> QED
    BY <2>2, <2>3
<1> QED
  BY <1>1, <1>2

LEMMA TableExtends ==
    /\ \A table : Extends(DOMAIN table, DOMAIN table)
    /\ \A table, k, v : Extends(DOMAIN Put(table, k, v), DOMAIN table)
    /\ \A table, K : Extends(DOMAIN Drop(table, K), DOMAIN table)
    /\ \A table, k, v : Extends(DOMAIN [table EXCEPT ![k] = v], DOMAIN table)
<1>1. \A table, k, v : Extends(DOMAIN Put(table, k, v), DOMAIN table)
  BY DEF Put, Extends
<1>2. \A table, K : Extends(DOMAIN Drop(table, K), DOMAIN table)
  BY DEF Drop, Extends
<1> QED
  BY <1>1, <1>2, ExtendsBy

LEMMA DomainsExtend ==
    ASSUME NEW x, DOMAIN x = Fields, NEW e, NEW t \in Handled(x, e)
    PROVE  /\ Extends(DOMAIN t.servers, DOMAIN x.servers)
           /\ Extends(DOMAIN t.growth, DOMAIN x.growth)
           /\ Extends(DOMAIN t.conns, DOMAIN x.conns)
           /\ Extends(DOMAIN t.capacity, DOMAIN x.capacity)
           /\ Extends(DOMAIN t.backups, DOMAIN x.backups)
           /\ Extends(DOMAIN t.rules, DOMAIN x.rules)
<1>1. Extends(DOMAIN t.servers, DOMAIN x.servers)
  <2>1. CASE e.type = "InfrastructureCostAccrued"
    <3>1. t.servers = InfrastructureCostAccruedServers(x, e)
      BY <2>1, InfrastructureCostAccruedEffect
    <3> QED
      BY <3>1, TableExtends DEF InfrastructureCostAccruedServers
  <2>2. CASE e.type = "ServerProvisioningStarted"
    <3>1. t.servers = ServerProvisioningStartedServers(x, e)
      BY <2>2, ServerProvisioningStartedEffect
    <3> QED
      BY <3>1, TableExtends DEF ServerProvisioningStartedServers
  <2>3. CASE e.type = "ServerActivated"
    <3>1. t.servers = ServerActivatedServers(x, e)
      BY <2>3, ServerActivatedEffect
    <3> QED
      BY <3>1, TableExtends DEF ServerActivatedServers
  <2>4. CASE e.type = "ServerDrainingStarted"
    <3>1. t.servers = ServerDrainingStartedServers(x, e)
      BY <2>4, ServerDrainingStartedEffect
    <3> QED
      BY <3>1, TableExtends DEF ServerDrainingStartedServers
  <2>5. CASE e.type = "ServerRemoved"
    <3>1. t.servers = ServerRemovedServers(x, e)
      BY <2>5, ServerRemovedEffect
    <3> QED
      BY <3>1, TableExtends DEF ServerRemovedServers
  <2>6. CASE e.type = "DiskLogsCleaned"
    <3>1. t.servers = DiskLogsCleanedServers(x, e)
      BY <2>6, DiskLogsCleanedEffect
    <3> QED
      BY <3>1, TableExtends DEF DiskLogsCleanedServers
  <2>7. CASE e.type = "DiskLogsIncreased"
    <3>1. t.servers = DiskLogsIncreasedServers(x, e)
      BY <2>7, DiskLogsIncreasedEffect
    <3> QED
      BY <3>1, TableExtends DEF DiskLogsIncreasedServers
  <2>8. CASE t.servers = x.servers
    BY <2>8, ExtendsBy
  <2> QED
    BY <2>1, <2>2, <2>3, <2>4, <2>5, <2>6, <2>7, <2>8, ChangedBy
<1>2. Extends(DOMAIN t.growth, DOMAIN x.growth)
  <2>1. CASE e.type = "ServerRemoved"
    <3>1. t.growth = ServerRemovedGrowth(x, e)
      BY <2>1, ServerRemovedEffect
    <3> QED
      BY <3>1, TableExtends DEF ServerRemovedGrowth
  <2>2. CASE e.type = "DatabaseDeleted"
    <3>1. t.growth = DatabaseDeletedGrowth(x, e)
      BY <2>2, DatabaseDeletedEffect
    <3> QED
      BY <3>1, TableExtends DEF DatabaseDeletedGrowth
  <2>3. CASE e.type = "DatabaseGrowthRequested"
    <3>1. t.growth = DatabaseGrowthRequestedGrowth(x, e)
      BY <2>3, DatabaseGrowthRequestedEffect
    <3> QED
      BY <3>1, TableExtends DEF DatabaseGrowthRequestedGrowth
  <2>4. CASE e.type = "DatabaseStorageIncreased"
    <3>1. t.growth = DatabaseStorageIncreasedGrowth(x, e)
      BY <2>4, DatabaseStorageIncreasedEffect
    <3> QED
      BY <3>1, TableExtends DEF DatabaseStorageIncreasedGrowth
  <2>5. CASE e.type = "DatabaseGrowthBlocked"
    <3>1. t.growth = DatabaseGrowthBlockedGrowth(x, e)
      BY <2>5, DatabaseGrowthBlockedEffect
    <3> QED
      BY <3>1, TableExtends DEF DatabaseGrowthBlockedGrowth
  <2>6. CASE t.growth = x.growth
    BY <2>6, ExtendsBy
  <2> QED
    BY <2>1, <2>2, <2>3, <2>4, <2>5, <2>6, ChangedBy
<1>3. Extends(DOMAIN t.conns, DOMAIN x.conns)
  <2>1. CASE e.type = "DatabaseConnectionOpened"
    <3>1. t.conns = DatabaseConnectionOpenedConns(x, e)
      BY <2>1, DatabaseConnectionOpenedEffect
    <3> QED
      BY <3>1, TableExtends DEF DatabaseConnectionOpenedConns
  <2>2. CASE e.type = "DatabaseConnectionReleased"
    <3>1. t.conns = DatabaseConnectionReleasedConns(x, e)
      BY <2>2, DatabaseConnectionReleasedEffect
    <3> QED
      BY <3>1, TableExtends DEF DatabaseConnectionReleasedConns
  <2>3. CASE t.conns = x.conns
    BY <2>3, ExtendsBy
  <2> QED
    BY <2>1, <2>2, <2>3, ChangedBy
<1>4. Extends(DOMAIN t.capacity, DOMAIN x.capacity)
  <2>1. CASE e.type = "TimeAdvanced"
    <3>1. t.capacity = Prune(x, e.from).capacity
      BY <2>1, TimeAdvancedEffect
    <3> QED
      BY <3>1, PruneDomain, ExtendsBy
  <2>2. CASE e.type = "PageRequestStarted"
    <3>1. t.capacity = Prune(x, e.at).capacity
      BY <2>2, PageRequestStartedEffect
    <3> QED
      BY <3>1, PruneDomain, ExtendsBy
  <2>3. CASE e.type = "PageRequestAccepted"
    <3>1. t.capacity = PageRequestAcceptedCapacity(x, e)
      BY <2>3, PageRequestAcceptedEffect
    <3> QED
      BY <3>1, TableExtends DEF PageRequestAcceptedCapacity
  <2>4. CASE e.type = "VisitorArrived"
    <3>1. t.capacity = Prune(x, e.at).capacity
      BY <2>4, VisitorArrivedEffect
    <3> QED
      BY <3>1, PruneDomain, ExtendsBy
  <2>5. CASE t.capacity = x.capacity
    BY <2>5, ExtendsBy
  <2> QED
    BY <2>1, <2>2, <2>3, <2>4, <2>5, ChangedBy
<1>5. Extends(DOMAIN t.backups, DOMAIN x.backups)
  <2>1. CASE e.type = "BackupStorageCostAccrued"
    <3>1. t.backups = BackupStorageCostAccruedBackups(x, e)
      BY <2>1, BackupStorageCostAccruedEffect
    <3> QED
      BY <3>1, TableExtends DEF BackupStorageCostAccruedBackups
  <2>2. CASE e.type = "DatabaseBackupStarted"
    <3>1. t.backups = DatabaseBackupStartedBackups(x, e)
      BY <2>2, DatabaseBackupStartedEffect
    <3> QED
      BY <3>1, TableExtends DEF DatabaseBackupStartedBackups
  <2>3. CASE e.type = "DatabaseBackupCompleted"
    <3>1. t.backups = DatabaseBackupCompletedBackups(x, e)
      BY <2>3, DatabaseBackupCompletedEffect
    <3> QED
      BY <3>1, TableExtends DEF DatabaseBackupCompletedBackups
  <2>4. CASE t.backups = x.backups
    BY <2>4, ExtendsBy
  <2> QED
    BY <2>1, <2>2, <2>3, <2>4, ChangedBy
<1>6. Extends(DOMAIN t.rules, DOMAIN x.rules)
  <2>1. CASE e.type = "FirewallRuleUpserted"
    <3>1. t.rules = FirewallRuleUpsertedRules(x, e)
      BY <2>1, FirewallRuleUpsertedEffect
    <3> QED
      BY <3>1, TableExtends DEF FirewallRuleUpsertedRules
  <2>2. CASE e.type = "FirewallRuleDeleted"
    <3>1. t.rules = FirewallRuleDeletedRules(x, e)
      BY <2>2, FirewallRuleDeletedEffect
    <3> QED
      BY <3>1, TableExtends DEF FirewallRuleDeletedRules
  <2>3. CASE t.rules = x.rules
    BY <2>3, ExtendsBy
  <2> QED
    BY <2>1, <2>2, <2>3, ChangedBy
<1> QED
  BY <1>1, <1>2, <1>3, <1>4, <1>5, <1>6

LEMMA RowsKept ==
    ASSUME NEW x, DOMAIN x = Fields, NEW e, NEW t \in Handled(x, e)
    PROVE  /\ Rows(x.servers, ServerFields) => Rows(t.servers, ServerFields)
           /\ Rows(x.backups, BackupFields) => Rows(t.backups, BackupFields)
<1>1. ASSUME Rows(x.servers, ServerFields)
      PROVE  Rows(t.servers, ServerFields)
  <2>1. CASE e.type = "InfrastructureCostAccrued"
    <3>1. t.servers = InfrastructureCostAccruedServers(x, e)
      BY <2>1, InfrastructureCostAccruedEffect
    <3> QED
      BY <1>1, <3>1 DEF Rows, Put, Drop, ServerFields, InfrastructureCostAccruedServers
  <2>2. CASE e.type = "ServerProvisioningStarted"
    <3>1. t.servers = ServerProvisioningStartedServers(x, e)
      BY <2>2, ServerProvisioningStartedEffect
    <3> QED
      BY <1>1, <3>1 DEF Rows, Put, Drop, ServerFields, ServerProvisioningStartedServers
  <2>3. CASE e.type = "ServerActivated"
    <3>1. t.servers = ServerActivatedServers(x, e)
      BY <2>3, ServerActivatedEffect
    <3> QED
      BY <1>1, <3>1 DEF Rows, Put, Drop, ServerFields, ServerActivatedServers
  <2>4. CASE e.type = "ServerDrainingStarted"
    <3>1. t.servers = ServerDrainingStartedServers(x, e)
      BY <2>4, ServerDrainingStartedEffect
    <3> QED
      BY <1>1, <3>1 DEF Rows, Put, Drop, ServerFields, ServerDrainingStartedServers
  <2>5. CASE e.type = "ServerRemoved"
    <3>1. t.servers = ServerRemovedServers(x, e)
      BY <2>5, ServerRemovedEffect
    <3> QED
      BY <1>1, <3>1 DEF Rows, Put, Drop, ServerFields, ServerRemovedServers
  <2>6. CASE e.type = "DiskLogsCleaned"
    <3>1. t.servers = DiskLogsCleanedServers(x, e)
      BY <2>6, DiskLogsCleanedEffect
    <3> QED
      BY <1>1, <3>1 DEF Rows, Put, Drop, ServerFields, DiskLogsCleanedServers
  <2>7. CASE e.type = "DiskLogsIncreased"
    <3>1. t.servers = DiskLogsIncreasedServers(x, e)
      BY <2>7, DiskLogsIncreasedEffect
    <3> QED
      BY <1>1, <3>1 DEF Rows, Put, Drop, ServerFields, DiskLogsIncreasedServers
  <2> QED
    BY <1>1, <2>1, <2>2, <2>3, <2>4, <2>5, <2>6, <2>7, ChangedBy
<1>2. ASSUME Rows(x.backups, BackupFields)
      PROVE  Rows(t.backups, BackupFields)
  <2>1. CASE e.type = "BackupStorageCostAccrued"
    <3>1. t.backups = BackupStorageCostAccruedBackups(x, e)
      BY <2>1, BackupStorageCostAccruedEffect
    <3> QED
      BY <1>2, <3>1 DEF Rows, Put, Drop, BackupFields, BackupStorageCostAccruedBackups
  <2>2. CASE e.type = "DatabaseBackupStarted"
    <3>1. t.backups = DatabaseBackupStartedBackups(x, e)
      BY <2>2, DatabaseBackupStartedEffect
    <3> QED
      BY <1>2, <3>1 DEF Rows, Put, Drop, BackupFields, DatabaseBackupStartedBackups
  <2>3. CASE e.type = "DatabaseBackupCompleted"
    <3>1. t.backups = DatabaseBackupCompletedBackups(x, e)
      BY <2>3, DatabaseBackupCompletedEffect
    <3> QED
      BY <1>2, <3>1 DEF Rows, Put, Drop, BackupFields, DatabaseBackupCompletedBackups
  <2> QED
    BY <1>2, <2>1, <2>2, <2>3, ChangedBy
<1> QED
  BY <1>1, <1>2

LEMMA TablesKept ==
    ASSUME NEW x, Tables(x), NEW e
    PROVE  Tables(Apply(x, e))
<1>1. DOMAIN x = Fields
  BY DEF Tables
<1>2. CASE x.refused \/ Handled(x, e) = {}
  <2>1. Apply(x, e) = Refuse(x)
    BY <1>2 DEF Apply, Handled, Outcome
  <2>2. DOMAIN Refuse(x) = Fields /\ \A f \in Fields \ {"refused"} : Refuse(x)[f] = x[f]
    BY <1>1 DEF Refuse
  <2> QED
    BY <2>1, <2>2 DEF Tables, Fields
<1>3. CASE ~x.refused /\ Handled(x, e) # {}
  <2>1. PICK t \in Handled(x, e) : TRUE
    BY <1>3
  <2>2. Apply(x, e) = t
    BY <1>3, <2>1, ApplyGives
  <2>3. Rows(t.servers, ServerFields) /\ Rows(t.backups, BackupFields)
    BY <1>1, <2>1, RowsKept DEF Tables
  <2>4. /\ IsFiniteSet(DOMAIN t.servers) /\ IsFiniteSet(DOMAIN t.growth)
        /\ IsFiniteSet(DOMAIN t.conns) /\ IsFiniteSet(DOMAIN t.capacity)
        /\ IsFiniteSet(DOMAIN t.backups) /\ IsFiniteSet(DOMAIN t.rules)
    <3>1. /\ IsFiniteSet(DOMAIN x.servers) /\ IsFiniteSet(DOMAIN x.growth)
          /\ IsFiniteSet(DOMAIN x.conns) /\ IsFiniteSet(DOMAIN x.capacity)
          /\ IsFiniteSet(DOMAIN x.backups) /\ IsFiniteSet(DOMAIN x.rules)
      BY DEF Tables
    <3> QED
      BY <1>1, <2>1, <3>1, DomainsExtend, ExtendsFinite
  <2>5. DOMAIN t = Fields
    BY <1>1, <2>2, ApplyShape
  <2> QED
    BY <2>2, <2>3, <2>4, <2>5 DEF Tables
<1> QED
  BY <1>2, <1>3

LEMMA TablesKeptAll ==
    ASSUME NEW x, Tables(x), NEW es, Listed(es)
    PROVE  Tables(ApplyAll(x, es))
<1>1. PICK g : Follows(g, x, es)
  BY ApplyAllFollows
<1>2. Len(es) \in Nat
  BY ListedDomain
<1> DEFINE T == {k \in Nat : k <= Len(es) => Tables(g[k])}
<1>3. 0 \in T
  BY <1>1 DEF Follows
<1>4. ASSUME NEW k \in Nat, k \in T
      PROVE  k + 1 \in T
  <2> SUFFICES ASSUME k + 1 <= Len(es)
               PROVE  Tables(g[k + 1])
    OBVIOUS
  <2>1. Tables(g[k]) /\ k + 1 \in 1..Len(es) /\ (k + 1) - 1 = k
    BY <1>2, <1>4
  <2>2. g[k + 1] = Apply(g[k], es[k + 1])
    BY <1>1, <2>1 DEF Follows
  <2>3. Tables(Apply(g[k], es[k + 1]))
    BY <2>1, TablesKept
  <2> QED
    BY <2>2, <2>3
<1>5. Len(es) \in T
  <2> HIDE DEF T
  <2> QED
    BY <1>2, <1>3, <1>4, Events!SetInduction
<1> QED
  BY <1>1, <1>2, <1>5 DEF Follows

----------------------------------------------------------------------------
(* Drafts                                                                   *)

\* Whether each of es is an event of a draft at now that the journal, whose
\* clock stands at T already, accepts as late.
Fits(es, now, T) ==
  \A i \in 1..Len(es) :
    /\ es[i].type \in AlikeTypes
    /\ now = T \/ (es[i].type \in FactTypes /\ es[i].at <= T)

LEMMA AlikeAll ==
    ASSUME NEW x, NEW y, Alike(x, y), NEW es, Listed(es), Fits(es, x.now, y.now),
           ~ApplyAll(x, es).refused
    PROVE  Alike(ApplyAll(x, es), ApplyAll(y, es))
<1>1. PICK g : Follows(g, x, es)
  BY ApplyAllFollows
<1>2. PICK h : Follows(h, y, es)
  BY ApplyAllFollows
<1>3. Len(es) \in Nat
  BY ListedDomain
<1>4. /\ g[0] = x /\ (\A i \in 1..Len(es) : g[i] = Apply(g[i - 1], es[i]))
      /\ ApplyAll(x, es) = g[Len(es)]
  BY <1>1 DEF Follows
<1>5. /\ h[0] = y /\ (\A i \in 1..Len(es) : h[i] = Apply(h[i - 1], es[i]))
      /\ ApplyAll(y, es) = h[Len(es)]
  BY <1>2 DEF Follows
<1>6. \A i \in 1..Len(es) : es[i].type \in AlikeTypes
  BY DEF Fits
<1>7. DOMAIN x = Fields /\ DOMAIN y = Fields
  BY DEF Alike
<1> DEFINE Good(k) == /\ DOMAIN g[k] = Fields /\ DOMAIN h[k] = Fields
                      /\ ~g[k].refused => Alike(g[k], h[k])
                      /\ g[k].now = x.now /\ h[k].now = y.now
           T == {k \in Nat : k <= Len(es) => Good(k)}
<1>8. 0 \in T
  BY <1>4, <1>5, <1>7
<1>9. ASSUME NEW k \in Nat, k \in T
      PROVE  k + 1 \in T
  <2> SUFFICES ASSUME k + 1 <= Len(es)
               PROVE  Good(k + 1)
    OBVIOUS
  <2>1. Good(k)
    BY <1>3, <1>9
  <2>2. k + 1 \in 1..Len(es) /\ (k + 1) - 1 = k
    BY <1>3
  <2>3. g[k + 1] = Apply(g[k], es[k + 1]) /\ h[k + 1] = Apply(h[k], es[k + 1])
    BY <1>4, <1>5, <2>2
  <2>4. es[k + 1].type \in AlikeTypes /\ es[k + 1].type # "TimeAdvanced"
    BY <1>6, <2>2 DEF AlikeTypes
  <2>5. DOMAIN Apply(g[k], es[k + 1]) = Fields /\ Apply(g[k], es[k + 1]).now = x.now
    BY <2>1, <2>4, ApplyShape
  <2>6. DOMAIN Apply(h[k], es[k + 1]) = Fields /\ Apply(h[k], es[k + 1]).now = y.now
    BY <2>1, <2>4, ApplyShape
  <2>7. ASSUME ~Apply(g[k], es[k + 1]).refused
        PROVE  Alike(Apply(g[k], es[k + 1]), Apply(h[k], es[k + 1]))
    <3>1. ~g[k].refused
      BY <2>1, <2>7, Accepted
    <3>2. Alike(g[k], h[k])
      BY <2>1, <3>1
    <3>3. TimeFits(es[k + 1], g[k], h[k])
      BY <2>1, <2>2 DEF TimeFits, Fits
    <3> QED
      BY <2>4, <2>7, <3>2, <3>3, AlikeApply
  <2> QED
    BY <2>3, <2>5, <2>6, <2>7
<1>10. Len(es) \in T
  <2> HIDE DEF T
  <2> QED
    BY <1>3, <1>8, <1>9, Events!SetInduction
<1>11. Good(Len(es))
  BY <1>3, <1>10
<1> QED
  BY <1>4, <1>5, <1>11

Draftlike(w) ==
  /\ w = [f \in DOMAIN w |-> w[f]] /\ {"st", "out"} \subseteq DOMAIN w
  /\ Tables(w.st) /\ Listed(w.out)

LEMMA EmitFields ==
    ASSUME NEW w, Draftlike(w), NEW es, Listed(es)
    PROVE  /\ Emit(w, es).st = ApplyAll(w.st, es) /\ Emit(w, es).out = w.out \o es
           /\ DOMAIN Emit(w, es) = DOMAIN w
           /\ \A f \in DOMAIN w \ {"st", "out"} : Emit(w, es)[f] = w[f]
           /\ Draftlike(Emit(w, es))
           /\ w.st.refused => Emit(w, es).st.refused
<1>1. /\ Emit(w, es).st = ApplyAll(w.st, es) /\ Emit(w, es).out = w.out \o es
      /\ DOMAIN Emit(w, es) = DOMAIN w
      /\ \A f \in DOMAIN w \ {"st", "out"} : Emit(w, es)[f] = w[f]
  BY DEF Emit, Draftlike
<1>2. Tables(ApplyAll(w.st, es))
  BY TablesKeptAll DEF Draftlike
<1>3. Listed(w.out \o es)
  BY ListedAppend DEF Draftlike
<1>6. Emit(w, es) = [f \in DOMAIN Emit(w, es) |-> Emit(w, es)[f]]
  BY DEF Emit, Draftlike
<1>4. Draftlike(Emit(w, es))
  BY <1>1, <1>2, <1>3, <1>6 DEF Draftlike
<1>5. w.st.refused => ApplyAll(w.st, es).refused
  BY ShapeKept DEF Draftlike, Tables
<1> QED
  BY <1>1, <1>4, <1>5

\* Emitting two lists is emitting one after the other.
LEMMA ConcatAssociates ==
    ASSUME NEW p, NEW q, NEW r, Listed(p), Listed(q), Listed(r)
    PROVE  (p \o q) \o r = p \o (q \o r)
<1>1. PICK S1, S2, S3 : p \in Seq(S1) /\ q \in Seq(S2) /\ r \in Seq(S3)
  BY DEF Listed
<1> DEFINE S == S1 \cup S2 \cup S3
<1>2. p \in Seq(S) /\ q \in Seq(S) /\ r \in Seq(S)
  BY <1>1, SeqMonotonic
<1> HIDE DEF S
<1> QED
  BY <1>2, ConcatAssociative

LEMMA EmitAppend ==
    ASSUME NEW w, Draftlike(w), NEW p, NEW q, Listed(p), Listed(q)
    PROVE  Emit(w, p \o q) = Emit(Emit(w, p), q)
<1>1. ApplyAll(w.st, p \o q) = ApplyAll(ApplyAll(w.st, p), q)
  BY ApplyAllAppend
<1>2. w.out \o (p \o q) = (w.out \o p) \o q
  BY ConcatAssociates DEF Draftlike
<1> QED
  BY <1>1, <1>2 DEF Emit, Draftlike

LEMMA EmitNone ==
    ASSUME NEW w, Draftlike(w)
    PROVE  Emit(w, <<>>) = w
<1>1. ApplyAll(w.st, <<>>) = w.st
  BY ApplyAllNone
<1>2. w.out \o <<>> = w.out
  <2>1. PICK S : w.out \in Seq(S)
    BY DEF Draftlike, Listed
  <2> QED
    BY <2>1, ConcatEmptySeq
<1>3. [w EXCEPT !.st = w.st, !.out = w.out] = w
  <2>1. w = [f \in DOMAIN w |-> w[f]]
    BY DEF Draftlike
  <2> QED
    BY <2>1
<1> QED
  BY <1>1, <1>2, <1>3 DEF Emit

----------------------------------------------------------------------------
(* What the allocations of a backend take                                   *)

OnServer(table, i) == {r \in DOMAIN table : table[r].server = i}

\* The facts about finite sets that come with FoldSteps speak of the same ones.
LEMMA SameSizes ==
    \A S : /\ Events!Cardinality(S) = Cardinality(S)
           /\ Events!IsFiniteSet(S) <=> IsFiniteSet(S)
<1>1. \A S : Events!Cardinality(S) = Cardinality(S)
  BY DEF Cardinality, Events!Cardinality
<1>2. \A S : Events!IsFiniteSet(S) <=> IsFiniteSet(S)
  BY DEF IsFiniteSet, Events!IsFiniteSet
<1> QED
  BY <1>1, <1>2

LEMMA LoadIsTotal ==
    ASSUME NEW table, NEW S
    PROVE  LoadOf(table, S) = Events!Total(table, S)
  BY DEF LoadOf, SumOver, Events!Total, LoadIn, FoldSet, MapThenFoldSet,
         Events!MapThenFoldSet

\* What is known of the loads of a finite part of a table.
LEMMA LoadParts ==
    ASSUME NEW table, NEW U, IsFiniteSet(U), \A r \in U : table[r].load \in Nat
    PROVE  /\ LoadOf(table, {}) = 0
           /\ \A A \in SUBSET U : LoadOf(table, A) \in Nat
           /\ \A A \in SUBSET U : LoadOf(table, U) = LoadOf(table, A) + LoadOf(table, U \ A)
           /\ \A r \in U : LoadOf(table, U) = LoadOf(table, U \ {r}) + table[r].load
           /\ \A r \in U : table[r].load <= LoadOf(table, U)
<1>1. \A r \in U : LoadIn(table, r) \in Int /\ LoadIn(table, r) \in Nat
  BY DEF LoadIn
<1>2. Events!Total(table, {}) = 0
  BY <1>1, SameSizes, Events!TotalOfParts
<1>3. ASSUME NEW A \in SUBSET U
      PROVE  Events!Total(table, A) \in Nat
  <2>1. IsFiniteSet(A)
    BY FS_Subset
  <2> QED
    BY <1>1, <2>1, SameSizes, Events!TotalOfNaturals
<1>4. ASSUME NEW A \in SUBSET U
      PROVE  Events!Total(table, U) = Events!Total(table, A) + Events!Total(table, U \ A)
  BY <1>1, SameSizes, Events!TotalSplit
<1>5. \A r \in U : /\ Events!Total(table, U) = Events!Total(table, U \ {r}) + LoadIn(table, r)
                   /\ LoadIn(table, r) <= Events!Total(table, U)
  <2>1. U \in SUBSET U
    OBVIOUS
  <2>2. \A r \in U : Events!Total(table, U) = Events!Total(table, U \ {r}) + LoadIn(table, r)
    BY <1>1, <2>1, SameSizes, Events!TotalOfParts
  <2>3. \A r \in U : LoadIn(table, r) <= Events!Total(table, U)
    BY <1>1, SameSizes, Events!TotalOfNaturals
  <2> QED
    BY <2>2, <2>3
<1> QED
  BY <1>2, <1>3, <1>4, <1>5, LoadIsTotal DEF LoadIn

LEMMA LoadSame ==
    ASSUME NEW a, NEW b, NEW U, IsFiniteSet(U),
           \A r \in U : a[r].load \in Nat /\ a[r].load = b[r].load
    PROVE  LoadOf(a, U) = LoadOf(b, U)
<1>1. \A r \in U : LoadIn(a, r) \in Int /\ LoadIn(a, r) = LoadIn(b, r)
  BY DEF LoadIn
<1>2. Events!Total(a, U) = Events!Total(b, U)
  BY <1>1, SameSizes, Events!TotalSame
<1> QED
  BY <1>2, LoadIsTotal

\* The capacity index of x, whose clock stands at T or will: it lists what was
\* not over when it was last pruned, counts exactly what it lists, and no
\* backend carries more than it can.  A backend that serves exists.
Allocation(x, r) ==
  /\ x.capacity[r].server \in Servers
  /\ x.capacity[r].load \in Nat \ {0}
  /\ x.capacity[r].until \in Int
  /\ x.indexed < x.capacity[r].until
Index(T, x) ==
  /\ x.indexed \in Int /\ x.indexed <= T
  /\ IsFiniteSet(DOMAIN x.capacity)
  /\ \A r \in DOMAIN x.capacity :
       /\ Allocation(x, r)
       /\ T < x.capacity[r].until => x.capacity[r].server \in DOMAIN x.servers
  /\ x.used = [i \in Servers |-> LoadOf(x.capacity, OnServer(x.capacity, i))]
  /\ \A i \in Servers : x.used[i] <= Catalog[i].capacity

\* What the index says is used at a moment it is current for, or past.
LEMMA UsedNow ==
    ASSUME NEW T, NEW x, Index(T, x), NEW i \in Servers, NEW at \in Int, at <= x.indexed
    PROVE  UsedCapacity(x, i, at) = x.used[i] /\ x.used[i] \in Nat
<1>1. x.used[i] = LoadOf(x.capacity, OnServer(x.capacity, i))
  BY DEF Index
<1>2. \A r \in DOMAIN x.capacity : x.capacity[r].load \in Nat
  BY DEF Index, Allocation
<1>3. OnServer(x.capacity, i) \subseteq DOMAIN x.capacity /\ IsFiniteSet(DOMAIN x.capacity)
  BY DEF OnServer, Index
<1>4. LoadOf(x.capacity, OnServer(x.capacity, i)) \in Nat
  BY <1>2, <1>3, LoadParts
<1>5. {r \in DOMAIN x.capacity : x.capacity[r].server = i /\ x.capacity[r].until > at}
        = OnServer(x.capacity, i)
  BY DEF Index, Allocation, OnServer
<1> QED
  BY <1>1, <1>4, <1>5 DEF UsedCapacity

\* A server without load holds nothing that is still live.
LEMMA NoLoadNothingLive ==
    ASSUME NEW T \in Int, NEW x, Index(T, x), NEW i \in Servers, ~HasLoad(x, i, T)
    PROVE  \A r \in DOMAIN x.capacity : x.capacity[r].until > T => x.capacity[r].server # i
<1> DEFINE live == {r \in DOMAIN x.capacity : x.capacity[r].server = i /\ x.capacity[r].until > T}
<1>1. \A r \in DOMAIN x.capacity : x.capacity[r].load \in Nat /\ x.capacity[r].load > 0
  BY DEF Index, Allocation
<1>2. IsFiniteSet(DOMAIN x.capacity)
  BY DEF Index
<1>3. IsFiniteSet(live)
  BY <1>2, FS_Subset
<1>4. UsedCapacity(x, i, T) = LoadOf(x.capacity, live)
  <2>1. CASE x.indexed = T
    <3>1. live = OnServer(x.capacity, i)
      BY <2>1 DEF OnServer, Index, Allocation
    <3>2. x.used[i] = LoadOf(x.capacity, OnServer(x.capacity, i))
      BY DEF Index
    <3> HIDE DEF live
    <3> QED
      BY <2>1, <3>1, <3>2 DEF UsedCapacity
  <2>2. CASE x.indexed # T
    BY <2>2 DEF UsedCapacity
  <2> QED
    BY <2>1, <2>2
<1>5. ASSUME NEW r \in live
      PROVE  FALSE
  <2>1. r \in DOMAIN x.capacity
    OBVIOUS
  <2>2. \A q \in live : x.capacity[q].load \in Nat
    BY <1>1
  <2> HIDE DEF live
  <2>3. x.capacity[r].load <= LoadOf(x.capacity, live)
    BY <1>3, <1>5, <2>2, LoadParts
  <2>4. LoadOf(x.capacity, live) \in Nat
    BY <1>3, <2>2, LoadParts
  <2>5. x.capacity[r].load > 0 /\ x.capacity[r].load \in Nat
    BY <1>1, <2>1
  <2> QED
    BY <1>4, <2>3, <2>4, <2>5 DEF HasLoad
<1> QED
  BY <1>5

\* pruneExpiredCapacity keeps the index what it is.
LEMMA PruneIndexed ==
    ASSUME NEW T \in Int, NEW x, DOMAIN x = Fields, Index(T, x), NEW at \in Int, at <= T
    PROVE  Index(T, Prune(x, at)) /\ (at <= Prune(x, at).indexed)
           /\ (x.indexed <= at => Prune(x, at).indexed = at)
<1> DEFINE p == Prune(x, at)
           gone == {r \in DOMAIN x.capacity : x.capacity[r].until <= at}
           left == Drop(x.capacity, gone)
<1>1. CASE at < x.indexed
  <2>1. p = x
    BY <1>1 DEF Prune
  <2> QED
    BY <1>1, <2>1 DEF Index
<1>2. CASE ~(at < x.indexed)
  <2>1. /\ p.capacity = left /\ p.indexed = at /\ p.servers = x.servers
        /\ p.used = [i \in Servers |->
                       x.used[i] - LoadOf(x.capacity, {r \in gone : x.capacity[r].server = i})]
    BY <1>2 DEF Prune, Fields
  <2>2. DOMAIN left = DOMAIN x.capacity \ gone
        /\ \A r \in DOMAIN x.capacity \ gone : left[r] = x.capacity[r]
    <3> HIDE DEF gone
    <3> QED
      BY DropDomain
  <2>3. IsFiniteSet(DOMAIN left)
    BY <2>2, FS_Subset DEF Index
  <2>4. \A r \in DOMAIN left :
          Allocation(p, r) /\ (T < p.capacity[r].until => p.capacity[r].server \in DOMAIN p.servers)
    <3>1. \A r \in DOMAIN left : r \in DOMAIN x.capacity /\ ~(x.capacity[r].until <= at)
      BY <2>2
    <3> HIDE DEF left, p
    <3> QED
      BY <2>1, <2>2, <3>1 DEF Index, Allocation
  <2>5. ASSUME NEW i \in Servers
        PROVE  /\ x.used[i] - LoadOf(x.capacity, {r \in gone : x.capacity[r].server = i})
                    = LoadOf(left, OnServer(left, i))
               /\ p.used[i] <= x.used[i]
               /\ x.used[i] \in Int /\ p.used[i] \in Int
    <3> DEFINE U == OnServer(x.capacity, i)
               A == {r \in gone : x.capacity[r].server = i}
    <3>1. \A r \in U : x.capacity[r].load \in Nat
      BY DEF OnServer, Index, Allocation
    <3>2. IsFiniteSet(U) /\ A \subseteq U
      BY FS_Subset DEF OnServer, Index
    <3>3. x.used[i] = LoadOf(x.capacity, U)
      BY DEF Index
    <3>4. OnServer(left, i) = U \ A
      BY <2>2 DEF OnServer
    <3>5. \A r \in U \ A : left[r].load = x.capacity[r].load
      BY <2>2 DEF OnServer
    <3>6. p.used[i] = x.used[i] - LoadOf(x.capacity, A)
      BY <2>1
    <3> HIDE DEF U, A, left, gone, p
    <3>7. /\ LoadOf(x.capacity, U) = LoadOf(x.capacity, A) + LoadOf(x.capacity, U \ A)
          /\ LoadOf(x.capacity, U) \in Nat /\ LoadOf(x.capacity, A) \in Nat
          /\ LoadOf(x.capacity, U \ A) \in Nat
      <4>1. U \in SUBSET U /\ A \in SUBSET U /\ U \ A \in SUBSET U
        BY <3>2
      <4>2. IsFiniteSet(U) /\ \A r \in U : x.capacity[r].load \in Nat
        BY <3>1, <3>2
      <4> HIDE <3>1, <3>2
      <4>3. \A B \in SUBSET U : LoadOf(x.capacity, B) \in Nat
        BY <4>2, LoadParts
      <4>4. LoadOf(x.capacity, U) = LoadOf(x.capacity, A) + LoadOf(x.capacity, U \ A)
        BY <4>1, <4>2, LoadParts
      <4> QED
        BY <4>1, <4>3, <4>4
    <3>8. IsFiniteSet(U \ A)
      BY <3>2, FS_Subset
    <3>9. LoadOf(x.capacity, U \ A) = LoadOf(left, U \ A)
      BY <3>1, <3>5, <3>8, LoadSame
    <3> QED
      BY <3>3, <3>4, <3>6, <3>7, <3>9 DEF A
  <2>6. p.used = [i \in Servers |-> LoadOf(left, OnServer(left, i))]
    BY <2>1, <2>5
  <2>7. \A i \in Servers : p.used[i] <= Catalog[i].capacity
    <3>1. \A i \in Servers : Catalog[i].capacity \in Nat
      BY ServersAssumption
    <3>2. \A i \in Servers : x.used[i] <= Catalog[i].capacity
      BY DEF Index
    <3>3. ASSUME NEW i \in Servers
          PROVE  p.used[i] <= Catalog[i].capacity
      <4>1. p.used[i] <= x.used[i] /\ x.used[i] \in Int /\ p.used[i] \in Int
        BY <2>5
      <4> HIDE DEF p
      <4> QED
        BY <3>1, <3>2, <4>1
    <3> QED
      BY <3>3
  <2> HIDE DEF left, p
  <2> QED
    BY <1>2, <2>1, <2>3, <2>4, <2>6, <2>7 DEF Index, p
<1> QED
  BY <1>1, <1>2 DEF Index

----------------------------------------------------------------------------
(* The site and its databases                                               *)

SiteFields == {"status", "db", "op", "since", "down"}
DatabaseFields == {"data", "logs", "version", "ready", "reasons", "from"}

\* An outage opens and closes without touching what the site is.
SameSite(a, b) == /\ DOMAIN a = SiteFields
                  /\ a.status = b.status /\ a.db = b.db /\ a.op = b.op

LEMMA OutageSite ==
    ASSUME NEW x, "site" \in DOMAIN x, DOMAIN x.site = SiteFields, NEW up, NEW at
    PROVE  /\ SameSite(AvailabilityFact(x, up, at).site, x.site)
           /\ SameSite(OpenOutage(x, at).site, x.site)
           /\ SameSite(CloseOutage(x, at).site, x.site)
<1>1. SameSite(OpenOutage(x, at).site, x.site)
  BY DEF OpenOutage, SameSite, SiteFields
<1>2. SameSite(CloseOutage(x, at).site, x.site)
  BY DEF CloseOutage, SameSite, SiteFields
<1> QED
  BY <1>1, <1>2 DEF AvailabilityFact, SameSite

\* What the events of a site make of it.
SiteChange(x, e, t) ==
  /\ DOMAIN t.site = SiteFields
  /\ e.type \notin {"SiteStopStarted", "SiteStopped", "SiteDatabaseChanged", "SiteStarted"}
       => SameSite(t.site, x.site)
  /\ e.type = "SiteStopStarted" =>
       /\ x.site.status = "running" /\ t.site.status = "stopping"
       /\ t.site.db = x.site.db /\ t.site.op = e.op
  /\ e.type = "SiteStopped" =>
       /\ x.site.status = "stopping" /\ t.site.status = "stopped"
       /\ t.site.db = x.site.db /\ t.site.op = x.site.op /\ DOMAIN x.conns = {}
  /\ e.type = "SiteDatabaseChanged" =>
       /\ x.site.status = "stopped" /\ t.site.status = "stopped"
       /\ t.site.db = e.db /\ e.db \in DOMAIN x.dbs /\ t.site.op = x.site.op
  /\ e.type = "SiteStarted" =>
       /\ x.site.status = "stopped" /\ t.site.status = "running"
       /\ t.site.db = x.site.db /\ t.site.op = NoOperation

LEMMA SiteStep ==
    ASSUME NEW x, DOMAIN x = Fields, DOMAIN x.site = SiteFields, NEW e, NEW t \in Handled(x, e)
    PROVE  SiteChange(x, e, t)
<1>1. CASE e.type = "BackendAvailabilityChanged"
  <2> DEFINE y == [x EXCEPT !.backendDown = ~e.up]
  <2>1. t.site = BackendAvailabilityChangedSite(x, e)
    BY <1>1, BackendAvailabilityChangedEffect
  <2>2. "site" \in DOMAIN y /\ y.site = x.site
    BY DEF Fields
  <2>3. t.site = AvailabilityFact(y, e.up, e.at).site
    BY <2>1 DEF BackendAvailabilityChangedSite
  <2> HIDE DEF y
  <2>4. SameSite(t.site, x.site)
    BY <2>2, <2>3, OutageSite DEF SameSite
  <2> QED
    BY <1>1, <2>4 DEF SameSite, SiteChange
<1>2. CASE e.type = "FirewallAvailabilityChanged"
  <2> DEFINE y == [x EXCEPT !.firewallDown = ~e.up]
  <2>1. t.site = FirewallAvailabilityChangedSite(x, e)
    BY <1>2, FirewallAvailabilityChangedEffect
  <2>2. "site" \in DOMAIN y /\ y.site = x.site
    BY DEF Fields
  <2>3. t.site = AvailabilityFact(y, e.up, e.at).site
    BY <2>1 DEF FirewallAvailabilityChangedSite
  <2> HIDE DEF y
  <2>4. SameSite(t.site, x.site)
    BY <2>2, <2>3, OutageSite DEF SameSite
  <2> QED
    BY <1>2, <2>4 DEF SameSite, SiteChange
<1>3. CASE e.type = "DatabaseAvailabilityChanged"
  <2> DEFINE y == [x EXCEPT !.dbs[e.db].reasons = e.reasons]
  <2>1. t.site = DatabaseAvailabilityChangedSite(x, e)
    BY <1>3, DatabaseAvailabilityChangedEffect
  <2>2. "site" \in DOMAIN y /\ y.site = x.site
    BY DEF Fields
  <2>3. t.site = AvailabilityFact(y, e.up, e.at).site \/ t.site = x.site
    BY <2>1 DEF DatabaseAvailabilityChangedSite
  <2> HIDE DEF y
  <2>4. SameSite(t.site, x.site)
    BY <2>2, <2>3, OutageSite DEF SameSite
  <2> QED
    BY <1>3, <2>4 DEF SameSite, SiteChange
<1>4. CASE e.type = "SiteStopStarted"
  <2> DEFINE y == [x EXCEPT !.site.status = "stopping", !.site.op = e.op]
  <2>1. t.site = SiteStopStartedSite(x, e) /\ SiteStopStartedGuard(x, e)
    BY <1>4, SiteStopStartedEffect
  <2>2. /\ "site" \in DOMAIN y /\ DOMAIN y.site = SiteFields /\ y.site.db = x.site.db
        /\ y.site.status = "stopping" /\ y.site.op = e.op
    BY DEF Fields, SiteFields
  <2>3. t.site = OpenOutage(y, e.at).site
    BY <2>1 DEF SiteStopStartedSite
  <2> HIDE DEF y
  <2>4. SameSite(t.site, y.site)
    BY <2>2, <2>3, OutageSite
  <2> QED
    BY <1>4, <2>1, <2>2, <2>4 DEF SameSite, SiteStopStartedGuard, SiteChange
<1>5. CASE e.type = "SiteStarted"
  <2> DEFINE y == [x EXCEPT !.site.status = "running", !.site.op = NoOperation]
  <2>1. t.site = SiteStartedSite(x, e) /\ SiteStartedGuard(x, e)
    BY <1>5, SiteStartedEffect
  <2>2. /\ "site" \in DOMAIN y /\ DOMAIN y.site = SiteFields /\ y.site.db = x.site.db
        /\ y.site.status = "running" /\ y.site.op = NoOperation
    BY DEF Fields, SiteFields
  <2>3. t.site = CloseOutage(y, e.at).site
    BY <2>1 DEF SiteStartedSite
  <2> HIDE DEF y
  <2>4. SameSite(t.site, y.site)
    BY <2>2, <2>3, OutageSite
  <2> QED
    BY <1>5, <2>1, <2>2, <2>4 DEF SameSite, SiteStartedGuard, SiteChange
<1>6. CASE e.type = "SiteStopped"
  <2>1. t.site = SiteStoppedSite(x, e) /\ SiteStoppedGuard(x, e)
    BY <1>6, SiteStoppedEffect
  <2> QED
    BY <1>6, <2>1 DEF SiteStoppedSite, SiteStoppedGuard, SiteFields, SameSite, SiteChange
<1>7. CASE e.type = "SiteDatabaseChanged"
  <2>1. t.site = SiteDatabaseChangedSite(x, e) /\ SiteDatabaseChangedGuard(x, e)
    BY <1>7, SiteDatabaseChangedEffect
  <2> QED
    BY <1>7, <2>1 DEF SiteDatabaseChangedSite, SiteDatabaseChangedGuard, SiteFields, SameSite, SiteChange
<1>8. CASE /\ t.site = x.site
         /\ e.type \notin {"SiteStopStarted", "SiteStopped", "SiteDatabaseChanged", "SiteStarted"}
  BY <1>8 DEF SameSite, SiteChange
<1> QED
  <2>1. \/ t.site = x.site
        \/ e.type \in {"BackendAvailabilityChanged", "FirewallAvailabilityChanged",
                       "DatabaseAvailabilityChanged", "SiteStopStarted", "SiteStopped",
                       "SiteDatabaseChanged", "SiteStarted"}
    BY ChangedBy
  <2> QED
    BY <2>1, <1>1, <1>2, <1>3, <1>4, <1>5, <1>6, <1>7, <1>8

\* What the events of databases make of the table: rows keep their shape, and
\* only two kinds of facts change why one is unavailable.
DatabasesChange(x, e, t) ==
  /\ Rows(t.dbs, DatabaseFields)
  /\ e.type \notin {"DatabaseCreated", "DatabaseDeleted", "ServerRemoved"} =>
       /\ DOMAIN t.dbs = DOMAIN x.dbs
       /\ e.type # "DatabaseAvailabilityChanged" =>
            \A i \in DOMAIN x.dbs : t.dbs[i].reasons = x.dbs[i].reasons
  /\ e.type = "DatabaseCreated" =>
       /\ DOMAIN t.dbs = DOMAIN x.dbs \cup {e.db} /\ t.dbs[e.db].reasons = {}
       /\ \A i \in DOMAIN x.dbs \ {e.db} : t.dbs[i].reasons = x.dbs[i].reasons
  /\ e.type = "DatabaseDeleted" =>
       /\ DOMAIN t.dbs = DOMAIN x.dbs \ {e.db}
       /\ \A i \in DOMAIN x.dbs \ {e.db} : t.dbs[i].reasons = x.dbs[i].reasons
  /\ e.type = "ServerRemoved" =>
       /\ DOMAIN t.dbs = DOMAIN x.dbs \ {e.server}
       /\ \A i \in DOMAIN x.dbs \ {e.server} : t.dbs[i].reasons = x.dbs[i].reasons
  /\ e.type = "DatabaseAvailabilityChanged" =>
       /\ t.dbs[e.db].reasons = e.reasons /\ e.db \in DOMAIN x.dbs
       /\ \A i \in DOMAIN x.dbs \ {e.db} : t.dbs[i].reasons = x.dbs[i].reasons

LEMMA DatabasesStep ==
    ASSUME NEW x, DOMAIN x = Fields, Rows(x.dbs, DatabaseFields), NEW e, NEW t \in Handled(x, e)
    PROVE  DatabasesChange(x, e, t)
<1>1. CASE e.type = "ServerRemoved"
  <2>1. t.dbs = ServerRemovedDbs(x, e) /\ ServerRemovedGuard(x, e)
    BY <1>1, ServerRemovedEffect
  <2>2. /\ DOMAIN t.dbs = DOMAIN x.dbs \ {e.server}
        /\ \A i \in DOMAIN x.dbs \ {e.server} : t.dbs[i] = x.dbs[i]
    <3> DEFINE K == {e.server}
    <3>1. t.dbs = Drop(x.dbs, K)
      BY <2>1 DEF ServerRemovedDbs
    <3> HIDE DEF K
    <3>2. /\ DOMAIN Drop(x.dbs, K) = DOMAIN x.dbs \ K
          /\ \A i \in DOMAIN x.dbs \ K : Drop(x.dbs, K)[i] = x.dbs[i]
      BY DropDomain
    <3> QED
      BY <3>1, <3>2 DEF K
  <2> QED
    BY <1>1, <2>2 DEF Rows, DatabasesChange
<1>2. CASE e.type = "DatabaseCreated"
  <2>1. t.dbs = DatabaseCreatedDbs(x, e) /\ DatabaseCreatedGuard(x, e)
    BY <1>2, DatabaseCreatedEffect
  <2> DEFINE row == [data |-> 0, logs |-> 0, version |-> 0, ready |-> TRUE,
                     reasons |-> {}, from |-> None]
  <2>3. DOMAIN row = DatabaseFields /\ row.reasons = {}
    BY DEF DatabaseFields
  <2>4. t.dbs = Put(x.dbs, e.db, row)
    BY <2>1 DEF DatabaseCreatedDbs
  <2> HIDE DEF row
  <2>2. /\ DOMAIN t.dbs = DOMAIN x.dbs \cup {e.db} /\ t.dbs[e.db] = row
        /\ \A i \in DOMAIN x.dbs \ {e.db} : t.dbs[i] = x.dbs[i]
    <3> DEFINE k == e.db
    <3>1. t.dbs = Put(x.dbs, k, row)
      BY <2>4
    <3> HIDE DEF k
    <3>2. /\ DOMAIN Put(x.dbs, k, row) = DOMAIN x.dbs \cup {k} /\ Put(x.dbs, k, row)[k] = row
          /\ \A i \in DOMAIN x.dbs \ {k} : Put(x.dbs, k, row)[i] = x.dbs[i]
      BY DEF Put
    <3> QED
      BY <3>1, <3>2 DEF k
  <2> QED
    BY <1>2, <2>2, <2>3 DEF Rows, DatabasesChange
<1>3. CASE e.type = "DatabaseDeleted"
  <2>1. t.dbs = DatabaseDeletedDbs(x, e) /\ DatabaseDeletedGuard(x, e)
    BY <1>3, DatabaseDeletedEffect
  <2>2. /\ DOMAIN t.dbs = DOMAIN x.dbs \ {e.db}
        /\ \A i \in DOMAIN x.dbs \ {e.db} : t.dbs[i] = x.dbs[i]
    <3> DEFINE K == {e.db}
    <3>1. t.dbs = Drop(x.dbs, K)
      BY <2>1 DEF DatabaseDeletedDbs
    <3> HIDE DEF K
    <3>2. /\ DOMAIN Drop(x.dbs, K) = DOMAIN x.dbs \ K
          /\ \A i \in DOMAIN x.dbs \ K : Drop(x.dbs, K)[i] = x.dbs[i]
      BY DropDomain
    <3> QED
      BY <3>1, <3>2 DEF K
  <2> QED
    BY <1>3, <2>2 DEF Rows, DatabasesChange
<1>4. CASE e.type = "DatabaseAvailabilityChanged"
  <2>1. t.dbs = DatabaseAvailabilityChangedDbs(x, e) /\ DatabaseAvailabilityChangedGuard(x, e)
    BY <1>4, DatabaseAvailabilityChangedEffect
  <2>2. /\ DOMAIN t.dbs = DOMAIN x.dbs
        /\ \A i \in DOMAIN x.dbs : DOMAIN t.dbs[i] = DatabaseFields
        /\ \A i \in DOMAIN x.dbs \ {e.db} : t.dbs[i].reasons = x.dbs[i].reasons
    BY <2>1 DEF DatabaseAvailabilityChangedDbs, DatabaseFields, Rows
  <2>3. e.db \in DOMAIN x.dbs /\ t.dbs[e.db].reasons = e.reasons
    BY <2>1 DEF DatabaseAvailabilityChangedDbs, DatabaseFields, Rows, DatabaseAvailabilityChangedGuard
  <2> QED
    BY <1>4, <2>2, <2>3 DEF Rows, DatabasesChange
<1>5. CASE e.type = "DatabaseStorageIncreased"
  <2>1. t.dbs = DatabaseStorageIncreasedDbs(x, e) /\ DatabaseStorageIncreasedGuard(x, e)
    BY <1>5, DatabaseStorageIncreasedEffect
  <2>2. /\ DOMAIN t.dbs = DOMAIN x.dbs
        /\ \A i \in DOMAIN x.dbs : DOMAIN t.dbs[i] = DatabaseFields
        /\ \A i \in DOMAIN x.dbs : t.dbs[i].reasons = x.dbs[i].reasons
    BY <2>1 DEF DatabaseStorageIncreasedDbs, DatabaseFields, Rows
  <2> QED
    BY <1>5, <2>2 DEF Rows, DatabasesChange
<1>6. CASE e.type = "DiskLogsCleaned"
  <2>1. t.dbs = DiskLogsCleanedDbs(x, e) /\ DiskLogsCleanedGuard(x, e)
    BY <1>6, DiskLogsCleanedEffect
  <2>2. /\ DOMAIN t.dbs = DOMAIN x.dbs
        /\ \A i \in DOMAIN x.dbs : DOMAIN t.dbs[i] = DatabaseFields
        /\ \A i \in DOMAIN x.dbs : t.dbs[i].reasons = x.dbs[i].reasons
    BY <2>1 DEF DiskLogsCleanedDbs, DatabaseFields, Rows
  <2> QED
    BY <1>6, <2>2 DEF Rows, DatabasesChange
<1>7. CASE e.type = "DatabaseRestoreStarted"
  <2>1. t.dbs = DatabaseRestoreStartedDbs(x, e) /\ DatabaseRestoreStartedGuard(x, e)
    BY <1>7, DatabaseRestoreStartedEffect
  <2>2. /\ DOMAIN t.dbs = DOMAIN x.dbs
        /\ \A i \in DOMAIN x.dbs : DOMAIN t.dbs[i] = DatabaseFields
        /\ \A i \in DOMAIN x.dbs : t.dbs[i].reasons = x.dbs[i].reasons
    BY <2>1 DEF DatabaseRestoreStartedDbs, DatabaseFields, Rows
  <2> QED
    BY <1>7, <2>2 DEF Rows, DatabasesChange
<1>8. CASE e.type = "DatabaseRestoreCompleted"
  <2>1. t.dbs = DatabaseRestoreCompletedDbs(x, e) /\ DatabaseRestoreCompletedGuard(x, e)
    BY <1>8, DatabaseRestoreCompletedEffect
  <2>2. /\ DOMAIN t.dbs = DOMAIN x.dbs
        /\ \A i \in DOMAIN x.dbs : DOMAIN t.dbs[i] = DatabaseFields
        /\ \A i \in DOMAIN x.dbs : t.dbs[i].reasons = x.dbs[i].reasons
    BY <2>1 DEF DatabaseRestoreCompletedDbs, DatabaseFields, Rows
  <2> QED
    BY <1>8, <2>2 DEF Rows, DatabasesChange
<1>9. CASE /\ t.dbs = x.dbs
         /\ e.type \notin {"DatabaseCreated", "DatabaseDeleted", "ServerRemoved",
                           "DatabaseAvailabilityChanged"}
  BY <1>9 DEF DatabasesChange
<1> QED
  <2>1. \/ t.dbs = x.dbs
        \/ e.type \in {"ServerRemoved", "DatabaseCreated", "DatabaseDeleted",
                       "DatabaseAvailabilityChanged", "DatabaseStorageIncreased",
                       "DiskLogsCleaned", "DatabaseRestoreStarted",
                       "DatabaseRestoreCompleted"}
    BY ChangedBy
  <2> QED
    BY <2>1, <1>1, <1>2, <1>3, <1>4, <1>5, <1>6, <1>7, <1>8, <1>9

----------------------------------------------------------------------------
(* What holds of the aggregate after every event, as its clock stands at T  *)
(* or will, and what a decision promises of the events it returns beyond    *)
(* what Apply checks                                                        *)

\* A request is the agent's own or of a visitor who has come.
Seen(x, r) ==
  /\ r \in Nat \X Pages
  /\ \/ r[1] \in Probes
     \/ \E j \in 1..x.cursor : /\ Schedule[j].type = "VisitorArrived"
                               /\ Schedule[j].visitor = r[1]
Named(x) ==
  /\ x.cursor \in 0..Len(Schedule)
  /\ \A r \in DOMAIN x.capacity : Seen(x, r)
  /\ \A r \in DOMAIN x.conns : Seen(x, r)

Attacked(x) ==
  IsFiniteSet(DOMAIN x.attacks) /\ \A a \in DOMAIN x.attacks : x.attacks[a].load \in Nat

\* Servers are known ones, databases on servers made for them, and the site is
\* on one of them.
Placed(x) ==
  /\ DOMAIN x.servers \subseteq Servers
  /\ DOMAIN x.dbs \subseteq {i \in Servers : Catalog[i].role = "database"}
  /\ Rows(x.dbs, DatabaseFields)
  /\ DOMAIN x.site = SiteFields /\ x.site.db \in DOMAIN x.dbs
  /\ x.site.status \in {"running", "stopping", "stopped"}

\* Connections are to the site's database, and counted.
ConnectionsOf(x, i) == {r \in DOMAIN x.conns : x.conns[r].db = i}
Connected(x) ==
  /\ IsFiniteSet(DOMAIN x.conns)
  /\ \A r \in DOMAIN x.conns : x.conns[r].db = x.site.db /\ x.conns[r].until \in Int
  /\ x.counts = [i \in Servers |-> Cardinality(ConnectionsOf(x, i))]
  /\ \A i \in Servers : x.counts[i] <= Catalog[i].limit
  /\ x.site.status = "stopped" => DOMAIN x.conns = {}

\* A database is marked full exactly while it is.
Marked(x) ==
  \A i \in DOMAIN x.dbs :
    ("connection_limit" \in x.dbs[i].reasons) <=> (x.counts[i] = Catalog[i].limit)

\* A rule expires at some time, or never (-1).  Backups are numbered.
Ruled(x) == /\ \A k \in DOMAIN x.rules : x.rules[k].until \in Int
            /\ DOMAIN x.backups \subseteq Int

\* An outage is open exactly while the site is not running or lacks something;
\* a running site's database is not being restored.
Faulted(x) ==
  /\ x.site.since # Never <=> x.site.status # "running" \/ ~DependenciesUp(x)
  /\ x.site.status = "running" => x.dbs[x.site.db].ready

\* All but the mark, which two events together set and reset.
Steady(T, x) == /\ Tables(x) /\ Index(T, x) /\ Named(x) /\ Attacked(x) /\ Ruled(x)
                /\ Placed(x) /\ Connected(x) /\ Faulted(x)
Sound(T, x) == Steady(T, x) /\ Marked(x)

\* What decisions promise.
Proper(T, x, e) ==
  /\ e.type \in AlikeTypes
  /\ e.type \in {"PageRequestStarted", "VisitorArrived"} => e.at \in Int /\ e.at <= T
  /\ e.type = "PageRequestAccepted" =>
       /\ e.at \in Int /\ e.at = x.indexed /\ e.page \in Pages
       /\ e.request \notin DOMAIN x.capacity /\ Seen(x, e.request)
  /\ e.type = "ServerProvisioningStarted" => e.server \in Servers
  /\ e.type = "ServerRemoved" => x.now = T /\ e.server \notin DOMAIN x.dbs
  /\ e.type = "TrafficAttackStarted" => e.load \in Nat
  /\ e.type = "FirewallRuleUpserted" => e.body.until \in Int
  /\ e.type = "DatabaseConnectionOpened" =>
       /\ e.db = x.site.db /\ x.site.status # "stopped" /\ e.at \in Int /\ Seen(x, e.request)
  /\ e.type = "DatabaseBackupStarted" => e.backup \in Int
  /\ e.type = "DatabaseRestoreStarted" => (e.db = x.site.db => x.site.status # "running")
  /\ e.type = "SiteStopStarted" => e.at # Never

\* ... and of a fact about a database that comes alone.
KeepsMark(x, e) ==
  /\ e.type \notin {"DatabaseConnectionOpened", "DatabaseConnectionReleased"}
  /\ e.type = "DatabaseAvailabilityChanged" =>
       ("connection_limit" \in e.reasons <=> "connection_limit" \in x.dbs[e.db].reasons)

LEMMA AttackedStep ==
    ASSUME NEW x, DOMAIN x = Fields, Attacked(x), NEW e, NEW t \in Handled(x, e),
           e.type = "TrafficAttackStarted" => e.load \in Nat
    PROVE  Attacked(t)
<1>1. CASE e.type = "TrafficAttackStarted"
  <2> DEFINE a == e.attack
             row == [page |-> e.page, load |-> e.load, profile |-> e.profile, until |-> e.until]
  <2>1. t.attacks = Put(x.attacks, a, row)
    BY <1>1, TrafficAttackStartedEffect DEF TrafficAttackStartedAttacks
  <2>2. row.load \in Nat
    BY <1>1
  <2> HIDE DEF a, row
  <2>3. DOMAIN t.attacks = DOMAIN x.attacks \cup {a}
        /\ \A b \in DOMAIN x.attacks \cup {a} :
             t.attacks[b] = IF b = a THEN row ELSE x.attacks[b]
    BY <2>1 DEF Put
  <2>4. IsFiniteSet(DOMAIN x.attacks \cup {a})
    BY FS_AddElement DEF Attacked
  <2> QED
    BY <2>2, <2>3, <2>4 DEF Attacked
<1>2. CASE e.type = "TrafficAttackEnded"
  <2> DEFINE K == {e.attack}
  <2>1. t.attacks = Drop(x.attacks, K)
    BY <1>2, TrafficAttackEndedEffect DEF TrafficAttackEndedAttacks
  <2> HIDE DEF K
  <2>2. DOMAIN t.attacks = DOMAIN x.attacks \ K
        /\ \A b \in DOMAIN x.attacks \ K : t.attacks[b] = x.attacks[b]
    BY <2>1 DEF Drop
  <2>3. IsFiniteSet(DOMAIN x.attacks \ K)
    BY FS_Difference DEF Attacked
  <2> QED
    BY <2>2, <2>3 DEF Attacked
<1>3. CASE t.attacks = x.attacks
  BY <1>3 DEF Attacked
<1> QED
  BY <1>1, <1>2, <1>3, ChangedBy

LEMMA CursorStep ==
    ASSUME NEW x, DOMAIN x = Fields, x.cursor \in 0..Len(Schedule), NEW e, NEW t \in Handled(x, e)
    PROVE  /\ t.cursor \in 0..Len(Schedule) /\ x.cursor <= t.cursor
           /\ t.cursor = x.cursor \/ t.cursor = NextCursor(x, e)
           /\ \A r : Seen(x, r) => Seen(t, r)
<1>1. t.cursor = x.cursor \/ t.cursor = NextCursor(x, e)
  BY ChangedBy, VisitorArrivedEffect, TrafficAttackStartedEffect, TrafficAttackEndedEffect,
     DatabaseGrowthRequestedEffect, DiskLogsGrowthRequestedEffect
<1>2. Len(Schedule) \in Nat
  BY ScheduleAssumption
<1>3. t.cursor \in 0..Len(Schedule) /\ x.cursor <= t.cursor
  BY <1>1, <1>2 DEF NextCursor
<1>4. 1..x.cursor \subseteq 1..t.cursor
  BY <1>2, <1>3
<1> QED
  BY <1>1, <1>3, <1>4 DEF Seen

LEMMA NamedStep ==
    ASSUME NEW x, DOMAIN x = Fields, Named(x), NEW e, NEW t \in Handled(x, e),
           e.type = "PageRequestAccepted" => Seen(x, e.request),
           e.type = "DatabaseConnectionOpened" => Seen(x, e.request)
    PROVE  Named(t)
<1>1. t.cursor \in 0..Len(Schedule) /\ \A r : Seen(x, r) => Seen(t, r)
  BY CursorStep DEF Named
<1>2. \A r \in DOMAIN t.capacity : Seen(x, r)
  <2>1. CASE e.type = "PageRequestAccepted"
    <3>1. t.capacity = PageRequestAcceptedCapacity(x, e)
      BY <2>1, PageRequestAcceptedEffect
    <3>2. DOMAIN t.capacity = DOMAIN x.capacity \cup {e.request}
      BY <3>1 DEF PageRequestAcceptedCapacity, Put
    <3> QED
      BY <2>1, <3>2 DEF Named
  <2>2. CASE e.type \in {"TimeAdvanced", "PageRequestStarted", "VisitorArrived"}
    <3>1. \E at : t.capacity = Prune(x, at).capacity
      BY <2>2, TimeAdvancedEffect, PageRequestStartedEffect, VisitorArrivedEffect
    <3>2. DOMAIN t.capacity \subseteq DOMAIN x.capacity
      BY <3>1, PruneDomain
    <3> QED
      BY <3>2 DEF Named
  <2>3. CASE t.capacity = x.capacity
    BY <2>3 DEF Named
  <2> QED
    BY <2>1, <2>2, <2>3, ChangedBy
<1>3. \A r \in DOMAIN t.conns : Seen(x, r)
  <2>1. CASE e.type = "DatabaseConnectionOpened"
    <3>1. t.conns = DatabaseConnectionOpenedConns(x, e)
      BY <2>1, DatabaseConnectionOpenedEffect
    <3>2. DOMAIN t.conns = DOMAIN x.conns \cup {e.request}
      BY <3>1 DEF DatabaseConnectionOpenedConns, Put
    <3> QED
      BY <2>1, <3>2 DEF Named
  <2>2. CASE e.type = "DatabaseConnectionReleased"
    <3>1. t.conns = DatabaseConnectionReleasedConns(x, e)
      BY <2>2, DatabaseConnectionReleasedEffect
    <3>2. DOMAIN t.conns \subseteq DOMAIN x.conns
      BY <3>1 DEF DatabaseConnectionReleasedConns, Drop
    <3> QED
      BY <3>2 DEF Named
  <2>3. CASE t.conns = x.conns
    BY <2>3 DEF Named
  <2> QED
    BY <2>1, <2>2, <2>3, ChangedBy
<1> QED
  BY <1>1, <1>2, <1>3 DEF Named

\* Which servers there are.
LEMMA ServersStep ==
    ASSUME NEW x, DOMAIN x = Fields, NEW e, NEW t \in Handled(x, e)
    PROVE  /\ e.type \notin {"ServerProvisioningStarted", "ServerRemoved"} =>
                DOMAIN t.servers = DOMAIN x.servers
           /\ e.type = "ServerProvisioningStarted" =>
                /\ DOMAIN t.servers = DOMAIN x.servers \cup {e.server}
                /\ e.server \notin DOMAIN x.servers
           /\ e.type = "ServerRemoved" =>
                DOMAIN t.servers = DOMAIN x.servers \ {e.server} /\ e.server \in DOMAIN x.servers
<1>1. CASE e.type = "ServerProvisioningStarted"
  <2>1. t.servers = ServerProvisioningStartedServers(x, e) /\ ServerProvisioningStartedGuard(x, e)
    BY <1>1, ServerProvisioningStartedEffect
  <2> QED
    BY <1>1, <2>1 DEF ServerProvisioningStartedServers, ServerProvisioningStartedGuard, Put
<1>2. CASE e.type = "ServerRemoved"
  <2>1. t.servers = ServerRemovedServers(x, e) /\ ServerRemovedGuard(x, e)
    BY <1>2, ServerRemovedEffect
  <2> QED
    BY <1>2, <2>1 DEF ServerRemovedServers, ServerRemovedGuard, Drop, WithStatus
<1>3. CASE e.type = "InfrastructureCostAccrued"
  <2>1. t.servers = InfrastructureCostAccruedServers(x, e)
    BY <1>3, InfrastructureCostAccruedEffect
  <2> QED
    BY <1>3, <2>1 DEF InfrastructureCostAccruedServers
<1>4. CASE e.type = "ServerActivated"
  <2>1. t.servers = ServerActivatedServers(x, e)
    BY <1>4, ServerActivatedEffect
  <2> QED
    BY <1>4, <2>1 DEF ServerActivatedServers
<1>5. CASE e.type = "ServerDrainingStarted"
  <2>1. t.servers = ServerDrainingStartedServers(x, e)
    BY <1>5, ServerDrainingStartedEffect
  <2> QED
    BY <1>5, <2>1 DEF ServerDrainingStartedServers
<1>6. CASE e.type = "DiskLogsCleaned"
  <2>1. t.servers = DiskLogsCleanedServers(x, e)
    BY <1>6, DiskLogsCleanedEffect
  <2> QED
    BY <1>6, <2>1 DEF DiskLogsCleanedServers
<1>7. CASE e.type = "DiskLogsIncreased"
  <2>1. t.servers = DiskLogsIncreasedServers(x, e)
    BY <1>7, DiskLogsIncreasedEffect
  <2> QED
    BY <1>7, <2>1 DEF DiskLogsIncreasedServers
<1>8. CASE t.servers = x.servers /\ e.type \notin {"ServerProvisioningStarted", "ServerRemoved"}
  BY <1>8
<1> QED
  BY <1>1, <1>2, <1>3, <1>4, <1>5, <1>6, <1>7, <1>8, ChangedBy

----------------------------------------------------------------------------
(* The index after an event                                                 *)

LEMMA IndexAlike ==
    ASSUME NEW T \in Int, NEW p, Index(T, p), NEW t, t.capacity = p.capacity, t.used = p.used,
           t.indexed = p.indexed, DOMAIN p.servers \subseteq DOMAIN t.servers
    PROVE  Index(T, t)
  BY DEF Index, Allocation

LEMMA AttackLoadNat ==
    ASSUME NEW x, Tables(x), Attacked(x), NEW page, NEW at
    PROVE  AttackLoad(x, page, at) \in Nat
<1> DEFINE sharing == {i \in ActiveBackends(x) : ~DiskFull(x, i)}
           A == {a \in DOMAIN x.attacks : /\ x.attacks[a].page = page
                                          /\ ~Denied(x, x.attacks[a].profile, at)}
           total == LoadOf(x.attacks, A)
           n == Cardinality(sharing)
<1>1. total \in Nat
  BY LoadParts DEF Attacked
<1>2. IsFiniteSet(sharing)
  <2>1. sharing \subseteq DOMAIN x.servers
    BY DEF ActiveBackends, WithStatus
  <2> QED
    BY <2>1, FS_Subset DEF Tables
<1>3. sharing # {} => n \in Nat /\ n > 0
  BY <1>2, FS_CardinalityType, FS_EmptySet
<1>4. AttackLoad(x, page, at) = IF sharing = {} THEN 0 ELSE CeilDiv(total, n)
  BY DEF AttackLoad
<1> HIDE DEF sharing, total, n
<1>5. CASE sharing = {}
  BY <1>4, <1>5
<1>6. CASE sharing # {}
  <2>1. total + n - 1 \in Nat
    BY <1>1, <1>3, <1>6
  <2>2. (total + n - 1) \div n \in Nat
    BY <1>3, <1>6, <2>1
  <2> QED
    BY <1>4, <1>6, <2>2 DEF CeilDiv
<1> QED
  BY <1>5, <1>6

LEMMA IndexAccepted ==
    ASSUME NEW T \in Int, NEW x, Steady(T, x), NEW e, Proper(T, x, e), NEW t \in Handled(x, e),
           e.type = "PageRequestAccepted"
    PROVE  Index(T, t)
<1> DEFINE i == e.server
           r == e.request
           load == Load[e.page]
           row == [server |-> i, load |-> load, until |-> e.until]
           c == x.capacity
           d == Put(c, r, row)
<1>1. /\ e.at \in Int /\ e.at = x.indexed /\ e.page \in Pages /\ r \notin DOMAIN c
      /\ e.until = e.at + Hold[e.page] /\ i \in DOMAIN x.servers
      /\ FreeCapacity(x, i, e.page, e.at) >= load
  BY PageRequestAcceptedEffect DEF Steady, Tables, Proper, PageRequestAcceptedGuard, WithStatus
<1>2. /\ t.capacity = d /\ t.used = [x.used EXCEPT ![i] = @ + load]
      /\ t.indexed = x.indexed /\ DOMAIN t.servers = DOMAIN x.servers
  BY PageRequestAcceptedEffect, ServersStep, ChangedBy
     DEF Steady, Tables, PageRequestAcceptedCapacity, PageRequestAcceptedUsed
<1>3. load \in Nat \ {0} /\ Hold[e.page] \in Nat \ {0} /\ i \in Servers
      /\ Catalog[i].capacity \in Nat
  BY <1>1, PagesAssumption, ServersAssumption DEF Steady, Placed
<1>4. Index(T, x)
  BY DEF Steady
<1>5. AttackLoad(x, e.page, e.at) \in Nat
  BY AttackLoadNat DEF Steady
<1>6. UsedCapacity(x, i, e.at) = x.used[i] /\ x.used[i] \in Nat
  BY <1>1, <1>3, <1>4, UsedNow DEF Index
<1>7. x.used[i] + load <= Catalog[i].capacity
  <2>1. CASE i \notin ActiveBackends(x) \/ DiskFull(x, i)
    BY <1>1, <1>3, <2>1 DEF FreeCapacity
  <2>2. CASE ~(i \notin ActiveBackends(x) \/ DiskFull(x, i))
    <3>1. FreeCapacity(x, i, e.page, e.at)
            = Catalog[i].capacity - UsedCapacity(x, i, e.at) - AttackLoad(x, e.page, e.at)
      BY <2>2 DEF FreeCapacity
    <3> QED
      BY <1>1, <1>3, <1>5, <1>6, <3>1
  <2> QED
    BY <2>1, <2>2
<1>8. /\ DOMAIN d = DOMAIN c \cup {r} /\ d[r] = row
      /\ \A q \in DOMAIN c : d[q] = c[q]
  <2> HIDE DEF row, c, r
  <2>1. DOMAIN c \ {r} = DOMAIN c
    BY <1>1
  <2>2. /\ DOMAIN d = DOMAIN c \cup {r} /\ d[r] = row
        /\ \A q \in DOMAIN c \ {r} : d[q] = c[q]
    BY DEF Put
  <2> QED
    BY <2>1, <2>2
<1>9. row.server = i /\ row.load = load /\ row.until = e.until
  OBVIOUS
<1> HIDE DEF row, d
<1>10. \A j \in Servers : LoadOf(d, OnServer(d, j)) =
         IF j = i THEN LoadOf(c, OnServer(c, j)) + load ELSE LoadOf(c, OnServer(c, j))
  <2> SUFFICES ASSUME NEW j \in Servers
               PROVE  LoadOf(d, OnServer(d, j)) =
                        IF j = i THEN LoadOf(c, OnServer(c, j)) + load
                        ELSE LoadOf(c, OnServer(c, j))
    OBVIOUS
  <2> DEFINE U == OnServer(c, j)
             V == OnServer(d, j)
  <2>1. IsFiniteSet(U) /\ U \subseteq DOMAIN c
    BY <1>4, FS_Subset DEF Index, OnServer
  <2>2. \A q \in U : d[q].load \in Nat /\ d[q].load = c[q].load
    BY <1>4, <1>8, <2>1 DEF Index, Allocation
  <2>3. LoadOf(d, U) = LoadOf(c, U)
    BY <2>1, <2>2, LoadSame
  <2>4. CASE j # i
    <3>1. V = U
      BY <1>8, <1>9, <2>4 DEF OnServer
    <3> QED
      BY <2>3, <2>4, <3>1
  <2>5. CASE j = i
    <3>1. V = U \cup {r} /\ r \notin U
      BY <1>1, <1>8, <1>9, <2>5 DEF OnServer
    <3>2. IsFiniteSet(V)
      BY <2>1, <3>1, FS_AddElement
    <3>3. \A q \in V : d[q].load \in Nat
      BY <1>3, <1>8, <1>9, <2>2, <3>1
    <3>4. LoadOf(d, V) = LoadOf(d, V \ {r}) + d[r].load
      BY <3>1, <3>2, <3>3, LoadParts
    <3>5. V \ {r} = U
      BY <3>1
    <3> QED
      BY <1>8, <1>9, <2>3, <2>5, <3>4, <3>5
  <2> QED
    BY <2>4, <2>5
<1>11. \A q \in DOMAIN d : /\ Allocation(t, q)
                           /\ T < d[q].until => d[q].server \in DOMAIN t.servers
  <2>1. CASE TRUE
    <3> TAKE q \in DOMAIN d
    <3>1. CASE q = r
      BY <1>1, <1>2, <1>3, <1>8, <1>9, <3>1 DEF Allocation
    <3>2. CASE q \in DOMAIN c
      BY <1>2, <1>4, <1>8, <3>2 DEF Index, Allocation
    <3> QED
      BY <1>8, <3>1, <3>2
  <2> QED
    BY <2>1
<1>12. IsFiniteSet(DOMAIN d)
  BY <1>4, <1>8, FS_AddElement DEF Index
<1>13. t.used = [j \in Servers |-> LoadOf(d, OnServer(d, j))]
  <2> DEFINE old == [j \in Servers |-> LoadOf(c, OnServer(c, j))]
  <2>1. x.used = old
    BY <1>4 DEF Index
  <2>2. t.used = [j \in Servers |-> IF j = i THEN old[j] + load ELSE old[j]]
    BY <1>2, <1>3, <2>1
  <2> QED
    BY <1>10, <2>2
<1>14. \A j \in Servers : t.used[j] <= Catalog[j].capacity
  BY <1>2, <1>3, <1>4, <1>7 DEF Index
<1> QED
  BY <1>2, <1>4, <1>11, <1>12, <1>13, <1>14 DEF Index

LEMMA IndexStep ==
    ASSUME NEW T \in Int, NEW x, Steady(T, x), NEW e, Proper(T, x, e), NEW t \in Handled(x, e)
    PROVE  Index(T, t)
<1>1. DOMAIN x = Fields /\ Index(T, x) /\ Placed(x)
  BY DEF Steady, Tables
<1>2. CASE e.type \in {"PageRequestStarted", "VisitorArrived"}
  <2> DEFINE p == Prune(x, e.at)
  <2>1. t.capacity = p.capacity /\ t.used = p.used /\ t.indexed = p.indexed
    BY <1>1, <1>2, PageRequestStartedEffect, VisitorArrivedEffect
  <2>2. Index(T, p)
    BY <1>1, <1>2, PruneIndexed DEF Proper
  <2>3. DOMAIN t.servers = DOMAIN p.servers
    <3>1. p.servers = x.servers
      BY <1>1 DEF Prune, Fields
    <3> QED
      BY <1>1, <1>2, <3>1, ServersStep
  <2> HIDE DEF p
  <2> QED
    BY <2>1, <2>2, <2>3, IndexAlike
<1>3. CASE e.type = "PageRequestAccepted"
  BY <1>3, IndexAccepted
<1>4. CASE e.type = "ServerRemoved"
  <2>1. /\ t.capacity = x.capacity /\ t.used = x.used /\ t.indexed = x.indexed
        /\ DOMAIN t.servers = DOMAIN x.servers \ {e.server} /\ e.server \in DOMAIN x.servers
    BY <1>1, <1>4, ChangedBy, ServersStep
  <2>2. ~HasLoad(x, e.server, T)
    BY <1>1, <1>4, ServerRemovedEffect DEF Proper, ServerRemovedGuard
  <2>3. \A r \in DOMAIN x.capacity : x.capacity[r].until > T => x.capacity[r].server # e.server
    BY <1>1, <2>1, <2>2, NoLoadNothingLive DEF Placed
  <2> QED
    BY <1>1, <2>1, <2>3 DEF Index, Allocation
<1>5. CASE e.type \notin {"PageRequestStarted", "VisitorArrived", "PageRequestAccepted",
                          "ServerRemoved"}
  <2>1. e.type # "TimeAdvanced"
    BY DEF Proper, AlikeTypes
  <2>2. t.capacity = x.capacity /\ t.used = x.used /\ t.indexed = x.indexed
    BY <1>1, <1>5, <2>1, ChangedBy
  <2>3. DOMAIN x.servers \subseteq DOMAIN t.servers
    BY <1>1, <1>5, ServersStep
  <2> QED
    BY <1>1, <2>2, <2>3, IndexAlike
<1> QED
  BY <1>2, <1>3, <1>4, <1>5

----------------------------------------------------------------------------
(* The other parts after an event                                           *)

LEMMA PlacedStep ==
    ASSUME NEW T, NEW x, DOMAIN x = Fields, Placed(x), NEW e, Proper(T, x, e),
           NEW t \in Handled(x, e)
    PROVE  Placed(t)
<1>1. SiteChange(x, e, t) /\ DatabasesChange(x, e, t)
  BY SiteStep, DatabasesStep DEF Placed
<1>2. DOMAIN t.servers \subseteq Servers
  BY ServersStep DEF Placed, Proper
<1>3. DOMAIN t.dbs \subseteq {i \in Servers : Catalog[i].role = "database"}
  <2>1. CASE e.type = "DatabaseCreated"
    <3>1. e.db \in Servers /\ Catalog[e.db].role # "backend"
      BY <2>1, DatabaseCreatedEffect DEF DatabaseCreatedGuard, WithStatus, Placed, Backend
    <3>2. Catalog[e.db].role \in {"backend", "database"}
      BY <3>1, ServersAssumption
    <3> QED
      BY <1>1, <2>1, <3>1, <3>2 DEF DatabasesChange, Placed
  <2>2. CASE e.type # "DatabaseCreated"
    BY <1>1, <2>2 DEF DatabasesChange, Placed
  <2> QED
    BY <2>1, <2>2
<1>4. DOMAIN t.site = SiteFields /\ t.site.status \in {"running", "stopping", "stopped"}
  BY <1>1 DEF SiteChange, SameSite, Placed
<1>5. t.site.db \in DOMAIN t.dbs
  <2>1. CASE e.type = "SiteDatabaseChanged"
    BY <1>1, <2>1 DEF SiteChange, DatabasesChange
  <2>2. CASE e.type # "SiteDatabaseChanged"
    <3>1. t.site.db = x.site.db
      BY <1>1, <2>2 DEF SiteChange, SameSite
    <3>2. e.type = "DatabaseDeleted" => x.site.db # e.db
      BY DatabaseDeletedEffect DEF DatabaseDeletedGuard
    <3>3. e.type = "ServerRemoved" => x.site.db # e.server
      BY DEF Proper, Placed
    <3> QED
      BY <1>1, <3>1, <3>2, <3>3 DEF DatabasesChange, Placed
  <2> QED
    BY <2>1, <2>2
<1> QED
  BY <1>1, <1>2, <1>3, <1>4, <1>5 DEF Placed, DatabasesChange

LEMMA ConnectedAlike ==
    ASSUME NEW x, Connected(x), NEW t, t.conns = x.conns, t.counts = x.counts,
           DOMAIN x.conns = {} \/ (/\ t.site.db = x.site.db
                                   /\ t.site.status = "stopped" => x.site.status = "stopped")
    PROVE  Connected(t)
<1>1. \A i : ConnectionsOf(t, i) = ConnectionsOf(x, i)
  BY DEF ConnectionsOf
<1> QED
  BY <1>1 DEF Connected

LEMMA ConnectedOpened ==
    ASSUME NEW T, NEW x, DOMAIN x = Fields, Placed(x), Connected(x), NEW e, Proper(T, x, e),
           NEW t \in Handled(x, e), e.type = "DatabaseConnectionOpened"
    PROVE  /\ Connected(t)
           /\ t.counts = [x.counts EXCEPT ![e.db] = @ + 1] /\ x.counts[e.db] \in Nat
<1> DEFINE i == e.db
           r == e.request
           row == [db |-> e.db, until |-> e.until]
           c == x.conns
           d == t.conns
<1>1. /\ i = x.site.db /\ x.site.status # "stopped" /\ e.at \in Int
      /\ e.until = e.at + ConnectionHold /\ r \notin DOMAIN c /\ i \in Servers
      /\ x.counts[i] < Catalog[i].limit
  BY DatabaseConnectionOpenedEffect DEF DatabaseConnectionOpenedGuard, Proper, Placed
<1>2. d = Put(c, r, row) /\ t.counts = [x.counts EXCEPT ![i] = @ + 1] /\ t.site = x.site
  BY DatabaseConnectionOpenedEffect, ChangedBy
     DEF DatabaseConnectionOpenedConns, DatabaseConnectionOpenedCounts
<1>3. row.db = i /\ row.until \in Int
  BY <1>1, PagesAssumption
<1> HIDE DEF row
<1>4. DOMAIN d = DOMAIN c \cup {r} /\ d[r] = row /\ \A q \in DOMAIN c : d[q] = c[q]
  BY <1>1, <1>2 DEF Put
<1>5. IsFiniteSet(DOMAIN d) /\ \A q \in DOMAIN d : d[q].db = t.site.db /\ d[q].until \in Int
  BY <1>1, <1>2, <1>3, <1>4, FS_AddElement DEF Connected
<1>6. \A j \in Servers : Cardinality(ConnectionsOf(t, j)) =
        IF j = i THEN Cardinality(ConnectionsOf(x, j)) + 1 ELSE Cardinality(ConnectionsOf(x, j))
  <2> SUFFICES ASSUME NEW j \in Servers
               PROVE  Cardinality(ConnectionsOf(t, j)) =
                        IF j = i THEN Cardinality(ConnectionsOf(x, j)) + 1
                        ELSE Cardinality(ConnectionsOf(x, j))
    OBVIOUS
  <2>1. CASE j # i
    <3>1. ConnectionsOf(t, j) = ConnectionsOf(x, j)
      BY <1>3, <1>4, <2>1 DEF ConnectionsOf
    <3> QED
      BY <2>1, <3>1
  <2>2. CASE j = i
    <3>1. ConnectionsOf(t, j) = ConnectionsOf(x, j) \cup {r} /\ r \notin ConnectionsOf(x, j)
      BY <1>1, <1>3, <1>4, <2>2 DEF ConnectionsOf
    <3>2. IsFiniteSet(ConnectionsOf(x, j))
      BY FS_Subset DEF Connected, ConnectionsOf
    <3> QED
      BY <2>2, <3>1, <3>2, FS_AddElement
  <2> QED
    BY <2>1, <2>2
<1>7. x.counts = [j \in Servers |-> Cardinality(ConnectionsOf(x, j))] /\ x.counts[i] \in Nat
  <2>1. IsFiniteSet(ConnectionsOf(x, i))
    BY FS_Subset DEF Connected, ConnectionsOf
  <2> QED
    BY <1>1, <2>1, FS_CardinalityType DEF Connected
<1>8. t.counts = [j \in Servers |-> Cardinality(ConnectionsOf(t, j))]
  <2>1. t.counts = [j \in Servers |-> IF j = i THEN x.counts[j] + 1 ELSE x.counts[j]]
    BY <1>1, <1>2, <1>7
  <2> QED
    BY <1>6, <1>7, <2>1
<1>9. \A j \in Servers : t.counts[j] <= Catalog[j].limit
  <2>1. Catalog[i].limit \in Nat
    BY <1>1, ServersAssumption
  <2> QED
    BY <1>1, <1>2, <1>7, <2>1 DEF Connected
<1> QED
  BY <1>1, <1>2, <1>5, <1>7, <1>8, <1>9 DEF Connected

LEMMA ConnectedReleased ==
    ASSUME NEW x, DOMAIN x = Fields, Placed(x), Connected(x), NEW e,
           NEW t \in Handled(x, e), e.type = "DatabaseConnectionReleased"
    PROVE  /\ Connected(t)
           /\ t.counts = [x.counts EXCEPT ![e.db] = @ - 1] /\ x.counts[e.db] \in Nat
           /\ e.db = x.site.db
<1> DEFINE i == e.db
           K == {e.request}
           r == e.request
           c == x.conns
           d == t.conns
<1>1. /\ i = x.site.db /\ r \in DOMAIN c /\ c[r].db = i /\ i \in Servers
  BY DatabaseConnectionReleasedEffect DEF DatabaseConnectionReleasedGuard, Placed, Connected
<1>2. d = Drop(c, K) /\ t.counts = [x.counts EXCEPT ![i] = @ - 1] /\ t.site = x.site
  <2>1. /\ t.conns = DatabaseConnectionReleasedConns(x, e)
        /\ t.counts = DatabaseConnectionReleasedCounts(x, e)
    BY DatabaseConnectionReleasedEffect
  <2>2. t.site = x.site
    BY ChangedBy
  <2>3. d = Drop(c, K)
    BY <2>1 DEF DatabaseConnectionReleasedConns, Drop
  <2> QED
    BY <2>1, <2>2, <2>3 DEF DatabaseConnectionReleasedCounts
<1>3. DOMAIN d = DOMAIN c \ K /\ \A q \in DOMAIN c \ K : d[q] = c[q]
  <2> HIDE DEF K
  <2> QED
    BY <1>2 DEF Drop
<1>4. DOMAIN d = DOMAIN c \ {r} /\ \A q \in DOMAIN c \ {r} : d[q] = c[q]
  BY <1>3
<1> HIDE DEF K
<1>5. IsFiniteSet(DOMAIN d) /\ \A q \in DOMAIN d : d[q].db = t.site.db /\ d[q].until \in Int
  BY <1>1, <1>2, <1>4, FS_RemoveElement DEF Connected
<1>6. \A j \in Servers : Cardinality(ConnectionsOf(t, j)) =
        IF j = i THEN Cardinality(ConnectionsOf(x, j)) - 1 ELSE Cardinality(ConnectionsOf(x, j))
  <2> SUFFICES ASSUME NEW j \in Servers
               PROVE  Cardinality(ConnectionsOf(t, j)) =
                        IF j = i THEN Cardinality(ConnectionsOf(x, j)) - 1
                        ELSE Cardinality(ConnectionsOf(x, j))
    OBVIOUS
  <2>1. CASE j # i
    <3>1. ConnectionsOf(t, j) = ConnectionsOf(x, j)
      BY <1>1, <1>4, <2>1 DEF ConnectionsOf
    <3> QED
      BY <2>1, <3>1
  <2>2. CASE j = i
    <3>1. ConnectionsOf(t, j) = ConnectionsOf(x, j) \ {r} /\ r \in ConnectionsOf(x, j)
      BY <1>1, <1>4, <2>2 DEF ConnectionsOf
    <3>2. IsFiniteSet(ConnectionsOf(x, j))
      BY FS_Subset DEF Connected, ConnectionsOf
    <3> QED
      BY <2>2, <3>1, <3>2, FS_RemoveElement
  <2> QED
    BY <2>1, <2>2
<1>7. x.counts = [j \in Servers |-> Cardinality(ConnectionsOf(x, j))] /\ x.counts[i] \in Nat
  <2>1. IsFiniteSet(ConnectionsOf(x, i))
    BY FS_Subset DEF Connected, ConnectionsOf
  <2> QED
    BY <1>1, <2>1, FS_CardinalityType DEF Connected
<1>8. t.counts = [j \in Servers |-> Cardinality(ConnectionsOf(t, j))]
  <2>1. t.counts = [j \in Servers |-> IF j = i THEN x.counts[j] - 1 ELSE x.counts[j]]
    BY <1>1, <1>2, <1>7
  <2> QED
    BY <1>6, <1>7, <2>1
<1>9. \A j \in Servers : t.counts[j] <= Catalog[j].limit
  <2>1. Catalog[i].limit \in Nat
    BY <1>1, ServersAssumption
  <2> QED
    BY <1>1, <1>2, <1>7, <2>1 DEF Connected
<1>10. t.site.status = "stopped" => DOMAIN d = {}
  BY <1>2, <1>4 DEF Connected
<1> QED
  BY <1>1, <1>2, <1>5, <1>7, <1>8, <1>9, <1>10 DEF Connected

LEMMA ConnectedStep ==
    ASSUME NEW T, NEW x, DOMAIN x = Fields, Placed(x), Connected(x), NEW e, Proper(T, x, e),
           NEW t \in Handled(x, e)
    PROVE  Connected(t)
<1>1. SiteChange(x, e, t)
  BY SiteStep DEF Placed
<1>2. CASE e.type = "DatabaseConnectionOpened"
  BY <1>2, ConnectedOpened
<1>3. CASE e.type = "DatabaseConnectionReleased"
  BY <1>3, ConnectedReleased
<1>4. CASE e.type \notin {"DatabaseConnectionOpened", "DatabaseConnectionReleased"}
  <2>1. t.conns = x.conns /\ t.counts = x.counts
    BY <1>4, ChangedBy
  <2>2. \/ DOMAIN x.conns = {}
        \/ /\ t.site.db = x.site.db
           /\ t.site.status = "stopped" => x.site.status = "stopped"
    BY <1>1 DEF SiteChange, SameSite, Connected
  <2> QED
    BY <2>1, <2>2, ConnectedAlike
<1> QED
  BY <1>2, <1>3, <1>4

LEMMA MarkedStep ==
    ASSUME NEW T, NEW x, DOMAIN x = Fields, Placed(x), Connected(x), Marked(x), NEW e,
           Proper(T, x, e), KeepsMark(x, e), NEW t \in Handled(x, e)
    PROVE  Marked(t)
<1>1. DatabasesChange(x, e, t) /\ t.counts = x.counts
  BY DatabasesStep, ChangedBy DEF Placed, KeepsMark
<1>2. CASE e.type = "DatabaseCreated"
  <2>1. e.db \notin DOMAIN x.dbs
    BY <1>2, DatabaseCreatedEffect DEF DatabaseCreatedGuard
  <2>2. e.db \in DOMAIN t.dbs /\ Placed(t)
    BY <1>1, <1>2, PlacedStep DEF DatabasesChange
  <2>3. ConnectionsOf(x, e.db) = {}
    BY <2>1 DEF ConnectionsOf, Connected, Placed
  <2>4. x.counts[e.db] = 0
    BY <2>2, <2>3, FS_EmptySet DEF Connected, Placed
  <2>5. Catalog[e.db].limit > 0 /\ Catalog[e.db].limit \in Nat
    BY <2>2, ServersAssumption DEF Placed
  <2> QED
    BY <1>1, <1>2, <2>4, <2>5 DEF DatabasesChange, Marked
<1>3. CASE e.type # "DatabaseCreated"
  BY <1>1, <1>3 DEF DatabasesChange, Marked, KeepsMark
<1> QED
  BY <1>2, <1>3

LEMMA RuledStep ==
    ASSUME NEW T, NEW x, DOMAIN x = Fields, Ruled(x), NEW e, Proper(T, x, e),
           NEW t \in Handled(x, e)
    PROVE  Ruled(t)
<1> DEFINE Until(y) == \A k \in DOMAIN y.rules : y.rules[k].until \in Int
<1>1. ASSUME e.type = "FirewallRuleUpserted"
      PROVE  Until(t)
  <2> DEFINE k == e.rule
             body == e.body
  <2>1. t.rules = Put(x.rules, k, body)
    BY <1>1, FirewallRuleUpsertedEffect DEF FirewallRuleUpsertedRules
  <2>2. body.until \in Int
    BY <1>1 DEF Proper
  <2> HIDE DEF k, body
  <2> QED
    BY <2>1, <2>2 DEF Put, Ruled
<1>2. ASSUME e.type = "FirewallRuleDeleted"
      PROVE  Until(t)
  <2> DEFINE K == {e.rule}
  <2>1. t.rules = Drop(x.rules, K)
    BY <1>2, FirewallRuleDeletedEffect DEF FirewallRuleDeletedRules
  <2> HIDE DEF K
  <2> QED
    BY <2>1 DEF Drop, Ruled
<1>3. ASSUME t.rules = x.rules
      PROVE  Until(t)
  BY <1>3 DEF Ruled
<1>4. Until(t)
  <2> HIDE DEF Until
  <2> QED
    BY <1>1, <1>2, <1>3, ChangedBy
<1>5. ASSUME e.type = "DatabaseBackupStarted"
      PROVE  DOMAIN t.backups \subseteq Int
  <2>1. t.backups = DatabaseBackupStartedBackups(x, e)
    BY <1>5, DatabaseBackupStartedEffect
  <2> DEFINE row == [status |-> "creating", db |-> e.db, data |-> 0, version |-> 0,
                     rate |-> 0, completed |-> Never, billed |-> 0]
  <2>4. t.backups = Put(x.backups, e.backup, row)
    BY <2>1 DEF DatabaseBackupStartedBackups
  <2> HIDE DEF row
  <2>2. DOMAIN t.backups = DOMAIN x.backups \cup {e.backup}
    BY <2>4 DEF Put
  <2>3. e.backup \in Int
    BY <1>5 DEF Proper
  <2> QED
    BY <2>2, <2>3 DEF Ruled
<1>6. ASSUME e.type = "DatabaseBackupCompleted"
      PROVE  DOMAIN t.backups \subseteq Int
  <2>1. t.backups = DatabaseBackupCompletedBackups(x, e)
    BY <1>6, DatabaseBackupCompletedEffect
  <2>2. DOMAIN t.backups = DOMAIN x.backups
    BY <2>1 DEF DatabaseBackupCompletedBackups
  <2> QED
    BY <2>2 DEF Ruled
<1>7. e.type # "BackupStorageCostAccrued"
  BY DEF Proper, AlikeTypes, CostTypes
<1>8. DOMAIN t.backups \subseteq Int
  <2>1. CASE t.backups = x.backups
    BY <2>1 DEF Ruled
  <2> QED
    BY <1>5, <1>6, <1>7, <2>1, ChangedBy
<1> QED
  BY <1>4, <1>8 DEF Ruled

LEMMA DependenciesSame ==
    ASSUME NEW x, NEW t, t.firewallDown = x.firewallDown, t.backendDown = x.backendDown,
           t.site.db = x.site.db, x.site.db \in DOMAIN x.dbs, x.site.db \in DOMAIN t.dbs,
           t.dbs[x.site.db].ready = x.dbs[x.site.db].ready,
           t.dbs[x.site.db].reasons = x.dbs[x.site.db].reasons
    PROVE  DependenciesUp(t) = DependenciesUp(x)
  BY DEF DependenciesUp, Available

\* A fact about what the site needs opens or closes its outage as it should.
LEMMA OutageFact ==
    ASSUME NEW z, "site" \in DOMAIN z, DOMAIN z.site = SiteFields, NEW up, NEW at, at # Never,
           z.site.status # "running" => z.site.since # Never,
           z.site.status = "running" /\ up => (z.site.since = Never => DependenciesUp(z)),
           z.site.status = "running" /\ ~up => ~DependenciesUp(z)
    PROVE  AvailabilityFact(z, up, at).site.since # Never
             <=> z.site.status # "running" \/ ~DependenciesUp(z)
<1>1. CASE z.site.status # "running"
  BY <1>1 DEF AvailabilityFact
<1>2. CASE z.site.status = "running" /\ up
  BY <1>2 DEF AvailabilityFact, CloseOutage, SiteFields
<1>3. CASE z.site.status = "running" /\ ~up
  BY <1>3 DEF AvailabilityFact, OpenOutage, SiteFields
<1> QED
  BY <1>1, <1>2, <1>3

\* What of the site's database decides: it stays ready while the site runs.
LEMMA ReadyStep ==
    ASSUME NEW T, NEW x, DOMAIN x = Fields, Placed(x), NEW e, Proper(T, x, e),
           NEW t \in Handled(x, e), x.site.status = "running", x.dbs[x.site.db].ready
    PROVE  x.site.db \in DOMAIN t.dbs /\ t.dbs[x.site.db].ready
<1> DEFINE i == x.site.db
<1>0. i \in DOMAIN x.dbs /\ DOMAIN x.dbs[i] = DatabaseFields
  BY DEF Placed, Rows
<1>1. CASE e.type = "DatabaseAvailabilityChanged"
  <2>1. t.dbs = DatabaseAvailabilityChangedDbs(x, e)
    BY <1>1, DatabaseAvailabilityChangedEffect
  <2> QED
    BY <1>0, <2>1 DEF DatabaseAvailabilityChangedDbs, DatabaseFields
<1>2. CASE e.type = "DatabaseStorageIncreased"
  <2>1. t.dbs = DatabaseStorageIncreasedDbs(x, e)
    BY <1>2, DatabaseStorageIncreasedEffect
  <2> QED
    BY <1>0, <2>1 DEF DatabaseStorageIncreasedDbs, DatabaseFields
<1>3. CASE e.type = "DatabaseRestoreCompleted"
  <2>1. t.dbs = DatabaseRestoreCompletedDbs(x, e)
    BY <1>3, DatabaseRestoreCompletedEffect
  <2> QED
    BY <1>0, <2>1 DEF DatabaseRestoreCompletedDbs, DatabaseFields
<1>4. CASE e.type = "DiskLogsCleaned"
  <2>1. t.dbs = DiskLogsCleanedDbs(x, e)
    BY <1>4, DiskLogsCleanedEffect
  <2> QED
    BY <1>0, <2>1 DEF DiskLogsCleanedDbs, DatabaseFields
<1>5. CASE e.type = "DatabaseRestoreStarted"
  <2>1. t.dbs = DatabaseRestoreStartedDbs(x, e) /\ e.db # i
    BY <1>5, DatabaseRestoreStartedEffect DEF Proper
  <2> QED
    BY <1>0, <2>1 DEF DatabaseRestoreStartedDbs
<1>6. CASE e.type = "DatabaseCreated"
  <2>1. t.dbs = DatabaseCreatedDbs(x, e) /\ DatabaseCreatedGuard(x, e)
    BY <1>6, DatabaseCreatedEffect
  <2>2. e.db # i
    BY <1>0, <2>1 DEF DatabaseCreatedGuard
  <2> DEFINE k == e.db
             row == [data |-> 0, logs |-> 0, version |-> 0, ready |-> TRUE,
                     reasons |-> {}, from |-> None]
  <2>3. t.dbs = Put(x.dbs, k, row)
    BY <2>1 DEF DatabaseCreatedDbs
  <2> HIDE DEF k, row
  <2>4. k # i
    BY <2>2 DEF k
  <2> QED
    BY <1>0, <2>3, <2>4 DEF Put
<1>7. CASE e.type = "DatabaseDeleted"
  <2> DEFINE K == {e.db}
  <2>1. t.dbs = Drop(x.dbs, K)
    BY <1>7, DatabaseDeletedEffect DEF DatabaseDeletedDbs, Drop
  <2>2. i \notin K
    BY <1>0, <1>7, DatabaseDeletedEffect DEF DatabaseDeletedGuard, Proper
  <2> HIDE DEF K
  <2> QED
    BY <1>0, <2>1, <2>2 DEF Drop
<1>8. CASE e.type = "ServerRemoved"
  <2> DEFINE K == {e.server}
  <2>1. t.dbs = Drop(x.dbs, K)
    BY <1>8, ServerRemovedEffect DEF ServerRemovedDbs, Drop
  <2>2. i \notin K
    BY <1>0, <1>8, ServerRemovedEffect DEF ServerRemovedGuard, Proper
  <2> HIDE DEF K
  <2> QED
    BY <1>0, <2>1, <2>2 DEF Drop
<1>9. CASE t.dbs = x.dbs
  BY <1>0, <1>9
<1> QED
  BY <1>1, <1>2, <1>3, <1>4, <1>5, <1>6, <1>7, <1>8, <1>9, ChangedBy

LEMMA FaultedStep ==
    ASSUME NEW T, NEW x, DOMAIN x = Fields, Placed(x), Faulted(x), NEW e, Proper(T, x, e),
           NEW t \in Handled(x, e)
    PROVE  Faulted(t)
<1> DEFINE i == x.site.db
<1>1. SiteChange(x, e, t) /\ DatabasesChange(x, e, t) /\ Placed(t)
  BY SiteStep, DatabasesStep, PlacedStep DEF Placed
<1>2. x.site.status = "running" => i \in DOMAIN t.dbs /\ t.dbs[i].ready
  BY ReadyStep DEF Faulted
<1>3. i \in DOMAIN x.dbs /\ i # None /\ DOMAIN x.site = SiteFields
  BY ServersAssumption DEF Placed
<1>4. t.site.status = "running" => t.dbs[t.site.db].ready
  <2>1. CASE e.type = "SiteStarted"
    <3>1. t.dbs = x.dbs /\ t.site.db = i /\ x.dbs[i].ready
      BY <1>1, <2>1, SiteStartedEffect, ChangedBy
         DEF SiteChange, SiteStartedGuard, Available
    <3> QED
      BY <3>1
  <2>2. CASE e.type # "SiteStarted"
    BY <1>1, <1>2, <2>2 DEF SiteChange, SameSite
  <2> QED
    BY <2>1, <2>2
<1> DEFINE Goal == t.site.since # Never <=> t.site.status # "running" \/ ~DependenciesUp(t)
<1>5. CASE e.type = "BackendAvailabilityChanged"
  <2> DEFINE z == [x EXCEPT !.backendDown = ~e.up]
  <2>1. /\ t.site = AvailabilityFact(z, e.up, e.at).site /\ t.backendDown = ~e.up
        /\ e.up = x.backendDown /\ e.at # Never
    BY <1>5, BackendAvailabilityChangedEffect
       DEF BackendAvailabilityChangedGuard, BackendAvailabilityChangedSite, Fact, Never
  <2>2. t.firewallDown = x.firewallDown /\ t.dbs = x.dbs
    BY <1>5, ChangedBy
  <2>3. z.site = x.site /\ z.backendDown = ~e.up /\ z.firewallDown = x.firewallDown
        /\ z.dbs = x.dbs /\ DOMAIN z = Fields
    BY DEF Fields
  <2> HIDE DEF z
  <2>4. AvailabilityFact(z, e.up, e.at).site.since # Never
          <=> z.site.status # "running" \/ ~DependenciesUp(z)
    <3>1. z.site.status = "running" /\ e.up => (z.site.since = Never => DependenciesUp(z))
      BY <2>1, <2>3 DEF Faulted, DependenciesUp
    <3>2. z.site.status = "running" /\ ~e.up => ~DependenciesUp(z)
      BY <2>3 DEF DependenciesUp
    <3> QED
      BY <1>3, <2>1, <2>3, <3>1, <3>2, OutageFact DEF Faulted, Fields
  <2>5. SameSite(t.site, x.site)
    BY <1>1, <1>5 DEF SiteChange
  <2>6. DependenciesUp(t) = DependenciesUp(z)
    BY <1>3, <2>1, <2>2, <2>3, <2>5, DependenciesSame DEF SameSite
  <2>7. Goal
    BY <2>1, <2>3, <2>4, <2>5, <2>6 DEF SameSite
  <2> QED
    BY <1>4, <2>7 DEF Faulted
<1>6. CASE e.type = "FirewallAvailabilityChanged"
  <2> DEFINE z == [x EXCEPT !.firewallDown = ~e.up]
  <2>1. /\ t.site = AvailabilityFact(z, e.up, e.at).site /\ t.firewallDown = ~e.up
        /\ e.up = x.firewallDown /\ e.at # Never
    BY <1>6, FirewallAvailabilityChangedEffect
       DEF FirewallAvailabilityChangedGuard, FirewallAvailabilityChangedSite, Fact, Never
  <2>2. t.backendDown = x.backendDown /\ t.dbs = x.dbs
    BY <1>6, ChangedBy
  <2>3. z.site = x.site /\ z.firewallDown = ~e.up /\ z.backendDown = x.backendDown
        /\ z.dbs = x.dbs /\ DOMAIN z = Fields
    BY DEF Fields
  <2> HIDE DEF z
  <2>4. AvailabilityFact(z, e.up, e.at).site.since # Never
          <=> z.site.status # "running" \/ ~DependenciesUp(z)
    <3>1. z.site.status = "running" /\ e.up => (z.site.since = Never => DependenciesUp(z))
      BY <2>1, <2>3 DEF Faulted, DependenciesUp
    <3>2. z.site.status = "running" /\ ~e.up => ~DependenciesUp(z)
      BY <2>3 DEF DependenciesUp
    <3> QED
      BY <1>3, <2>1, <2>3, <3>1, <3>2, OutageFact DEF Faulted, Fields
  <2>5. SameSite(t.site, x.site)
    BY <1>1, <1>6 DEF SiteChange
  <2>6. DependenciesUp(t) = DependenciesUp(z)
    BY <1>3, <2>1, <2>2, <2>3, <2>5, DependenciesSame DEF SameSite
  <2>7. Goal
    BY <2>1, <2>3, <2>4, <2>5, <2>6 DEF SameSite
  <2> QED
    BY <1>4, <2>7 DEF Faulted
<1>7. CASE e.type = "DatabaseAvailabilityChanged"
  <2> DEFINE z == [x EXCEPT !.dbs[e.db].reasons = e.reasons]
  <2>1. /\ t.site = DatabaseAvailabilityChangedSite(x, e) /\ e.at # Never
        /\ t.dbs = DatabaseAvailabilityChangedDbs(x, e)
        /\ e.db \in DOMAIN x.dbs /\ e.up = (e.reasons = {})
    BY <1>7, DatabaseAvailabilityChangedEffect
       DEF DatabaseAvailabilityChangedGuard, Fact, Never
  <2>2. t.backendDown = x.backendDown /\ t.firewallDown = x.firewallDown
    BY <1>7, ChangedBy
  <2>3. z.site = x.site /\ z.firewallDown = x.firewallDown /\ z.backendDown = x.backendDown
        /\ z.dbs = t.dbs /\ DOMAIN z = Fields
    BY <2>1 DEF Fields, DatabaseAvailabilityChangedDbs
  <2>4. t.site = IF i = e.db THEN AvailabilityFact(z, e.up, e.at).site ELSE x.site
    BY <2>1 DEF DatabaseAvailabilityChangedSite
  <2> HIDE DEF z
  <2>5. SameSite(t.site, x.site) /\ i \in DOMAIN t.dbs
    BY <1>1, <1>7, <1>3 DEF SiteChange, DatabasesChange
  <2>6. CASE i = e.db
    <3>1. t.dbs[i].reasons = e.reasons /\ t.dbs[i].ready = x.dbs[i].ready
      BY <1>3, <2>1, <2>6 DEF DatabaseAvailabilityChangedDbs, Placed, Rows, DatabaseFields
    <3>2. z.site.status = "running" /\ e.up => (z.site.since = Never => DependenciesUp(z))
      BY <1>3, <2>1, <2>3, <2>5, <3>1 DEF Faulted, DependenciesUp, Available
    <3>3. z.site.status = "running" /\ ~e.up => ~DependenciesUp(z)
      BY <1>3, <2>1, <2>3, <3>1 DEF DependenciesUp, Available
    <3>4. AvailabilityFact(z, e.up, e.at).site.since # Never
            <=> z.site.status # "running" \/ ~DependenciesUp(z)
      BY <1>3, <2>1, <2>3, <3>2, <3>3, OutageFact DEF Faulted, Fields
    <3>5. DependenciesUp(t) = DependenciesUp(z)
      BY <2>2, <2>3, <2>5, DependenciesSame DEF SameSite
    <3>6. Goal
      BY <2>3, <2>4, <2>5, <2>6, <3>4, <3>5 DEF SameSite
    <3> QED
      BY <1>4, <3>6 DEF Faulted
  <2>7. CASE i # e.db
    <3>1. t.dbs[i] = x.dbs[i]
      BY <1>3, <2>1, <2>7 DEF DatabaseAvailabilityChangedDbs
    <3>2. DependenciesUp(t) = DependenciesUp(x)
      BY <1>3, <2>2, <2>5, <3>1, DependenciesSame DEF SameSite
    <3>3. Goal
      BY <2>4, <2>7, <3>2 DEF Faulted
    <3> QED
      BY <1>4, <3>3 DEF Faulted
  <2> QED
    BY <2>6, <2>7
<1>8. CASE e.type = "SiteStopStarted"
  <2>1. t.site = OpenOutage([x EXCEPT !.site.status = "stopping", !.site.op = e.op], e.at).site
        /\ e.at # Never
    BY <1>8, SiteStopStartedEffect DEF SiteStopStartedSite, Proper
  <2>2. t.site.since # Never
    BY <1>3, <2>1 DEF OpenOutage, SiteFields, Fields
  <2> QED
    BY <1>1, <1>4, <1>8, <2>2 DEF Faulted, SiteChange
<1>9. CASE e.type \in {"SiteStopped", "SiteDatabaseChanged"}
  <2>1. t.site = SiteStoppedSite(x, e) \/ t.site = SiteDatabaseChangedSite(x, e)
    BY <1>9, SiteStoppedEffect, SiteDatabaseChangedEffect
  <2>2. t.site.since = x.site.since
    BY <1>3, <2>1 DEF SiteStoppedSite, SiteDatabaseChangedSite, SiteFields
  <2> QED
    BY <1>1, <1>4, <1>9, <2>2 DEF Faulted, SiteChange
<1>10. CASE e.type = "SiteStarted"
  <2> DEFINE z == [x EXCEPT !.site.status = "running", !.site.op = NoOperation]
  <2>1. t.site = CloseOutage(z, e.at).site
    BY <1>10, SiteStartedEffect DEF SiteStartedSite
  <2>2. /\ z.site.since = x.site.since /\ z.site.status = "running" /\ z.site.db = i
        /\ z.firewallDown = x.firewallDown /\ z.backendDown = x.backendDown
        /\ z.dbs = x.dbs /\ DOMAIN z = Fields /\ DOMAIN z.site = SiteFields
    BY <1>3 DEF Fields, SiteFields
  <2> HIDE DEF z
  <2>3. t.dbs = x.dbs /\ t.backendDown = x.backendDown /\ t.firewallDown = x.firewallDown
    BY <1>10, ChangedBy
  <2>4. x.site.since # Never
    BY <1>1, <1>10 DEF SiteChange, Faulted
  <2>5. t.site.status = "running" /\ t.site.db = i
    BY <1>1, <1>10 DEF SiteChange
  <2>6. DependenciesUp(t) = DependenciesUp(z)
    BY <1>3, <2>2, <2>3, <2>5, DependenciesSame
  <2>7. t.site.since # Never <=> ~DependenciesUp(z)
    BY <2>1, <2>2, <2>4 DEF CloseOutage, SiteFields, Fields
  <2> QED
    BY <1>4, <2>5, <2>6, <2>7 DEF Faulted
<1>11. CASE t.site = x.site /\ t.firewallDown = x.firewallDown /\ t.backendDown = x.backendDown
            /\ e.type # "DatabaseAvailabilityChanged"
  <2>1. CASE x.site.status = "running"
    <3>1. i \in DOMAIN t.dbs /\ t.dbs[i].ready /\ x.dbs[i].ready
      BY <1>2, <2>1 DEF Faulted
    <3>2. e.type = "DatabaseCreated" => e.db # i
      BY <1>3, DatabaseCreatedEffect DEF DatabaseCreatedGuard
    <3>3. e.type = "DatabaseDeleted" => e.db # i
      BY DatabaseDeletedEffect DEF DatabaseDeletedGuard
    <3>4. e.type = "ServerRemoved" => e.server # i
      BY <1>3 DEF Proper
    <3>5. t.dbs[i].reasons = x.dbs[i].reasons
      BY <1>1, <1>3, <1>11, <3>2, <3>3, <3>4 DEF DatabasesChange
    <3>6. DependenciesUp(t) = DependenciesUp(x)
      BY <1>3, <1>11, <3>1, <3>5 DEF DependenciesUp, Available
    <3> QED
      BY <1>4, <1>11, <3>6 DEF Faulted
  <2>2. CASE x.site.status # "running"
    BY <1>11, <2>2 DEF Faulted
  <2> QED
    BY <2>1, <2>2
<1> QED
  BY <1>5, <1>6, <1>7, <1>8, <1>9, <1>10, <1>11, ChangedBy

LEMMA SteadyStep ==
    ASSUME NEW T \in Int, NEW x, Steady(T, x), NEW e, Proper(T, x, e), ~Apply(x, e).refused
    PROVE  Steady(T, Apply(x, e)) /\ Apply(x, e) \in Handled(x, e)
<1> DEFINE t == Apply(x, e)
<1>1. DOMAIN x = Fields
  BY DEF Steady, Tables
<1>2. t \in Handled(x, e)
  BY <1>1, Accepted
<1>3. Tables(t)
  BY TablesKept DEF Steady
<1> HIDE DEF t
<1>4. Index(T, t)
  BY <1>2, IndexStep
<1>5. Named(t)
  BY <1>1, <1>2, NamedStep DEF Proper, Steady
<1>6. Attacked(t)
  BY <1>1, <1>2, AttackedStep DEF Proper, Steady
<1>7. Placed(t)
  BY <1>1, <1>2, PlacedStep DEF Steady
<1>8. Connected(t)
  BY <1>1, <1>2, ConnectedStep DEF Steady
<1>9. Ruled(t)
  BY <1>1, <1>2, RuledStep DEF Steady
<1>10. Faulted(t)
  BY <1>1, <1>2, FaultedStep DEF Steady
<1>11. Steady(T, t)
  BY <1>3, <1>4, <1>5, <1>6, <1>7, <1>8, <1>9, <1>10 DEF Steady
<1> QED
  BY <1>2, <1>11 DEF t

LEMMA SoundStep ==
    ASSUME NEW T \in Int, NEW x, Sound(T, x), NEW e, Proper(T, x, e), KeepsMark(x, e),
           ~Apply(x, e).refused
    PROVE  Sound(T, Apply(x, e)) /\ Apply(x, e) \in Handled(x, e)
<1>1. Steady(T, Apply(x, e)) /\ Apply(x, e) \in Handled(x, e)
  BY SteadyStep DEF Sound
<1>2. Marked(Apply(x, e))
  BY <1>1, MarkedStep DEF Sound, Steady, Tables
<1> QED
  BY <1>1, <1>2 DEF Sound

----------------------------------------------------------------------------
(* What has happened, as the events of a draft tell it                      *)

OccursIn(c, items, e) == Occurs(items, e)
History == INSTANCE FoldSteps WITH Op <- OccursIn, Inv <- AnyState, Weight <- LoadIn

LEMMA OccursFolds ==
    ASSUME NEW items, NEW es
    PROVE  History!Folded(0, items, es) = FoldLeft(Occurs, items, es)
  BY DEF History!Folded, FoldLeft, MapThenFoldSet,
         History!MapThenFoldSet, Max, History!Max, OccursIn

LEMMA OccursAppend ==
    ASSUME NEW items, NEW p, NEW q, Listed(p), Listed(q)
    PROVE  FoldLeft(Occurs, items, p \o q) = FoldLeft(Occurs, FoldLeft(Occurs, items, p), q)
<1>1. Len(p) \in Nat /\ DOMAIN p = 1..Len(p) /\ Len(q) \in Nat /\ DOMAIN q = 1..Len(q)
  BY ListedDomain
<1>2. /\ DOMAIN (p \o q) = 1..(Len(p) + Len(q))
      /\ \A i \in 1..Len(p) : (p \o q)[i] = p[i]
      /\ \A i \in 1..Len(q) : (p \o q)[Len(p) + i] = q[i]
  BY ListedAppend, ListedDomain
<1>3. History!Appended(p \o q, p, Len(p), q, Len(q))
  BY <1>1, <1>2 DEF History!Appended
<1>4. History!Folded(0, items, p \o q) = History!Folded(0, History!Folded(0, items, p), q)
  BY <1>1, <1>3, History!FoldAppend
<1> QED
  BY <1>4, OccursFolds

\* Events that are no items of the schedule add none.
LEMMA OccursNone ==
    ASSUME NEW items, NEW es, Listed(es), \A i \in 1..Len(es) : "seq" \notin DOMAIN es[i]
    PROVE  FoldLeft(Occurs, items, es) = items
<1>1. Len(es) \in Nat /\ DOMAIN es = 1..Len(es)
  BY ListedDomain
<1>2. PICK g : History!Unfolds(g, 0, items, es, Len(es))
  BY <1>1, History!Unfolded
<1>3. /\ g[0] = items
      /\ \A i \in 1..Len(es) : g[i] = Occurs(g[i - 1], es[i])
      /\ FoldLeft(Occurs, items, es) = g[Len(es)]
  BY <1>2, OccursFolds DEF History!Unfolds, OccursIn
<1> DEFINE S == {k \in Nat : k <= Len(es) => g[k] = items}
<1>4. 0 \in S
  BY <1>3
<1>5. ASSUME NEW k \in Nat, k \in S
      PROVE  k + 1 \in S
  <2> SUFFICES ASSUME k + 1 <= Len(es)
               PROVE  g[k + 1] = items
    OBVIOUS
  <2>1. k + 1 \in 1..Len(es) /\ (k + 1) - 1 = k /\ g[k] = items
    BY <1>1, <1>5
  <2> QED
    BY <1>3, <2>1 DEF Occurs
<1>6. Len(es) \in S
  <2> HIDE DEF S
  <2> QED
    BY <1>1, <1>4, <1>5, Events!SetInduction
<1> QED
  BY <1>3, <1>6

LEMMA OccursOne ==
    ASSUME NEW items, NEW e
    PROVE  FoldLeft(Occurs, items, <<e>>) = Occurs(items, e)
<1>0. Len(<<e>>) = 1 /\ <<e>>[1] = e /\ DOMAIN <<e>> = 1..1
  OBVIOUS
<1>1. PICK g : History!Unfolds(g, 0, items, <<e>>, 1)
  BY <1>0, History!Unfolded
<1>2. /\ g[0] = items /\ (\A i \in 1..1 : g[i] = OccursIn(0, g[i - 1], <<e>>[i]))
      /\ History!Folded(0, items, <<e>>) = g[1]
  BY <1>1 DEF History!Unfolds
<1>3. g[1] = Occurs(g[0], e)
  BY <1>0, <1>2 DEF OccursIn
<1> QED
  BY <1>2, <1>3, OccursFolds

----------------------------------------------------------------------------
(* A draft that tracks the journal                                          *)

ScheduleTypes == {"VisitorArrived", "TrafficAttackStarted", "TrafficAttackEnded",
                  "DatabaseGrowthRequested", "DiskLogsGrowthRequested"}

\* The first n items of the schedule, by number.
FirstItems(n) == [k \in 1..n |-> k]

\* What a server is for: what operation it waits for, and until when.
Roles(servers) ==
  [i \in DOMAIN servers |-> <<servers[i].status, servers[i].op, servers[i].ready>>]

\* Whether one of the rules denies a control profile.
Denying(rules, t) == Blocking([rules |-> rules], t) # {}

\* What few events change, as the context c of a draft tells it.
Holds(c, x) ==
  /\ x.cursor = c.cursor /\ x.rules = c.rules /\ x.firewallDown = c.down
  /\ x.ops = c.ops /\ Roles(x.servers) = c.roles
ContextTypes ==
  {"VisitorArrived", "TrafficAttackStarted", "TrafficAttackEnded", "DatabaseGrowthRequested",
   "DiskLogsGrowthRequested", "FirewallRuleUpserted", "FirewallRuleDeleted",
   "FirewallAvailabilityChanged", "OperationStarted", "OperationSucceeded",
   "ServerProvisioningStarted", "ServerActivated", "ServerDrainingStarted", "ServerRemoved"}

\* The journal stands at c.y when the draft begins, with the clock at c.T and
\* c.fired of the schedule behind it.  As long as the draft w is not refused,
\* the journal it makes can be applied, what it leads to is the draft's own
\* state but for the clock and the bill, and the index has not passed at.
Bears(c, at, w) ==
  /\ Draftlike(w)
  /\ ~w.st.refused =>
       /\ Steady(c.T, w.st)
       /\ Alike(w.st, ApplyAll(c.y, w.out)) /\ ApplyAll(c.y, w.out).now = c.T
       /\ w.st.indexed <= at
       /\ FoldLeft(Occurs, c.fired, w.out) = FirstItems(c.cursor)
       /\ Holds(c, w.st)
\* A stop that runs is the site's own, or it ended in this draft and its
\* operation is not over yet.
StopEnded(c, w) == c.over = FALSE /\ "stopOp" \in DOMAIN w /\ w.stopOp = SiteStop
Stops(c, w) ==
  /\ w.st.site.status = "stopping" => w.st.site.op = SiteStop /\ ~StopEnded(c, w)
  /\ SiteStop \in c.ops <=> w.st.site.status = "stopping" \/ StopEnded(c, w)
  /\ c.over = FALSE /\ "stopOp" \in DOMAIN w => w.stopOp \in {NoOperation, SiteStop}
Tracks(c, at, w) ==
  /\ Bears(c, at, w)
  /\ ~w.st.refused => /\ Marked(w.st) /\ Stops(c, w)
                      /\ "cursor" \in DOMAIN w => w.cursor = c.passed

\* What the next event of a draft has to be.
Timely(c, at, x, e) ==
  /\ Proper(c.T, x, e)
  /\ x.now = c.T \/ (e.type \in FactTypes /\ e.at <= c.T)
  /\ e.type \in {"PageRequestStarted", "VisitorArrived"} => e.at <= at
Fine(c, at, x, e) ==
  Timely(c, at, x, e) /\ e.type \notin ContextTypes /\ "seq" \notin DOMAIN e
\* ... and what neither marks a database nor stops the site.
Still(x, e) ==
  KeepsMark(x, e) /\ e.type \notin {"SiteStopStarted", "SiteStopped"}
SameRun(c, d) == d.y = c.y /\ d.T = c.T /\ d.fired = c.fired /\ d.over = c.over

LEMMA OneEmitted ==
    ASSUME NEW w, Draftlike(w), NEW e
    PROVE  /\ Draftlike(Emit(w, <<e>>))
           /\ Emit(w, <<e>>).st = Apply(w.st, e) /\ Emit(w, <<e>>).out = w.out \o <<e>>
           /\ DOMAIN Emit(w, <<e>>) = DOMAIN w
           /\ \A f \in DOMAIN w \ {"st", "out"} : Emit(w, <<e>>)[f] = w[f]
           /\ w.st.refused => Emit(w, <<e>>).st.refused
           /\ ~Emit(w, <<e>>).st.refused =>
                ~w.st.refused /\ Emit(w, <<e>>).st \in Handled(w.st, e)
           /\ e.type # "TimeAdvanced" => Emit(w, <<e>>).st.now = w.st.now
<1>1. Listed(<<e>>)
  BY ListedLiterals
<1>2. DOMAIN w.st = Fields
  BY DEF Draftlike, Tables
<1> DEFINE v == Emit(w, <<e>>)
<1>3. /\ v.st = ApplyAll(w.st, <<e>>) /\ v.out = w.out \o <<e>> /\ DOMAIN v = DOMAIN w
      /\ \A f \in DOMAIN w \ {"st", "out"} : v[f] = w[f]
      /\ Draftlike(v) /\ (w.st.refused => v.st.refused)
  BY <1>1, EmitFields
<1> HIDE DEF v
<1>4. v.st = Apply(w.st, e)
  BY <1>3, ApplyAllOne
<1>5. ~v.st.refused => ~w.st.refused /\ v.st \in Handled(w.st, e)
  BY <1>2, <1>4, Accepted
<1>6. e.type # "TimeAdvanced" => v.st.now = w.st.now
  BY <1>2, <1>4, ApplyShape
<1> QED
  BY <1>3, <1>4, <1>5, <1>6 DEF v

\* How far the index gets.
LEMMA IndexedStep ==
    ASSUME NEW T \in Int, NEW x, DOMAIN x = Fields, Index(T, x), NEW e, Proper(T, x, e),
           NEW t \in Handled(x, e), NEW at \in Int, x.indexed <= at,
           e.type \in {"PageRequestStarted", "VisitorArrived"} => e.at <= at
    PROVE  /\ t.indexed <= at
           /\ e.type \in {"PageRequestStarted", "VisitorArrived"} =>
                /\ e.at <= t.indexed /\ (x.indexed <= e.at => t.indexed = e.at)
                /\ DOMAIN t.capacity \subseteq DOMAIN x.capacity
<1>1. CASE e.type \in {"PageRequestStarted", "VisitorArrived"}
  <2> DEFINE p == Prune(x, e.at)
  <2>1. t.capacity = p.capacity /\ t.indexed = p.indexed /\ e.at \in Int /\ e.at <= T
    BY <1>1, PageRequestStartedEffect, VisitorArrivedEffect DEF Proper
  <2>2. e.at <= p.indexed /\ (x.indexed <= e.at => p.indexed = e.at)
    BY <2>1, PruneIndexed
  <2>3. p.indexed <= at
    <3>1. CASE x.indexed <= e.at
      BY <1>1, <2>2, <3>1
    <3>2. CASE ~(x.indexed <= e.at)
      <4>1. p = x
        BY <2>1, <3>2 DEF Prune, Index
      <4> QED
        BY <4>1
    <3> QED
      BY <3>1, <3>2
  <2>4. DOMAIN p.capacity \subseteq DOMAIN x.capacity
    BY PruneDomain
  <2> HIDE DEF p
  <2> QED
    BY <2>1, <2>2, <2>3, <2>4
<1>2. CASE e.type \notin {"PageRequestStarted", "VisitorArrived"}
  <2>1. t.indexed = x.indexed
    BY <1>2, ChangedBy DEF Proper, AlikeTypes
  <2> QED
    BY <1>2, <2>1
<1> QED
  BY <1>1, <1>2

LEMMA RolesStep ==
    ASSUME NEW x, DOMAIN x = Fields, Rows(x.servers, ServerFields), NEW e,
           NEW t \in Handled(x, e), e.type \notin ContextTypes
    PROVE  Roles(t.servers) = Roles(x.servers)
<1>1. CASE e.type = "DiskLogsCleaned"
  <2>1. t.servers = DiskLogsCleanedServers(x, e) /\ e.server \in DOMAIN x.servers
    BY <1>1, DiskLogsCleanedEffect DEF DiskLogsCleanedGuard
  <2> QED
    BY <2>1 DEF DiskLogsCleanedServers, Roles, Rows, ServerFields
<1>2. CASE e.type = "DiskLogsIncreased"
  <2>1. t.servers = DiskLogsIncreasedServers(x, e) /\ e.server \in DOMAIN x.servers
    BY <1>2, DiskLogsIncreasedEffect DEF DiskLogsIncreasedGuard
  <2> QED
    BY <2>1 DEF DiskLogsIncreasedServers, Roles, Rows, ServerFields
<1>3. CASE e.type = "InfrastructureCostAccrued"
  <2>1. t.servers = InfrastructureCostAccruedServers(x, e) /\ e.server \in DOMAIN x.servers
    BY <1>3, InfrastructureCostAccruedEffect DEF InfrastructureCostAccruedGuard
  <2> QED
    BY <2>1 DEF InfrastructureCostAccruedServers, Roles, Rows, ServerFields
<1>4. CASE e.type \notin {"DiskLogsCleaned", "DiskLogsIncreased", "InfrastructureCostAccrued"}
  <2>1. t.servers = x.servers
    BY <1>4, ChangedBy DEF ContextTypes
  <2> QED
    BY <2>1
<1> QED
  BY <1>1, <1>2, <1>3, <1>4

LEMMA HoldsStep ==
    ASSUME NEW c, NEW x, DOMAIN x = Fields, Rows(x.servers, ServerFields), Holds(c, x), NEW e,
           NEW t \in Handled(x, e), e.type \notin ContextTypes
    PROVE  Holds(c, t)
<1>1. Roles(t.servers) = Roles(x.servers)
  BY RolesStep
<1>2. /\ t.cursor = x.cursor /\ t.rules = x.rules /\ t.firewallDown = x.firewallDown
      /\ t.ops = x.ops
  BY ChangedBy DEF ContextTypes
<1> QED
  BY <1>1, <1>2 DEF Holds

\* An event that takes the draft from context c to context d.
LEMMA EmitBearsTo ==
    ASSUME NEW c, c.T \in Int, NEW at \in Int, NEW w, Bears(c, at, w), NEW e,
           NEW d, SameRun(c, d),
           ~Apply(w.st, e).refused =>
             /\ Timely(c, at, w.st, e) /\ Holds(d, Apply(w.st, e))
             /\ Occurs(FirstItems(c.cursor), e) = FirstItems(d.cursor)
    PROVE  Bears(d, at, Emit(w, <<e>>))
<1> DEFINE v == Emit(w, <<e>>)
           x == w.st
           t == v.st
           y == ApplyAll(c.y, w.out)
<1>1. /\ Draftlike(w) /\ Draftlike(v) /\ t = Apply(x, e) /\ v.out = w.out \o <<e>>
      /\ ~t.refused => ~x.refused /\ t \in Handled(x, e)
  BY OneEmitted DEF Bears
<1> HIDE DEF v
<1>2. ASSUME ~t.refused
      PROVE  /\ Steady(d.T, t)
             /\ Alike(t, ApplyAll(d.y, v.out)) /\ ApplyAll(d.y, v.out).now = d.T
             /\ t.indexed <= at /\ Holds(d, t)
             /\ FoldLeft(Occurs, d.fired, v.out) = FirstItems(d.cursor)
  <2>1. /\ ~x.refused /\ t \in Handled(x, e) /\ Timely(c, at, x, e) /\ Holds(d, t)
        /\ Steady(c.T, x) /\ Alike(x, y) /\ y.now = c.T /\ x.indexed <= at
        /\ FoldLeft(Occurs, c.fired, w.out) = FirstItems(c.cursor)
        /\ Occurs(FirstItems(c.cursor), e) = FirstItems(d.cursor)
    BY <1>1, <1>2 DEF Bears
  <2>2. Proper(c.T, x, e) /\ DOMAIN x = Fields /\ e.type \in AlikeTypes
    BY <2>1 DEF Timely, Proper, Steady, Tables
  <2>3. Steady(c.T, t)
    BY <1>1, <1>2, <2>1, <2>2, SteadyStep
  <2>4. ApplyAll(c.y, v.out) = Apply(y, e)
    BY <1>1, ApplyAllAppend, ApplyAllOne, ListedLiterals DEF Draftlike
  <2>5. TimeFits(e, x, y)
    BY <2>1 DEF Timely, TimeFits
  <2>6. Alike(t, Apply(y, e)) /\ Apply(y, e).now = c.T
    <3>1. Alike(t, Apply(y, e))
      BY <1>1, <1>2, <2>1, <2>2, <2>5, AlikeApply
    <3>2. e.type # "TimeAdvanced" /\ DOMAIN y = Fields
      BY <2>1, <2>2 DEF AlikeTypes, Alike
    <3> QED
      BY <2>1, <3>1, <3>2, ApplyShape
  <2>7. t.indexed <= at
    BY <2>1, <2>2, IndexedStep DEF Timely, Steady
  <2>8. FoldLeft(Occurs, c.fired, v.out) = FirstItems(d.cursor)
    <3>1. FoldLeft(Occurs, c.fired, v.out)
            = FoldLeft(Occurs, FoldLeft(Occurs, c.fired, w.out), <<e>>)
      BY <1>1, OccursAppend, ListedLiterals DEF Draftlike
    <3> QED
      BY <2>1, <3>1, OccursOne
  <2> QED
    BY <2>1, <2>3, <2>4, <2>6, <2>7, <2>8 DEF SameRun
<1>3. Bears(d, at, v)
  BY <1>1, <1>2 DEF Bears
<1> QED
  BY <1>3 DEF v

LEMMA EmitBears ==
    ASSUME NEW c, c.T \in Int, NEW at \in Int, NEW w, Bears(c, at, w), NEW e,
           ~Apply(w.st, e).refused => Fine(c, at, w.st, e)
    PROVE  Bears(c, at, Emit(w, <<e>>))
<1>1. ASSUME ~Apply(w.st, e).refused
      PROVE  /\ Timely(c, at, w.st, e) /\ Holds(c, Apply(w.st, e))
             /\ Occurs(FirstItems(c.cursor), e) = FirstItems(c.cursor)
  <2>1. DOMAIN w.st = Fields /\ Rows(w.st.servers, ServerFields)
    BY DEF Bears, Draftlike, Tables
  <2>2. ~w.st.refused /\ Apply(w.st, e) \in Handled(w.st, e)
    BY <1>1, <2>1, Accepted
  <2>3. Holds(c, Apply(w.st, e))
    BY <1>1, <2>1, <2>2, HoldsStep DEF Fine, Bears
  <2> QED
    BY <1>1, <2>3 DEF Fine, Occurs
<1> QED
  BY <1>1, EmitBearsTo DEF SameRun

LEMMA StopsStep ==
    ASSUME NEW w, DOMAIN w.st = Fields, DOMAIN w.st.site = SiteFields, NEW c, Stops(c, w),
           NEW e, e.type \notin {"SiteStopStarted", "SiteStopped"},
           NEW v, v.st \in Handled(w.st, e), DOMAIN v = DOMAIN w,
           \A f \in DOMAIN w \ {"st", "out"} : v[f] = w[f],
           NEW d, d.over = c.over, SiteStop \in d.ops <=> SiteStop \in c.ops
    PROVE  Stops(d, v)
<1>1. "stopOp" \in DOMAIN w => v["stopOp"] = w["stopOp"]
  OBVIOUS
<1>2. StopEnded(d, v) <=> StopEnded(c, w)
  BY <1>1 DEF StopEnded
<1>3. SiteChange(w.st, e, v.st)
  BY SiteStep
<1>4. /\ v.st.site.status = "stopping" <=> w.st.site.status = "stopping"
      /\ v.st.site.status = "stopping" => v.st.site.op = w.st.site.op
  BY <1>3 DEF SiteChange, SameSite
<1> QED
  BY <1>1, <1>2, <1>4 DEF Stops

LEMMA EmitTracksTo ==
    ASSUME NEW c, c.T \in Int, NEW at \in Int, NEW w, Tracks(c, at, w), NEW e,
           NEW d, SameRun(c, d), d.passed = c.passed, SiteStop \in d.ops <=> SiteStop \in c.ops,
           ~Apply(w.st, e).refused =>
             /\ Timely(c, at, w.st, e) /\ Holds(d, Apply(w.st, e)) /\ Still(w.st, e)
             /\ Occurs(FirstItems(c.cursor), e) = FirstItems(d.cursor)
    PROVE  Tracks(d, at, Emit(w, <<e>>))
<1> DEFINE v == Emit(w, <<e>>)
<1>1. Bears(d, at, v)
  BY EmitBearsTo DEF Tracks
<1>2. /\ v.st = Apply(w.st, e) /\ DOMAIN v = DOMAIN w
      /\ \A f \in DOMAIN w \ {"st", "out"} : v[f] = w[f]
      /\ ~v.st.refused => ~w.st.refused /\ v.st \in Handled(w.st, e)
  BY OneEmitted DEF Tracks, Bears
<1>3. "cursor" \in DOMAIN w => v["cursor"] = w["cursor"]
  BY <1>2
<1> HIDE DEF v
<1>4. ASSUME ~v.st.refused
      PROVE  Marked(v.st) /\ Stops(d, v) /\ ("cursor" \in DOMAIN v => v.cursor = d.passed)
  <2>1. /\ v.st \in Handled(w.st, e) /\ Proper(c.T, w.st, e) /\ Still(w.st, e)
        /\ Steady(c.T, w.st) /\ Marked(w.st) /\ Stops(c, w)
        /\ "cursor" \in DOMAIN w => w.cursor = c.passed
    BY <1>2, <1>4 DEF Tracks, Bears, Timely
  <2>2. DOMAIN w.st = Fields /\ DOMAIN w.st.site = SiteFields
    BY <2>1 DEF Steady, Tables, Placed
  <2>3. Marked(v.st)
    BY <2>1, <2>2, MarkedStep DEF Steady, Still
  <2>4. Stops(d, v)
    BY <1>2, <2>1, <2>2, StopsStep DEF Still, SameRun
  <2> QED
    BY <1>2, <1>3, <2>1, <2>3, <2>4
<1>5. Tracks(d, at, v)
  BY <1>1, <1>4 DEF Tracks
<1> QED
  BY <1>5 DEF v

LEMMA EmitTracks ==
    ASSUME NEW c, c.T \in Int, NEW at \in Int, NEW w, Tracks(c, at, w), NEW e,
           ~Apply(w.st, e).refused => Fine(c, at, w.st, e) /\ Still(w.st, e)
    PROVE  Tracks(c, at, Emit(w, <<e>>))
<1>1. ASSUME ~Apply(w.st, e).refused
      PROVE  /\ Timely(c, at, w.st, e) /\ Holds(c, Apply(w.st, e)) /\ Still(w.st, e)
             /\ Occurs(FirstItems(c.cursor), e) = FirstItems(c.cursor)
  <2>1. DOMAIN w.st = Fields /\ Rows(w.st.servers, ServerFields) /\ Bears(c, at, w)
    BY DEF Tracks, Bears, Draftlike, Tables
  <2>2. ~w.st.refused /\ Apply(w.st, e) \in Handled(w.st, e)
    BY <1>1, <2>1, Accepted
  <2>3. Holds(c, Apply(w.st, e))
    BY <1>1, <2>1, <2>2, HoldsStep DEF Fine, Bears
  <2> QED
    BY <1>1, <2>3 DEF Fine, Occurs
<1> QED
  BY <1>1, EmitTracksTo DEF SameRun
----------------------------------------------------------------------------
(* Sorting                                                                  *)

\* sort.Slice lists every member of a finite ordered set once, in its order.
OrderedBy(before, S) ==
  /\ \A x \in S : <<x, x>> \notin before
  /\ \A x, y \in S : x # y => <<x, y>> \in before \/ <<y, x>> \in before
  /\ \A x, y, z \in S : <<x, y>> \in before /\ <<y, z>> \in before => <<x, z>> \in before
Enumerates(es, S) ==
  /\ Listed(es) /\ Len(es) = Cardinality(S) /\ Len(es) \in Nat /\ DOMAIN es = 1..Len(es)
  /\ \A k \in 1..Len(es) : es[k] \in S
  /\ \A j, k \in 1..Len(es) : es[j] = es[k] => j = k

LEMMA SortedMembers ==
    ASSUME NEW S, IsFiniteSet(S), NEW before, OrderedBy(before, S)
    PROVE  /\ Enumerates(Sorted(S, before), S)
           /\ \A j, k \in 1..Cardinality(S) : j < k =>
                <<Sorted(S, before)[j], Sorted(S, before)[k]>> \in before
<1> DEFINE n == Cardinality(S)
           below == [x \in S |-> {y \in S : <<y, x>> \in before}]
           rank == [x \in S |-> Cardinality(below[x])]
           f == Sorted(S, before)
<1>1. /\ n \in Nat
      /\ \A x, y \in S : rank[x] = rank[y] => x = y
      /\ \A x, y \in S : y \in below[x] => rank[y] < rank[x]
      /\ \A j \in 0..(n - 1) : \E x \in S : rank[x] = j
  <2>1. below \in [S -> SUBSET S]
    OBVIOUS
  <2>2. /\ \A x \in S : x \notin below[x]
        /\ \A x, y \in S : x # y => x \in below[y] \/ y \in below[x]
        /\ \A x, y \in S : y \in below[x] => below[y] \subseteq below[x]
    BY DEF OrderedBy
  <2> HIDE DEF below
  <2> QED
    <3>1. Events!IsFiniteSet(S)
      BY SameSizes
    <3>2. /\ Events!Cardinality(S) \in Nat
          /\ \A x, y \in S : Events!Cardinality(below[x]) = Events!Cardinality(below[y]) => x = y
          /\ \A x, y \in S : y \in below[x] =>
               Events!Cardinality(below[y]) < Events!Cardinality(below[x])
          /\ \A j \in 0..(Events!Cardinality(S) - 1) :
               \E x \in S : Events!Cardinality(below[x]) = j
      BY <2>1, <2>2, <3>1, Events!RanksOnto
    <3>3. \A Z : Events!Cardinality(Z) = Cardinality(Z)
      BY SameSizes
    <3> HIDE DEF n, rank
    <3>4. n = Cardinality(S) /\ \A x \in S : rank[x] = Cardinality(below[x])
      BY DEF n, rank
    <3>5. Events!Cardinality(S) = n /\ \A x \in S : Events!Cardinality(below[x]) = rank[x]
      BY <3>3, <3>4
    <3>6. \A x, y \in S : y \in below[x] => rank[y] < rank[x]
      BY <3>2, <3>5
    <3>7. \A j \in 0..(n - 1) : \E x \in S : rank[x] = j
      BY <3>2, <3>5
    <3>8. n \in Nat /\ \A x, y \in S : rank[x] = rank[y] => x = y
      BY <3>2, <3>5
    <3> QED
      BY <3>6, <3>7, <3>8
<1>2. \A x, y \in S : y \in below[x] <=> <<y, x>> \in before
  OBVIOUS
<1>3. f = [k \in 1..n |-> CHOOSE x \in S : Cardinality({y \in S : <<y, x>> \in before}) = k - 1]
  BY DEF Sorted
<1>4. ASSUME NEW k \in 1..n
      PROVE  f[k] \in S /\ rank[f[k]] = k - 1
  <2>1. k - 1 \in 0..(n - 1)
    <3> HIDE DEF n
    <3> QED
      BY <1>1
  <2>2. PICK x \in S : rank[x] = k - 1
    BY <1>1, <2>1
  <2>3. \A z \in S : rank[z] = Cardinality({y \in S : <<y, z>> \in before})
    OBVIOUS
  <2>4. f[k] = CHOOSE z \in S : Cardinality({y \in S : <<y, z>> \in before}) = k - 1
    BY <1>3
  <2> HIDE DEF rank, f
  <2> QED
    BY <2>2, <2>3, <2>4
<1>5. DOMAIN f = 1..n /\ f = [k \in DOMAIN f |-> f[k]]
  BY <1>3
<1> HIDE DEF rank, f, n, below
<1>6. Listed(f) /\ Len(f) = n
  BY <1>1, <1>5, ListedFunction
<1>7. \A j, k \in 1..n : f[j] = f[k] => j = k
  <2> SUFFICES ASSUME NEW j \in 1..n, NEW k \in 1..n, f[j] = f[k] PROVE j = k
    OBVIOUS
  <2>1. j - 1 = k - 1
    BY <1>4
  <2> QED
    BY <1>1, <2>1
<1>8. ASSUME NEW j \in 1..n, NEW k \in 1..n, j < k
      PROVE  <<f[j], f[k]>> \in before
  <2>1. f[j] \in S /\ f[k] \in S /\ rank[f[j]] = j - 1 /\ rank[f[k]] = k - 1 /\ j - 1 < k - 1
    BY <1>1, <1>4, <1>8
  <2>2. f[j] # f[k] /\ ~(rank[f[k]] < rank[f[j]])
    BY <1>1, <1>8, <2>1
  <2> QED
    BY <1>1, <1>2, <2>1, <2>2 DEF OrderedBy
<1>9. Enumerates(f, S)
  BY <1>1, <1>4, <1>5, <1>6, <1>7 DEF Enumerates, n
<1> QED
  BY <1>8, <1>9 DEF f, n

\* ... so none is left out.
LEMMA EnumeratesAll ==
    ASSUME NEW S, IsFiniteSet(S), NEW es, Enumerates(es, S)
    PROVE  \A x \in S : \E k \in 1..Len(es) : es[k] = x
<1>0. es = [k \in 1..Len(es) |-> es[k]]
  <2>1. PICK R : es \in Seq(R)
    BY DEF Enumerates, Listed
  <2> QED
    BY <2>1
<1>1. es \in Injection(1..Len(es), S) /\ Len(es) \in Nat /\ Len(es) = Cardinality(S)
  BY <1>0 DEF Enumerates, Injection, IsInjective
<1>2. IsFiniteSet(1..Len(es)) /\ Cardinality(1..Len(es)) = Len(es)
  BY <1>1, FS_Interval
<1>3. es \in Surjection(1..Len(es), S)
  BY <1>1, <1>2, FS_Injection
<1> QED
  BY <1>3 DEF Surjection

LEMMA AscendingMembers ==
    ASSUME NEW S, IsFiniteSet(S), S \subseteq Int
    PROVE  /\ Enumerates(Ascending(S), S)
           /\ \A j, k \in 1..Len(Ascending(S)) : j < k => Ascending(S)[j] < Ascending(S)[k]
<1> DEFINE before == {p \in S \X S : p[1] < p[2]}
<1>1. \A x, y \in S : <<x, y>> \in before <=> x < y
  OBVIOUS
<1>2. Ascending(S) = Sorted(S, before)
  BY DEF Ascending
<1> HIDE DEF before
<1>3. OrderedBy(before, S)
  BY <1>1 DEF OrderedBy
<1>4. /\ Enumerates(Ascending(S), S)
      /\ \A j, k \in 1..Cardinality(S) : j < k =>
           <<Ascending(S)[j], Ascending(S)[k]>> \in before
  BY <1>2, <1>3, SortedMembers
<1> QED
  BY <1>1, <1>4 DEF Enumerates

----------------------------------------------------------------------------
(* From one draft to a later one of the same decision                       *)

Goes(w, v) ==
  /\ DOMAIN v = DOMAIN w
  /\ \A f \in DOMAIN w \ {"st", "out", "cursor", "stopOp", "codes", "failed"} : v[f] = w[f]
  /\ v.st.now = w.st.now
  /\ w.st.refused => v.st.refused
Moves(w, v) == Draftlike(w) => Draftlike(v) /\ Goes(w, v)
Leads(c, at, w, v) == Moves(w, v) /\ (Tracks(c, at, w) => Tracks(c, at, v))

LEMMA MovesOn ==
    ASSUME NEW w, NEW v, NEW u, Moves(w, v), Moves(v, u)
    PROVE  Moves(w, u)
BY DEF Moves, Goes

LEMMA LeadsOn ==
    ASSUME NEW c, NEW at, NEW w, NEW v, NEW u, Leads(c, at, w, v), Leads(c, at, v, u)
    PROVE  Leads(c, at, w, u)
BY MovesOn DEF Leads

LEMMA LeadsStill ==
    ASSUME NEW c, NEW at, NEW w
    PROVE  Moves(w, w) /\ Leads(c, at, w, w)
BY DEF Moves, Leads, Goes

\* It is enough to look at a draft that is not refused: a refused one stays so.
LEMMA LeadsIf ==
    ASSUME NEW c, NEW at, NEW w, NEW v, Moves(w, v),
           Tracks(c, at, w) /\ ~w.st.refused => Tracks(c, at, v)
    PROVE  Leads(c, at, w, v)
BY DEF Leads, Moves, Goes, Tracks, Bears

LEMMA EmitMoves ==
    ASSUME NEW w, NEW es, Listed(es), \A i \in 1..Len(es) : es[i].type # "TimeAdvanced"
    PROVE  Moves(w, Emit(w, es))
<1> SUFFICES ASSUME Draftlike(w)
             PROVE  Draftlike(Emit(w, es)) /\ Goes(w, Emit(w, es))
  BY DEF Moves
<1>1. ApplyAll(w.st, es).now = w.st.now
  BY ShapeKept DEF Draftlike, Tables
<1> QED
  BY <1>1, EmitFields DEF Goes

LEMMA EmitLeads ==
    ASSUME NEW c, c.T \in Int, NEW at \in Int, NEW w, NEW e, e.type # "TimeAdvanced",
           Tracks(c, at, w) /\ ~Apply(w.st, e).refused => Fine(c, at, w.st, e) /\ Still(w.st, e)
    PROVE  Leads(c, at, w, Emit(w, <<e>>))
<1>1. Moves(w, Emit(w, <<e>>))
  BY OneEmitted DEF Goes, Moves
<1>2. Tracks(c, at, w) => Tracks(c, at, Emit(w, <<e>>))
  BY EmitTracks
<1> QED
  BY <1>1, <1>2 DEF Leads

\* A draft whose other fields change is as good a draft.
LEMMA EditMoves ==
    ASSUME NEW w, NEW v, v = [f \in DOMAIN v |-> v[f]], DOMAIN v = DOMAIN w,
           \A f \in DOMAIN w \ {"cursor", "codes", "failed"} : v[f] = w[f]
    PROVE  /\ Moves(w, v)
           /\ Draftlike(w) => Draftlike(v) /\ v.st = w.st /\ v.out = w.out
<1>1. ASSUME Draftlike(w)
      PROVE  Draftlike(v) /\ Goes(w, v) /\ v.st = w.st /\ v.out = w.out
  <2>1. {"st", "out"} \subseteq DOMAIN w
    BY <1>1 DEF Draftlike
  <2>2. v["st"] = w["st"] /\ v["out"] = w["out"]
    BY <2>1
  <2>3. v.st = w.st /\ v.out = w.out
    BY <2>2
  <2> QED
    BY <1>1, <2>1, <2>3 DEF Draftlike, Goes
<1> QED
  BY <1>1 DEF Moves

LEMMA EditLeads ==
    ASSUME NEW c, NEW at, NEW w, NEW v, v = [f \in DOMAIN v |-> v[f]], DOMAIN v = DOMAIN w,
           \A f \in DOMAIN w \ {"codes", "failed"} : v[f] = w[f]
    PROVE  Leads(c, at, w, v)
<1>1. Moves(w, v) /\ (Draftlike(w) => Draftlike(v) /\ v.st = w.st /\ v.out = w.out)
  BY EditMoves
<1>2. /\ "stopOp" \in DOMAIN w => v["stopOp"] = w["stopOp"]
      /\ "cursor" \in DOMAIN w => v["cursor"] = w["cursor"]
  OBVIOUS
<1>3. v.st = w.st /\ Stops(c, w) => Stops(c, v)
  BY <1>2 DEF Stops, StopEnded
<1>5. Tracks(c, at, w) => Tracks(c, at, v)
  BY <1>1, <1>2, <1>3 DEF Tracks, Bears
<1> QED
  BY <1>1, <1>5 DEF Leads

----------------------------------------------------------------------------
(* Availability facts of a draft                                            *)

LEMMA RecordStarvedMoves ==
    ASSUME NEW w, NEW pages, NEW t
    PROVE  Moves(w, RecordStarved(w, pages, t))
<1> DEFINE es == <<[type |-> "BackendAvailabilityChanged", up |-> pages = {},
                    pages |-> pages, at |-> t]>>
<1>1. Listed(es) /\ \A i \in 1..Len(es) : es[i].type # "TimeAdvanced"
  BY ListedLiterals
<1>2. RecordStarved(w, pages, t) = w \/ RecordStarved(w, pages, t) = Emit(w, es)
  BY DEF RecordStarved
<1> HIDE DEF es
<1> QED
  BY <1>1, <1>2, EmitMoves, LeadsStill

LEMMA RecordStarvedLeads ==
    ASSUME NEW c, c.T \in Int, NEW at \in Int, NEW w, NEW pages, NEW t \in Int, t <= c.T
    PROVE  Leads(c, at, w, RecordStarved(w, pages, t))
<1> DEFINE e == [type |-> "BackendAvailabilityChanged", up |-> pages = {},
                 pages |-> pages, at |-> t]
<1>1. /\ e.type = "BackendAvailabilityChanged" /\ e.at = t /\ "seq" \notin DOMAIN e
  OBVIOUS
<1>2. RecordStarved(w, pages, t) = w \/ RecordStarved(w, pages, t) = Emit(w, <<e>>)
  BY DEF RecordStarved
<1> HIDE DEF e
<1>3. Fine(c, at, w.st, e) /\ Still(w.st, e)
  BY <1>1 DEF Fine, Still, Proper, KeepsMark, AlikeTypes, KnownTypes, ServerTypes, CostTypes,
     FactTypes, Timely, ContextTypes
<1>4. Leads(c, at, w, Emit(w, <<e>>))
  BY <1>1, <1>3, EmitLeads
<1> QED
  BY <1>2, <1>4, LeadsStill

LEMMA RecordBackendsLeads ==
    ASSUME NEW w, NEW t
    PROVE  /\ Moves(w, RecordBackends(w, t))
           /\ \A c, at : c.T \in Int /\ at \in Int /\ t \in Int /\ t <= c.T =>
                Leads(c, at, w, RecordBackends(w, t))
BY RecordStarvedMoves, RecordStarvedLeads DEF RecordBackends

LEMMA RecordBlockingMoves ==
    ASSUME NEW w, NEW blocking, NEW t
    PROVE  Moves(w, RecordBlocking(w, blocking, t))
<1> DEFINE es == <<[type |-> "FirewallAvailabilityChanged", up |-> blocking = {},
                    blocking |-> blocking, at |-> t]>>
<1>1. Listed(es) /\ \A i \in 1..Len(es) : es[i].type # "TimeAdvanced"
  BY ListedLiterals
<1>2. RecordBlocking(w, blocking, t) = w \/ RecordBlocking(w, blocking, t) = Emit(w, es)
  BY DEF RecordBlocking
<1> HIDE DEF es
<1> QED
  BY <1>1, <1>2, EmitMoves, LeadsStill

\* The contexts a draft passes through: the firewall's verdict, how far the
\* boundaries are passed, how far the schedule.
Judging(c, down) ==
  [y |-> c.y, T |-> c.T, fired |-> c.fired, over |-> c.over, cursor |-> c.cursor,
   rules |-> c.rules, down |-> down, ops |-> c.ops, roles |-> c.roles, passed |-> c.passed]
Passing(c, p) ==
  [y |-> c.y, T |-> c.T, fired |-> c.fired, over |-> c.over, cursor |-> c.cursor,
   rules |-> c.rules, down |-> Denying(c.rules, p), ops |-> c.ops, roles |-> c.roles,
   passed |-> p]
Reaching(c, k) ==
  [y |-> c.y, T |-> c.T, fired |-> c.fired, over |-> c.over, cursor |-> k,
   rules |-> c.rules, down |-> c.down, ops |-> c.ops, roles |-> c.roles, passed |-> c.passed]

\* The verdict depends on the rules alone.
LEMMA BlockingByRules ==
    ASSUME NEW x, NEW y, x.rules = y.rules, NEW t
    PROVE  Blocking(x, t) = Blocking(y, t)
BY DEF Blocking, Deciding, Matching

\* A context is what its fields say.
LEMMA SameTracks ==
    ASSUME NEW c, NEW d, SameRun(c, d), d.cursor = c.cursor, d.rules = c.rules,
           d.down = c.down, d.ops = c.ops, d.roles = c.roles, d.passed = c.passed,
           NEW at, NEW w, Tracks(c, at, w)
    PROVE  Tracks(d, at, w)
BY DEF Tracks, Bears, Holds, Stops, StopEnded, SameRun

LEMMA RecordBlockingTracks ==
    ASSUME NEW c, c.T \in Int, NEW at \in Int, NEW w, Tracks(c, at, w), NEW t \in Int, t <= c.T
    PROVE  Tracks(Judging(c, Denying(c.rules, t)), at,
                  RecordBlocking(w, Blocking(w.st, t), t))
<1> DEFINE blocking == Blocking(w.st, t)
           d == Judging(c, Denying(c.rules, t))
           e == [type |-> "FirewallAvailabilityChanged", up |-> blocking = {},
                 blocking |-> blocking, at |-> t]
           u == RecordBlocking(w, blocking, t)
<1>1. /\ e.type = "FirewallAvailabilityChanged" /\ e.at = t /\ "seq" \notin DOMAIN e
      /\ e.up = (blocking = {})
  OBVIOUS
<1>2. u = IF (blocking # {}) = w.st.firewallDown THEN w ELSE Emit(w, <<e>>)
  BY DEF RecordBlocking
<1>3. /\ SameRun(c, d) /\ d.cursor = c.cursor /\ d.rules = c.rules /\ d.ops = c.ops
      /\ d.roles = c.roles /\ d.passed = c.passed /\ d.down = Denying(c.rules, t)
  BY DEF Judging, SameRun
<1>4. Draftlike(w) /\ DOMAIN w.st = Fields
  BY DEF Tracks, Bears, Draftlike, Tables
<1>5. CASE w.st.refused
  <2>1. Moves(w, u)
    BY RecordBlockingMoves
  <2> QED
    BY <1>4, <1>5, <2>1 DEF Moves, Goes, Tracks, Bears
<1>6. CASE ~w.st.refused
  <2>1. w.st.rules = c.rules /\ w.st.firewallDown = c.down /\ Holds(c, w.st)
    BY <1>6 DEF Tracks, Bears, Holds
  <2>2. blocking = Blocking([rules |-> c.rules], t)
    <3> DEFINE y == [rules |-> c.rules]
    <3>1. w.st.rules = y.rules
      BY <2>1
    <3> HIDE DEF y
    <3>2. Blocking(w.st, t) = Blocking(y, t)
      BY <3>1, BlockingByRules
    <3> QED
      BY <3>2 DEF y
  <2>3. d.down = (blocking # {})
    BY <1>3, <2>2 DEF Denying
  <2> HIDE DEF blocking, d, e
  <2>4. CASE (blocking # {}) = w.st.firewallDown
    <3>1. d.down = c.down /\ u = w
      BY <1>2, <2>1, <2>3, <2>4
    <3>2. Tracks(d, at, w)
      BY <1>3, <3>1, SameTracks
    <3> QED
      BY <3>1, <3>2 DEF blocking, d
  <2>5. CASE (blocking # {}) # w.st.firewallDown
    <3>1. ASSUME ~Apply(w.st, e).refused
          PROVE  /\ Timely(c, at, w.st, e) /\ Holds(d, Apply(w.st, e)) /\ Still(w.st, e)
                 /\ Occurs(FirstItems(c.cursor), e) = FirstItems(d.cursor)
      <4>1. Apply(w.st, e) \in Handled(w.st, e)
        BY <1>4, <3>1, Accepted
      <4>2. Timely(c, at, w.st, e) /\ Still(w.st, e)
        BY <1>1 DEF Timely, Still, Proper, KeepsMark, AlikeTypes, KnownTypes, FirewallTypes,
           CostTypes, FactTypes
      <4> DEFINE z == Apply(w.st, e)
      <4> HIDE DEF z
      <4>3. /\ z.firewallDown = ~e.up /\ Kept(w.st, z, {"firewallDown", "site"})
        BY <1>1, <1>4, <4>1, FirewallAvailabilityChangedEffect DEF z
      <4>4. Holds(d, z)
        BY <1>1, <1>3, <2>1, <2>3, <4>3 DEF Holds, Kept, Fields
      <4> QED
        BY <1>1, <1>3, <4>2, <4>4 DEF Occurs, z
    <3>2. Tracks(d, at, Emit(w, <<e>>))
      BY <1>3, <3>1, EmitTracksTo
    <3> QED
      BY <1>2, <2>5, <3>2 DEF blocking, d
  <2> QED
    BY <2>4, <2>5
<1> QED
  BY <1>5, <1>6
----------------------------------------------------------------------------
(* Boundaries: processAvailabilityBoundaries                                *)

LEMMA AtBoundaryMoves ==
    ASSUME NEW w, NEW t
    PROVE  Moves(w, AtBoundary(w, t))
<1> DEFINE v == IF t \in Expiries(w.st, Never, EndsAt)
                THEN RecordBlocking(w, Blocking(w.st, t), t) ELSE w
<1>1. Moves(w, v)
  BY RecordBlockingMoves, LeadsStill
<1>2. AtBoundary(w, t) = RecordBackends(v, t)
  BY DEF AtBoundary
<1> HIDE DEF v
<1> QED
  BY <1>1, <1>2, RecordBackendsLeads, MovesOn

\* Between two moments no rule expires in, the verdict is the same.
LEMMA DenyingSame ==
    ASSUME NEW rules, \A k \in DOMAIN rules : rules[k].until \in Int,
           NEW m \in Int, NEW t \in Int, m <= t,
           \A k \in DOMAIN rules : ~(m < rules[k].until /\ rules[k].until <= t)
    PROVE  Denying(rules, m) = Denying(rules, t)
<1> DEFINE x == [rules |-> rules]
<1>0. x.rules = rules
  OBVIOUS
<1> HIDE DEF x
<1>1. \A k \in DOMAIN rules : m < rules[k].until <=> t < rules[k].until
  OBVIOUS
<1>2. \A p : Matching(x, p, m) = Matching(x, p, t)
  BY <1>0, <1>1 DEF Matching
<1>3. \A p : Deciding(x, p, m) = Deciding(x, p, t)
  BY <1>2 DEF Deciding
<1>4. Blocking(x, m) = Blocking(x, t)
  BY <1>3 DEF Blocking
<1> QED
  BY <1>4 DEF Denying, x

LEMMA AtBoundaryTracks ==
    ASSUME NEW c, c.T \in Int, c.T <= EndsAt, NEW at \in Int, NEW w, NEW m \in Int,
           NEW t \in Int, t <= c.T, Never < t, m <= t,
           ~w.st.refused => \A k \in DOMAIN c.rules :
             c.rules[k].until \in Int /\ (m < c.rules[k].until => t <= c.rules[k].until),
           Tracks(Judging(c, Denying(c.rules, m)), at, w)
    PROVE  Tracks(Judging(c, Denying(c.rules, t)), at, AtBoundary(w, t))
<1> DEFINE a == Judging(c, Denying(c.rules, m))
           b == Judging(c, Denying(c.rules, t))
           v == IF t \in Expiries(w.st, Never, EndsAt)
                THEN RecordBlocking(w, Blocking(w.st, t), t) ELSE w
<1>1. a.T = c.T /\ b.T = c.T /\ a.rules = c.rules /\ Judging(a, Denying(a.rules, t)) = b
  BY DEF Judging
<1>2. Tracks(b, at, v)
  <2>1. CASE t \in Expiries(w.st, Never, EndsAt)
    <3>1. v = RecordBlocking(w, Blocking(w.st, t), t)
      BY <2>1
    <3> HIDE DEF a, b, v
    <3>2. Tracks(Judging(a, Denying(a.rules, t)), at, RecordBlocking(w, Blocking(w.st, t), t))
      BY <1>1, RecordBlockingTracks DEF a
    <3> QED
      BY <1>1, <3>1, <3>2
  <2>2. CASE t \notin Expiries(w.st, Never, EndsAt)
    <3>1. v = w
      BY <2>2
    <3>2. CASE w.st.refused
      BY <3>1, <3>2 DEF Tracks, Bears
    <3>3. CASE ~w.st.refused
      <4>1. w.st.rules = c.rules
        BY <1>1, <3>3 DEF Tracks, Bears, Holds
      <4>2. EndsAt \in Int
        BY ScheduleAssumption
      <4>3. \A k \in DOMAIN c.rules : c.rules[k].until # t
        <5> SUFFICES ASSUME NEW k \in DOMAIN c.rules, c.rules[k].until = t PROVE FALSE
          OBVIOUS
        <5>1. t \in {w.st.rules[q].until : q \in DOMAIN w.st.rules} /\ t <= EndsAt
          BY <4>1, <4>2
        <5> QED
          BY <2>2, <5>1 DEF Expiries
      <4>4. Denying(c.rules, m) = Denying(c.rules, t)
        <5>1. \A k \in DOMAIN c.rules :
                c.rules[k].until \in Int /\ ~(m < c.rules[k].until /\ c.rules[k].until <= t)
          BY <3>3, <4>3
        <5> QED
          BY <5>1, DenyingSame
      <4> QED
        BY <3>1, <4>4
    <3> QED
      BY <3>2, <3>3
  <2> QED
    BY <2>1, <2>2
<1>3. AtBoundary(w, t) = RecordBackends(v, t)
  BY DEF AtBoundary
<1> HIDE DEF v, b
<1>4. Leads(b, at, v, RecordBackends(v, t))
  BY <1>1, RecordBackendsLeads
<1> QED
  BY <1>2, <1>3, <1>4 DEF Leads, b

\* The boundaries passed one after the other: after the k-th the verdict is that
\* of its moment.
MomentOf(d, k) == IF k = 0 THEN d.c.passed ELSE d.ts[k]
JudgedTo(d, k, x) ==
  /\ Moves(d.w, x)
  /\ d.known = TRUE => Tracks(Judging(d.c, Denying(d.c.rules, MomentOf(d, k))), d.at, x)
BoundaryIn(d, x, t) == AtBoundary(x, t)
Boundaries == INSTANCE FoldSteps WITH Op <- BoundaryIn, Inv <- JudgedTo, Weight <- LoadIn

LEMMA BoundariesFold ==
    ASSUME NEW d, NEW w, NEW ts
    PROVE  Boundaries!Folded(d, w, ts) = FoldLeft(AtBoundary, w, ts)
  BY DEF Boundaries!Folded, FoldLeft, MapThenFoldSet,
         Boundaries!MapThenFoldSet, Max, Boundaries!Max, BoundaryIn

\* The moments of ts are those after c.passed at which a rule expires, or more.
Timetable(c, w, ts) ==
  /\ c.T \in Int /\ c.T <= EndsAt /\ c.passed \in Nat
  /\ c.down = Denying(c.rules, c.passed)
  /\ \A k \in 1..Len(ts) : ts[k] \in Int /\ c.passed < ts[k] /\ ts[k] <= c.T
  /\ \A j, k \in 1..Len(ts) : j < k => ts[j] < ts[k]
  /\ \A r \in DOMAIN c.rules :
       /\ c.rules[r].until \in Int
       /\ c.rules[r].until > c.passed =>
            \/ \E k \in 1..Len(ts) : ts[k] = c.rules[r].until
            \/ \A k \in 1..Len(ts) : ts[k] < c.rules[r].until

LEMMA FoldBoundaries ==
    ASSUME NEW c, NEW at \in Int, NEW w, NEW ts, Listed(ts), NEW b \in BOOLEAN,
           b = TRUE => Timetable(c, w, ts) /\ Tracks(c, at, w)
    PROVE  JudgedTo([w |-> w, c |-> c, at |-> at, known |-> b, ts |-> ts], Len(ts),
                    FoldLeft(AtBoundary, w, ts))
<1>0. Len(ts) \in Nat /\ DOMAIN ts = 1..Len(ts)
  BY ListedDomain
<1> DEFINE d == [w |-> w, c |-> c, at |-> at, known |-> b, ts |-> ts]
<1>1. d.w = w /\ d.c = c /\ d.at = at /\ d.known = b /\ d.ts = ts
  OBVIOUS
<1> HIDE DEF d
<1>2. JudgedTo(d, 0, w)
  <2>1. ASSUME b = TRUE
        PROVE  Tracks(Judging(c, Denying(c.rules, c.passed)), at, w)
    <3> DEFINE a == Judging(c, Denying(c.rules, c.passed))
    <3>1. /\ SameRun(c, a) /\ a.cursor = c.cursor /\ a.rules = c.rules /\ a.ops = c.ops
          /\ a.roles = c.roles /\ a.passed = c.passed /\ a.down = c.down
      BY <2>1 DEF Judging, SameRun, Timetable
    <3> HIDE DEF a
    <3>2. Tracks(a, at, w)
      BY <2>1, <3>1, SameTracks
    <3> QED
      BY <3>2 DEF a
  <2> QED
    BY <1>1, <2>1, LeadsStill DEF JudgedTo, MomentOf
<1>3. ASSUME NEW k \in 0..(Len(ts) - 1), NEW x, JudgedTo(d, k, x)
      PROVE  JudgedTo(d, k + 1, BoundaryIn(d, x, ts[k + 1]))
  <2>1. k + 1 \in 1..Len(ts) /\ k + 1 # 0
    BY <1>0
  <2>2. Moves(w, AtBoundary(x, ts[k + 1]))
    BY <1>1, <1>3, AtBoundaryMoves, MovesOn DEF JudgedTo
  <2>3. ASSUME b = TRUE
        PROVE  Tracks(Judging(c, Denying(c.rules, ts[k + 1])), at, AtBoundary(x, ts[k + 1]))
    <3> DEFINE m == MomentOf(d, k)
               t == ts[k + 1]
    <3>1. Timetable(c, w, ts) /\ Tracks(Judging(c, Denying(c.rules, m)), at, x)
      BY <1>1, <1>3, <2>3 DEF JudgedTo
    <3>2. t \in Int /\ c.passed < t /\ t <= c.T /\ c.passed \in Nat
      BY <2>1, <3>1 DEF Timetable
    <3>3. m \in Int /\ m < t /\ c.passed <= m
      <4>1. CASE k = 0
        BY <1>1, <3>2, <4>1 DEF MomentOf
      <4>2. CASE k # 0
        <5>1. k \in 1..Len(ts) /\ k < k + 1 /\ m = ts[k]
          BY <1>0, <1>1, <4>2 DEF MomentOf
        <5>2. ts[k] \in Int /\ c.passed < ts[k] /\ ts[k] < ts[k + 1]
          BY <2>1, <3>1, <5>1 DEF Timetable
        <5> QED
          BY <3>2, <5>1, <5>2
      <4> QED
        BY <4>1, <4>2
    <3>4. ASSUME NEW r \in DOMAIN c.rules
          PROVE  c.rules[r].until \in Int /\ (m < c.rules[r].until => t <= c.rules[r].until)
      <4>1. c.rules[r].until \in Int
        BY <3>1 DEF Timetable
      <4>2. ASSUME m < c.rules[r].until
            PROVE  t <= c.rules[r].until
        <5>1. c.rules[r].until > c.passed
          BY <3>2, <3>3, <4>1, <4>2
        <5>2. CASE \A j \in 1..Len(ts) : ts[j] < c.rules[r].until
          BY <2>1, <3>2, <4>1, <5>2
        <5>3. CASE \E j \in 1..Len(ts) : ts[j] = c.rules[r].until
          <6>1. PICK j \in 1..Len(ts) : ts[j] = c.rules[r].until
            BY <5>3
          <6>2. ~(j <= k)
            <7> SUFFICES ASSUME j <= k PROVE FALSE
              OBVIOUS
            <7>1. k \in 1..Len(ts) /\ m = ts[k]
              BY <1>0, <1>1 DEF MomentOf
            <7>2. ts[j] <= ts[k] /\ ts[k] \in Int /\ ts[j] \in Int
              BY <3>1, <7>1 DEF Timetable
            <7> QED
              BY <3>3, <4>2, <6>1, <7>1, <7>2
          <6>3. j = k + 1 \/ k + 1 < j
            BY <1>0, <6>2
          <6> QED
            BY <2>1, <3>1, <3>2, <6>1, <6>3 DEF Timetable
        <5> QED
          BY <3>1, <5>1, <5>2, <5>3 DEF Timetable
      <4> QED
        BY <4>1, <4>2
    <3>5. Never < t /\ m <= t
      BY <3>2, <3>3 DEF Never
    <3>6. c.T \in Int /\ c.T <= EndsAt
      BY <3>1 DEF Timetable
    <3> HIDE DEF m, t
    <3> QED
      BY <3>1, <3>2, <3>3, <3>4, <3>5, <3>6, AtBoundaryTracks DEF t
  <2> QED
    BY <1>1, <2>1, <2>2, <2>3 DEF JudgedTo, MomentOf, BoundaryIn
<1>4. JudgedTo(d, Len(ts), Boundaries!Folded(d, w, ts))
  BY <1>0, <1>2, <1>3, Boundaries!FoldKeeps
<1> QED
  BY <1>4, BoundariesFold DEF d

\* The moments of an interval at which something expires.
DueIn(w, until) ==
  Expiries(w.st, w.cursor, until)
  \cup {t \in {w.st.capacity[r].until : r \in DOMAIN w.st.capacity} :
          w.cursor < t /\ t <= until}

LEMMA DueFinite ==
    ASSUME NEW w, Draftlike(w), NEW until
    PROVE  IsFiniteSet(DueIn(w, until)) /\ Listed(Ascending(DueIn(w, until)))
<1> DEFINE R == {w.st.rules[k].until : k \in DOMAIN w.st.rules}
           C == {w.st.capacity[r].until : r \in DOMAIN w.st.capacity}
           S == DueIn(w, until)
<1>1. IsFiniteSet(DOMAIN w.st["rules"]) /\ IsFiniteSet(DOMAIN w.st["capacity"])
  BY DEF Draftlike, Tables
<1>2. IsFiniteSet(R) /\ IsFiniteSet(C)
  <2> DEFINE f == [k \in DOMAIN w.st.rules |-> w.st.rules[k].until]
             g == [r \in DOMAIN w.st.capacity |-> w.st.capacity[r].until]
  <2>1. f \in [DOMAIN w.st.rules -> R] /\ g \in [DOMAIN w.st.capacity -> C]
    OBVIOUS
  <2>2. /\ \A t \in R : \E k \in DOMAIN w.st.rules : f[k] = t
        /\ \A t \in C : \E k \in DOMAIN w.st.capacity : g[k] = t
    OBVIOUS
  <2> HIDE DEF f, g, R, C
  <2>3. f \in Surjection(DOMAIN w.st.rules, R) /\ g \in Surjection(DOMAIN w.st.capacity, C)
    BY <2>1, <2>2 DEF Surjection
  <2> QED
    BY <1>1, <2>3, FS_Surjection
<1>3. S \subseteq R \cup C
  BY DEF DueIn, Expiries
<1> HIDE DEF R, C
<1>4. IsFiniteSet(S)
  BY <1>2, <1>3, FS_Union, FS_Subset
<1>5. Cardinality(S) \in Nat
  BY <1>4, FS_CardinalityType
<1> HIDE DEF S
<1>6. Listed(Ascending(S))
  BY <1>5, ListedFunction DEF Ascending, Sorted
<1> QED
  BY <1>4, <1>6 DEF S

LEMMA PassBoundariesMoves ==
    ASSUME NEW w, NEW until
    PROVE  Moves(w, PassBoundaries(w, until))
<1> SUFFICES ASSUME Draftlike(w)
             PROVE  Moves(w, PassBoundaries(w, until))
  BY DEF Moves
<1> DEFINE ts == Ascending(DueIn(w, until))
           v == FoldLeft(AtBoundary, w, ts)
           u == [v EXCEPT !.cursor = Most(@, until)]
<1>1. PassBoundaries(w, until) = u
  BY DEF PassBoundaries, DueIn
<1>2. Moves(w, v)
  <2>1. Listed(ts) /\ 0 \in Int /\ FALSE \in BOOLEAN
    BY DueFinite
  <2> HIDE DEF ts
  <2>2. JudgedTo([w |-> w, c |-> 0, at |-> 0, known |-> FALSE, ts |-> ts], Len(ts), v)
    BY <2>1, FoldBoundaries
  <2> QED
    BY <2>2 DEF JudgedTo
<1> HIDE DEF v
<1>3. Draftlike(v) => v = [f \in DOMAIN v |-> v[f]]
  BY DEF Draftlike
<1>4. Moves(v, u)
  <2> SUFFICES ASSUME Draftlike(v) PROVE Moves(v, u)
    BY DEF Moves
  <2> QED
    BY <1>3, EditMoves
<1> QED
  BY <1>1, <1>2, <1>4, MovesOn

LEMMA PassBoundariesTracks ==
    ASSUME NEW c, c.T \in Int, c.T <= EndsAt, c.passed \in Nat,
           c.down = Denying(c.rules, c.passed), NEW at \in Int, NEW w, "cursor" \in DOMAIN w,
           Tracks(c, at, w), NEW until \in Int, until <= c.T
    PROVE  Tracks(Passing(c, Most(c.passed, until)), at, PassBoundaries(w, until))
<1> DEFINE due == DueIn(w, until)
           ts == Ascending(due)
           v == FoldLeft(AtBoundary, w, ts)
           u == [v EXCEPT !.cursor = Most(@, until)]
           p == Most(c.passed, until)
           z == Passing(c, p)
<1>0. Draftlike(w)
  BY DEF Tracks, Bears
<1>1. CASE w.st.refused
  <2>1. Moves(w, PassBoundaries(w, until))
    BY PassBoundariesMoves
  <2> QED
    BY <1>0, <1>1, <2>1 DEF Moves, Goes, Tracks, Bears
<1>2. CASE ~w.st.refused
  <2>1. PassBoundaries(w, until) = u
    BY DEF PassBoundaries, DueIn
  <2>2. Ruled(w.st) /\ Index(c.T, w.st) /\ w.st.rules = c.rules /\ w.cursor = c.passed
    BY <1>2 DEF Tracks, Bears, Steady, Holds
  <2>3. IsFiniteSet(due) /\ Listed(ts)
    BY <1>0, DueFinite
  <2>4. \A t \in due : t \in Int /\ t <= c.T /\ c.passed < t /\ t <= until
    <3> SUFFICES ASSUME NEW t \in due PROVE t \in Int /\ t <= c.T /\ c.passed < t /\ t <= until
      OBVIOUS
    <3>1. t <= until /\ c.passed < t
      BY <2>2 DEF DueIn, Expiries
    <3>2. t \in Int
      BY <2>2 DEF DueIn, Expiries, Ruled, Index, Allocation
    <3> QED
      BY <3>1, <3>2
  <2>5. \A r \in DOMAIN c.rules :
          /\ c.rules[r].until \in Int
          /\ c.passed < c.rules[r].until /\ c.rules[r].until <= until =>
               c.rules[r].until \in due
    BY <2>2 DEF Ruled, DueIn, Expiries
  <2> HIDE DEF due
  <2>6. /\ Enumerates(ts, due) /\ \A j, k \in 1..Len(ts) : j < k => ts[j] < ts[k]
    BY <2>3, <2>4, AscendingMembers
  <2>7. \A t \in due : \E k \in 1..Len(ts) : ts[k] = t
    <3> HIDE DEF ts
    <3> QED
      BY <2>3, <2>6, EnumeratesAll
  <2>8. Len(ts) \in Nat /\ \A k \in 1..Len(ts) : ts[k] \in due
    BY <2>6 DEF Enumerates
  <2> HIDE DEF ts
  <2>9. Timetable(c, w, ts)
    <3>1. ASSUME NEW r \in DOMAIN c.rules, c.rules[r].until > c.passed
          PROVE  \/ \E k \in 1..Len(ts) : ts[k] = c.rules[r].until
                 \/ \A k \in 1..Len(ts) : ts[k] < c.rules[r].until
      <4>1. CASE c.rules[r].until <= until
        BY <2>5, <2>7, <3>1, <4>1
      <4>2. CASE ~(c.rules[r].until <= until)
        BY <2>4, <2>5, <2>8, <3>1, <4>2
      <4> QED
        BY <4>1, <4>2
    <3> QED
      BY <2>4, <2>5, <2>6, <2>8, <3>1 DEF Timetable
  <2> DEFINE m == IF Len(ts) = 0 THEN c.passed ELSE ts[Len(ts)]
             j == Judging(c, Denying(c.rules, m))
  <2>10. Tracks(j, at, v) /\ Moves(w, v)
    <3> DEFINE d == [w |-> w, c |-> c, at |-> at, known |-> TRUE, ts |-> ts]
    <3>1. JudgedTo(d, Len(ts), v)
      BY <2>3, <2>9, FoldBoundaries
    <3>2. d.w = w /\ d.c = c /\ d.at = at /\ d.known = TRUE /\ d.ts = ts
      OBVIOUS
    <3> HIDE DEF d
    <3> QED
      BY <3>1, <3>2 DEF JudgedTo, MomentOf
  <2> HIDE DEF v
  <2>11. Denying(c.rules, m) = Denying(c.rules, p)
    <3>1. p \in Int /\ c.passed <= p /\ until <= p /\ (p = c.passed \/ p = until)
      BY DEF Most
    <3>2. m \in Int /\ m <= p /\ c.passed <= m
      <4>1. CASE Len(ts) = 0
        BY <3>1, <4>1
      <4>2. CASE Len(ts) # 0
        <5>1. Len(ts) \in 1..Len(ts) /\ m = ts[Len(ts)]
          BY <2>8, <4>2
        <5> QED
          BY <2>4, <2>8, <3>1, <5>1
      <4> QED
        BY <4>1, <4>2
    <3> HIDE DEF p
    <3>3. ASSUME NEW r \in DOMAIN c.rules, m < c.rules[r].until, c.rules[r].until <= p
          PROVE  FALSE
      <4>1. c.rules[r].until \in Int /\ c.passed < c.rules[r].until /\ c.rules[r].until <= until
        BY <2>5, <3>1, <3>2, <3>3
      <4>2. PICK k \in 1..Len(ts) : ts[k] = c.rules[r].until
        BY <2>5, <2>7, <4>1
      <4>3. Len(ts) # 0 /\ Len(ts) \in 1..Len(ts) /\ (k = Len(ts) \/ k < Len(ts))
        BY <2>8
      <4>4. ts[k] <= ts[Len(ts)] /\ m = ts[Len(ts)]
        BY <2>4, <2>6, <2>8, <4>3
      <4> QED
        BY <3>2, <3>3, <4>1, <4>2, <4>4
    <3> HIDE DEF m
    <3> QED
      BY <2>5, <3>1, <3>2, <3>3, DenyingSame
  <2>12. /\ SameRun(j, z) /\ z.cursor = j.cursor /\ z.rules = j.rules /\ z.down = j.down
         /\ z.ops = j.ops /\ z.roles = j.roles /\ z.passed = p /\ j.passed = c.passed
    BY <2>11 DEF Judging, Passing, SameRun
  <2>13. /\ Draftlike(v) /\ DOMAIN v = DOMAIN w
    BY <1>0, <2>10 DEF Moves, Goes
  <2>14. Moves(v, u) /\ Draftlike(u) /\ u.st = v.st /\ u.out = v.out
    <3>1. v = [f \in DOMAIN v |-> v[f]]
      BY <2>13 DEF Draftlike
    <3> QED
      BY <2>13, <3>1, EditMoves
  <2>15. /\ u["cursor"] = Most(v["cursor"], until) /\ DOMAIN u = DOMAIN v
         /\ "stopOp" \in DOMAIN v => u["stopOp"] = v["stopOp"]
    BY <2>13
  <2> HIDE DEF j, z, u, p
  <2>16. Tracks(z, at, u)
    <3>1. Bears(z, at, u)
      BY <2>10, <2>12, <2>14 DEF Tracks, Bears, SameRun, Holds
    <3>2. ASSUME ~u.st.refused
          PROVE  Marked(u.st) /\ Stops(z, u) /\ u.cursor = z.passed
      <4>1. ~v.st.refused /\ Marked(v.st) /\ Stops(j, v) /\ v.cursor = c.passed
        BY <2>10, <2>12, <2>13, <2>14, <3>2 DEF Tracks
      <4>2. Stops(z, u)
        BY <2>12, <2>14, <2>15, <4>1 DEF Stops, StopEnded, SameRun
      <4> QED
        BY <2>12, <2>14, <2>15, <4>1, <4>2 DEF p
    <3> QED
      BY <3>1, <3>2 DEF Tracks
  <2> QED
    BY <2>1, <2>16 DEF z, p
<1> QED
  BY <1>1, <1>2
----------------------------------------------------------------------------
(* Lists written out                                                        *)

LEMMA Consed ==
    ASSUME NEW a, NEW S, NEW q \in Seq(S), NEW r \in Seq(S), a \in S, Len(r) = Len(q) + 1,
           r[1] = a, \A i \in 1..Len(q) : r[i + 1] = q[i]
    PROVE  <<a>> \o q = r
<1>1. <<a>> \in Seq(S) /\ Len(<<a>>) = 1 /\ <<a>>[1] = a /\ Len(q) \in Nat
  OBVIOUS
<1>2. /\ <<a>> \o q \in Seq(S) /\ Len(<<a>> \o q) = Len(q) + 1
      /\ \A i \in 1..(1 + Len(q)) : (<<a>> \o q)[i] = IF i <= 1 THEN <<a>>[i] ELSE q[i - 1]
  BY <1>1, ConcatProperties
<1>3. \A i \in 1..(1 + Len(q)) : (<<a>> \o q)[i] = r[i]
  <2> SUFFICES ASSUME NEW i \in 1..(1 + Len(q)) PROVE (<<a>> \o q)[i] = r[i]
    OBVIOUS
  <2>1. CASE i = 1
    BY <1>1, <1>2, <2>1
  <2>2. CASE i # 1
    <3>1. i - 1 \in 1..Len(q) /\ (i - 1) + 1 = i /\ ~(i <= 1)
      BY <1>1, <2>2
    <3>2. r[i] = q[i - 1]
      BY <3>1
    <3> QED
      BY <1>2, <3>1, <3>2
  <2> QED
    BY <2>1, <2>2
<1> QED
  BY <1>1, <1>2, <1>3, SeqEqual

LEMMA LiteralConcat ==
    ASSUME NEW a, NEW b, NEW c, NEW d
    PROVE  /\ <<a>> \o <<>> = <<a>> /\ <<a>> \o <<b>> = <<a, b>>
           /\ <<a>> \o <<b, c>> = <<a, b, c>> /\ <<a>> \o <<b, c, d>> = <<a, b, c, d>>
<1> DEFINE S == {a, b, c, d}
<1>1. /\ <<>> \in Seq(S) /\ <<a>> \in Seq(S) /\ <<b>> \in Seq(S) /\ <<a, b>> \in Seq(S)
      /\ <<b, c>> \in Seq(S)
      /\ <<a, b, c>> \in Seq(S) /\ <<b, c, d>> \in Seq(S) /\ <<a, b, c, d>> \in Seq(S) /\ a \in S
  OBVIOUS
<1> HIDE DEF S
<1>2. <<a>> \o <<>> = <<a>>
  BY <1>1, ConcatEmptySeq
<1>3. <<a>> \o <<b>> = <<a, b>>
  <2> DEFINE q == <<b>>
             r == <<a, b>>
  <2>1. /\ Len(r) = Len(q) + 1 /\ r[1] = a /\ \A i \in 1..Len(q) : r[i + 1] = q[i]
        /\ q \in Seq(S) /\ r \in Seq(S)
    BY <1>1
  <2> HIDE DEF q, r
  <2>2. <<a>> \o q = r
    BY <1>1, <2>1, Consed
  <2> QED
    BY <2>2 DEF q, r
<1>4. <<a>> \o <<b, c>> = <<a, b, c>>
  <2> DEFINE q == <<b, c>>
             r == <<a, b, c>>
  <2>1. /\ Len(r) = Len(q) + 1 /\ r[1] = a /\ \A i \in 1..Len(q) : r[i + 1] = q[i]
        /\ q \in Seq(S) /\ r \in Seq(S)
    BY <1>1
  <2> HIDE DEF q, r
  <2>2. <<a>> \o q = r
    BY <1>1, <2>1, Consed
  <2> QED
    BY <2>2 DEF q, r
<1>5. <<a>> \o <<b, c, d>> = <<a, b, c, d>>
  <2> DEFINE q == <<b, c, d>>
             r == <<a, b, c, d>>
  <2>1. /\ Len(r) = Len(q) + 1 /\ r[1] = a /\ \A i \in 1..Len(q) : r[i + 1] = q[i]
        /\ q \in Seq(S) /\ r \in Seq(S)
    BY <1>1
  <2> HIDE DEF q, r
  <2>2. <<a>> \o q = r
    BY <1>1, <2>1, Consed
  <2> QED
    BY <2>2 DEF q, r
<1> QED
  BY <1>2, <1>3, <1>4, <1>5

\* Two events, one after the other.
LEMMA EmitTwo ==
    ASSUME NEW w, Draftlike(w), NEW a, NEW b
    PROVE  Emit(w, <<a, b>>) = Emit(Emit(w, <<a>>), <<b>>)
<1>1. Emit(w, <<a>> \o <<b>>) = Emit(Emit(w, <<a>>), <<b>>)
  BY ListedLiterals, EmitAppend
<1> QED
  BY <1>1, LiteralConcat

----------------------------------------------------------------------------
(* Releases: releaseConnections                                             *)

\* a has no rows but those of b.
Fewer(a, b) == DOMAIN a \subseteq DOMAIN b /\ \A r \in DOMAIN a : a[r] = b[r]

Released(w, r) ==
  [type |-> "DatabaseConnectionReleased", request |-> r, db |-> w.st.conns[r].db,
   at |-> w.st.conns[r].until]
ReleasedUp(w, r) ==
  DatabaseUp(w.st.conns[r].db,
             w.st.dbs[w.st.conns[r].db].reasons \ {"connection_limit"}, w.st.conns[r].until)
Frees(w, r) == "connection_limit" \in w.st.dbs[w.st.conns[r].db].reasons

LEMMA ReleaseOneIs ==
    ASSUME NEW w, NEW r
    PROVE  /\ Frees(w, r) => ReleaseOne(w, r) = Emit(w, <<Released(w, r), ReleasedUp(w, r)>>)
           /\ ~Frees(w, r) => ReleaseOne(w, r) = Emit(w, <<Released(w, r)>>)
<1> QED
  BY LiteralConcat DEF ReleaseOne, Released, ReleasedUp, Frees

LEMMA ReleaseOneMoves ==
    ASSUME NEW w, NEW r
    PROVE  Moves(w, ReleaseOne(w, r))
<1>1. Released(w, r).type # "TimeAdvanced" /\ ReleasedUp(w, r).type # "TimeAdvanced"
  BY DEF Released, ReleasedUp, DatabaseUp
<1> DEFINE e == Released(w, r)
           u == ReleasedUp(w, r)
<1>2. Listed(<<e>>) /\ \A i \in 1..Len(<<e>>) : <<e>>[i].type # "TimeAdvanced"
  BY <1>1, ListedLiterals
<1>3. Listed(<<e, u>>) /\ \A i \in 1..Len(<<e, u>>) : <<e, u>>[i].type # "TimeAdvanced"
  BY <1>1, ListedLiterals
<1> HIDE DEF e, u
<1>4. Moves(w, Emit(w, <<e>>)) /\ Moves(w, Emit(w, <<e, u>>))
  BY <1>2, <1>3, EmitMoves
<1> QED
  BY <1>4, ReleaseOneIs DEF e, u

LEMMA ReleaseOneTracks ==
    ASSUME NEW c, c.T \in Int, NEW at \in Int, NEW w, Tracks(c, at, w), NEW r,
           r \in DOMAIN w.st.conns => w.st.conns[r].until <= c.T
    PROVE  /\ Tracks(c, at, ReleaseOne(w, r))
           /\ ~ReleaseOne(w, r).st.refused =>
                Fewer(ReleaseOne(w, r).st.conns, w.st.conns)
<1> DEFINE x == w.st
           e == Released(w, r)
           a == ReleasedUp(w, r)
           v == Emit(w, <<e>>)
           u == ReleaseOne(w, r)
<1>1. /\ e.type = "DatabaseConnectionReleased" /\ e.request = r /\ "seq" \notin DOMAIN e
      /\ e.db = x.conns[r].db /\ e.at = x.conns[r].until
  BY DEF Released
<1>2. /\ a.type = "DatabaseAvailabilityChanged" /\ "seq" \notin DOMAIN a
      /\ a.db = e.db /\ a.at = e.at /\ a.reasons = x.dbs[e.db].reasons \ {"connection_limit"}
  BY DEF Released, ReleasedUp, DatabaseUp
<1>3. Draftlike(w) /\ DOMAIN x = Fields
  BY DEF Tracks, Bears, Draftlike, Tables
<1> HIDE DEF e, a
<1>4. /\ Draftlike(v) /\ v.st = Apply(x, e) /\ DOMAIN v = DOMAIN w
      /\ \A f \in DOMAIN w \ {"st", "out"} : v[f] = w[f]
      /\ ~v.st.refused => ~x.refused /\ v.st \in Handled(x, e)
  BY <1>3, OneEmitted
<1> HIDE DEF v
<1>5. /\ Frees(w, r) => u = Emit(v, <<a>>)
      /\ ~Frees(w, r) => u = v
  <2>1. Frees(w, r) => u = Emit(w, <<e, a>>)
    BY ReleaseOneIs DEF e, a
  <2>2. ~Frees(w, r) => u = v
    BY ReleaseOneIs DEF e, v
  <2>3. Emit(w, <<e, a>>) = Emit(v, <<a>>)
    BY <1>3, EmitTwo DEF v
  <2> QED
    BY <2>1, <2>2, <2>3
<1>7. Bears(c, at, v)
  <2>1. ASSUME ~Apply(x, e).refused
        PROVE  Fine(c, at, x, e)
    <3>1. Apply(x, e) \in Handled(x, e)
      BY <1>3, <2>1, Accepted
    <3>2. r \in DOMAIN x.conns
      BY <1>1, <1>3, <3>1, DatabaseConnectionReleasedEffect DEF DatabaseConnectionReleasedGuard
    <3> QED
      BY <1>1, <3>2 DEF Fine, Proper, AlikeTypes, KnownTypes, DatabaseTypes, CostTypes,
         FactTypes, Timely, ContextTypes
  <2> QED
    BY <2>1, EmitBears DEF Tracks, v
<1>8. Bears(c, at, u)
  <2>1. ASSUME ~Apply(v.st, a).refused
        PROVE  Fine(c, at, v.st, a)
    <3>1. ~v.st.refused
      BY <1>4, <2>1, Accepted DEF Draftlike, Tables
    <3>2. v.st \in Handled(x, e)
      BY <1>4, <3>1
    <3>3. r \in DOMAIN x.conns
      BY <1>1, <1>3, <3>2, DatabaseConnectionReleasedEffect DEF DatabaseConnectionReleasedGuard
    <3> QED
      BY <1>1, <1>2, <3>3 DEF Fine, Proper, AlikeTypes, KnownTypes, DatabaseTypes, CostTypes,
         FactTypes, Timely, ContextTypes
  <2>2. Bears(c, at, Emit(v, <<a>>))
    BY <1>7, <2>1, EmitBears
  <2> QED
    BY <1>5, <1>7, <2>2
<1>6. DOMAIN u = DOMAIN w /\ \A f \in DOMAIN w \ {"st", "out"} : u[f] = w[f]
  <2>1. DOMAIN Emit(v, <<a>>) = DOMAIN v
        /\ \A f \in DOMAIN v \ {"st", "out"} : Emit(v, <<a>>)[f] = v[f]
    BY <1>4, OneEmitted
  <2> QED
    BY <1>4, <1>5, <2>1
<1>9. ASSUME ~u.st.refused
      PROVE  /\ Marked(u.st) /\ Stops(c, u) /\ Fewer(u.st.conns, x.conns)
             /\ "cursor" \in DOMAIN u => u.cursor = c.passed
  <2>1. ~v.st.refused /\ (u = v \/ u.st \in Handled(v.st, a))
    BY <1>4, <1>5, <1>9, OneEmitted
  <2>2. /\ v.st \in Handled(x, e) /\ ~x.refused /\ Steady(c.T, x) /\ Marked(x) /\ Stops(c, w)
        /\ Steady(c.T, v.st)
    BY <1>4, <1>7, <2>1 DEF Tracks, Bears
  <2>0. "cursor" \in DOMAIN u => u["cursor"] = c.passed
    <3>1. "cursor" \in DOMAIN w => w["cursor"] = c.passed
      BY <2>2 DEF Tracks
    <3> QED
      BY <1>6, <3>1
  <2>3. /\ Placed(x) /\ Connected(x) /\ Placed(v.st) /\ DOMAIN v.st = Fields
        /\ DOMAIN x.site = SiteFields /\ DOMAIN v.st.site = SiteFields
    BY <2>2 DEF Steady, Placed, Tables
  <2>4. /\ v.st.counts = [x.counts EXCEPT ![e.db] = @ - 1] /\ x.counts[e.db] \in Nat
        /\ e.db = x.site.db
    BY <1>1, <1>3, <2>2, <2>3, ConnectedReleased
  <2>5. v.st.conns = Drop(x.conns, {r}) /\ v.st.dbs = x.dbs
    <3>1. /\ v.st.conns = DatabaseConnectionReleasedConns(x, e)
          /\ Kept(x, v.st, {"conns", "counts"})
      BY <1>1, <1>3, <2>2, DatabaseConnectionReleasedEffect
    <3> QED
      BY <1>1, <3>1 DEF DatabaseConnectionReleasedConns, Kept, Fields
  <2>6. Fewer(v.st.conns, x.conns)
    BY <2>5 DEF Fewer, Drop
  <2>7. Stops(c, v)
    BY <1>1, <1>3, <1>4, <2>2, <2>3, StopsStep
  <2>8. e.db \in DOMAIN x.dbs /\ DOMAIN x.dbs \subseteq Servers
    BY <2>3, <2>4 DEF Placed
  <2>9. /\ v.st.counts[e.db] = x.counts[e.db] - 1 /\ x.counts[e.db] <= Catalog[e.db].limit
        /\ \A i \in DOMAIN x.dbs \ {e.db} : v.st.counts[i] = x.counts[i]
        /\ DOMAIN x.counts = Servers
    BY <2>3, <2>4, <2>8 DEF Connected
  <2>10. v.st.counts[e.db] # Catalog[e.db].limit
    <3>1. Catalog[e.db].limit \in Nat
      BY <2>8, ServersAssumption
    <3> QED
      BY <2>4, <2>9, <3>1
  <2>11. CASE Frees(w, r)
    <3>1. u.st \in Handled(v.st, a) /\ u = Emit(v, <<a>>)
      BY <1>4, <1>5, <1>9, <2>11, OneEmitted
    <3>2. DatabasesChange(v.st, a, u.st)
      BY <2>3, <3>1, DatabasesStep DEF Placed
    <3>3. /\ DOMAIN u.st.dbs = DOMAIN x.dbs
          /\ u.st.dbs[e.db].reasons = x.dbs[e.db].reasons \ {"connection_limit"}
          /\ \A i \in DOMAIN x.dbs \ {e.db} : u.st.dbs[i].reasons = x.dbs[i].reasons
      BY <1>2, <2>5, <3>2 DEF DatabasesChange
    <3>4. u.st.counts = v.st.counts /\ u.st.conns = v.st.conns
      BY <1>2, <2>3, <3>1, ChangedBy
    <3>5. Marked(u.st)
      BY <2>2, <2>8, <2>9, <2>10, <3>3, <3>4 DEF Marked
    <3>6. DOMAIN u = DOMAIN v /\ \A f \in DOMAIN v \ {"st", "out"} : u[f] = v[f]
      BY <1>4, <3>1, OneEmitted
    <3>7. Stops(c, u)
      BY <1>2, <2>3, <2>7, <3>1, <3>6, StopsStep
    <3> QED
      BY <2>0, <2>6, <3>4, <3>5, <3>7
  <2>12. CASE ~Frees(w, r)
    <3>1. u = v
      BY <2>12, ReleaseOneIs DEF v, e
    <3>2. "connection_limit" \notin x.dbs[e.db].reasons
      BY <1>1, <2>12 DEF Frees
    <3>3. Marked(v.st)
      BY <2>2, <2>5, <2>8, <2>9, <2>10, <3>2 DEF Marked
    <3> QED
      BY <2>0, <2>6, <2>7, <3>1, <3>3
  <2> QED
    BY <2>11, <2>12
<1>10. Tracks(c, at, u) /\ (~u.st.refused => Fewer(u.st.conns, x.conns))
  BY <1>8, <1>9 DEF Tracks
<1> QED
  BY <1>10
\* While connections are released, those left are as they were.
ReleaseIn(d, x, r) == ReleaseOne(x, r)
ReleasedTo(d, k, x) ==
  /\ Moves(d.w, x)
  /\ d.known = TRUE =>
       /\ Tracks(d.c, d.at, x)
       /\ ~x.st.refused => Fewer(x.st.conns, d.w.st.conns)
Releases == INSTANCE FoldSteps WITH Op <- ReleaseIn, Inv <- ReleasedTo, Weight <- LoadIn

LEMMA ReleasesFold ==
    ASSUME NEW d, NEW w, NEW rs
    PROVE  Releases!Folded(d, w, rs) = FoldLeft(ReleaseOne, w, rs)
  BY DEF Releases!Folded, FoldLeft, MapThenFoldSet,
         Releases!MapThenFoldSet, Max, Releases!Max, ReleaseIn

LEMMA FoldReleases ==
    ASSUME NEW c, NEW at \in Int, NEW w, NEW rs, Listed(rs)
    PROVE  /\ Moves(w, FoldLeft(ReleaseOne, w, rs))
           /\ /\ c.T \in Int /\ Tracks(c, at, w)
              /\ \A r \in DOMAIN w.st.conns : \A k \in 1..Len(rs) :
                   rs[k] = r => w.st.conns[r].until <= c.T
              => Tracks(c, at, FoldLeft(ReleaseOne, w, rs))
<1>0. Len(rs) \in Nat /\ DOMAIN rs = 1..Len(rs)
  BY ListedDomain
<1> DEFINE Known == /\ c.T \in Int /\ Tracks(c, at, w)
                    /\ \A r \in DOMAIN w.st.conns : \A k \in 1..Len(rs) :
                         rs[k] = r => w.st.conns[r].until <= c.T
<1>1. ASSUME NEW b \in BOOLEAN, b = TRUE => Known
      PROVE  ReleasedTo([w |-> w, c |-> c, at |-> at, known |-> b], Len(rs),
                        FoldLeft(ReleaseOne, w, rs))
  <2> DEFINE d == [w |-> w, c |-> c, at |-> at, known |-> b]
  <2>1. d.w = w /\ d.c = c /\ d.at = at /\ d.known = b
    OBVIOUS
  <2> HIDE DEF d
  <2>2. ReleasedTo(d, 0, w)
    BY <1>1, <2>1, LeadsStill DEF ReleasedTo, Fewer
  <2>3. ASSUME NEW k \in 0..(Len(rs) - 1), NEW x, ReleasedTo(d, k, x)
        PROVE  ReleasedTo(d, k + 1, ReleaseIn(d, x, rs[k + 1]))
    <3> DEFINE r == rs[k + 1]
               v == ReleaseOne(x, r)
    <3>1. Moves(w, v)
      BY <2>1, <2>3, ReleaseOneMoves, MovesOn DEF ReleasedTo
    <3>2. k + 1 \in 1..Len(rs)
      BY <1>0
    <3>3. ASSUME b = TRUE
          PROVE  Tracks(c, at, v) /\ (~v.st.refused => Fewer(v.st.conns, w.st.conns))
      <4>1. /\ Known /\ Tracks(c, at, x) /\ (~x.st.refused => Fewer(x.st.conns, w.st.conns))
        BY <1>1, <2>1, <2>3, <3>3 DEF ReleasedTo
      <4>2. CASE x.st.refused
        <5>1. Draftlike(x)
          BY <4>1 DEF Tracks, Bears
        <5>2. Draftlike(v) /\ v.st.refused
          BY <4>2, <5>1, ReleaseOneMoves DEF Moves, Goes
        <5> QED
          BY <5>2 DEF Tracks, Bears
      <4>3. CASE ~x.st.refused
        <5>1. Fewer(x.st.conns, w.st.conns)
          BY <4>1, <4>3
        <5>2. r \in DOMAIN x.st.conns => x.st.conns[r].until <= c.T
          BY <3>2, <4>1, <5>1 DEF Fewer
        <5>3. Tracks(c, at, v) /\ (~v.st.refused => Fewer(v.st.conns, x.st.conns))
          BY <4>1, <5>2, ReleaseOneTracks
        <5> QED
          BY <5>1, <5>3 DEF Fewer
      <4> QED
        BY <4>2, <4>3
    <3> QED
      BY <2>1, <3>1, <3>3 DEF ReleasedTo, ReleaseIn
  <2> HIDE DEF Known
  <2>4. ReleasedTo(d, Len(rs), Releases!Folded(d, w, rs))
    BY <1>0, <2>2, <2>3, Releases!FoldKeeps
  <2> QED
    BY <2>4, ReleasesFold DEF d
<1> HIDE DEF Known
<1>2. Moves(w, FoldLeft(ReleaseOne, w, rs))
  BY <1>1 DEF ReleasedTo
<1>3. Known => Tracks(c, at, FoldLeft(ReleaseOne, w, rs))
  BY <1>1 DEF ReleasedTo
<1> QED
  BY <1>2, <1>3 DEF Known

LEMMA StopIfIdleMoves ==
    ASSUME NEW w, NEW t
    PROVE  Moves(w, StopIfIdle(w, t))
<1> DEFINE e == [type |-> "SiteStopped", op |-> w.st.site.op, at |-> t]
           v == Emit(w, <<e>>)
           u == [v EXCEPT !.stopOp = w.st.site.op]
<1>1. StopIfIdle(w, t) = w \/ StopIfIdle(w, t) = u
  BY DEF StopIfIdle
<1>2. Moves(w, v)
  <2>1. e.type # "TimeAdvanced"
    OBVIOUS
  <2> HIDE DEF e
  <2> QED
    BY <2>1, OneEmitted DEF Moves, Goes
<1> HIDE DEF v
<1>3. Moves(v, u)
  <2> SUFFICES ASSUME Draftlike(v)
               PROVE  Draftlike(u) /\ Goes(v, u)
    BY DEF Moves
  <2>1. u.st = v.st /\ u.out = v.out /\ DOMAIN u = DOMAIN v
    BY DEF Draftlike
  <2> QED
    BY <2>1 DEF Draftlike, Goes
<1> QED
  BY <1>1, <1>2, <1>3, LeadsStill, MovesOn

LEMMA StopIfIdleLeads ==
    ASSUME NEW c, c.T \in Int, c.over = FALSE, NEW at \in Int, NEW w,
           "stopOp" \in DOMAIN w, NEW t \in Int, t <= c.T
    PROVE  Leads(c, at, w, StopIfIdle(w, t))
<1> DEFINE x == w.st
           e == [type |-> "SiteStopped", op |-> x.site.op, at |-> t]
           v == Emit(w, <<e>>)
           u == [v EXCEPT !.stopOp = x.site.op]
<1>1. /\ e.type = "SiteStopped" /\ e.at = t /\ "seq" \notin DOMAIN e /\ e.op = x.site.op
  OBVIOUS
<1>2. StopIfIdle(w, t) = w \/ (StopIfIdle(w, t) = u /\ x.site.status = "stopping")
  BY DEF StopIfIdle
<1> HIDE DEF e
<1> SUFFICES ASSUME Tracks(c, at, w), x.site.status = "stopping"
             PROVE  Tracks(c, at, u)
  <2>1. CASE StopIfIdle(w, t) = w
    BY <2>1, LeadsStill
  <2>2. CASE StopIfIdle(w, t) = u /\ x.site.status = "stopping"
    BY <2>2, StopIfIdleMoves DEF Leads
  <2> QED
    BY <1>2, <2>1, <2>2
<1>3. Fine(c, at, x, e)
  BY <1>1 DEF Fine, Proper, AlikeTypes, KnownTypes, MigrationTypes, CostTypes, FactTypes,
     Timely, ContextTypes
<1>4. Bears(c, at, v)
  BY <1>3, EmitBears DEF Tracks
<1>5. /\ v.st = Apply(x, e) /\ DOMAIN v = DOMAIN w
      /\ \A f \in DOMAIN w \ {"st", "out"} : v[f] = w[f]
      /\ ~v.st.refused => ~x.refused /\ v.st \in Handled(x, e)
  BY OneEmitted DEF Tracks, Bears
<1> HIDE DEF v
<1>6. u.st = v.st /\ u.out = v.out /\ DOMAIN u = DOMAIN v /\ u.stopOp = x.site.op
      /\ Draftlike(u)
  <2>1. u.st = v.st /\ u.out = v.out /\ DOMAIN u = DOMAIN v /\ u.stopOp = x.site.op
    BY <1>4, <1>5 DEF Draftlike, Bears
  <2> QED
    BY <1>4, <2>1 DEF Draftlike, Bears
<1>9. "cursor" \in DOMAIN w => u["cursor"] = w["cursor"]
  BY <1>5, <1>6
<1>7. ASSUME ~v.st.refused
      PROVE  /\ Marked(u.st) /\ Stops(c, u)
             /\ "cursor" \in DOMAIN u => u.cursor = c.passed
  <2>1. /\ v.st \in Handled(x, e) /\ Steady(c.T, x) /\ Marked(x) /\ Stops(c, w)
        /\ "cursor" \in DOMAIN w => w.cursor = c.passed
    BY <1>5, <1>7 DEF Tracks, Bears
  <2>2. DOMAIN x = Fields /\ DOMAIN x.site = SiteFields /\ Proper(c.T, x, e)
    BY <1>3, <2>1 DEF Steady, Tables, Placed, Fine, Timely
  <2>3. Marked(v.st)
    <3>1. KeepsMark(x, e)
      BY <1>1 DEF KeepsMark
    <3> QED
      BY <2>1, <2>2, <3>1, MarkedStep DEF Steady
  <2>4. SiteChange(x, e, v.st)
    BY <2>1, <2>2, SiteStep
  <2>5. Stops(c, u)
    BY <1>1, <1>5, <1>6, <2>1, <2>4 DEF Stops, StopEnded, SiteChange
  <2>6. "cursor" \in DOMAIN u => u["cursor"] = c.passed
    BY <1>5, <1>6, <1>9, <2>1
  <2> QED
    BY <1>6, <2>3, <2>5, <2>6
<1>8. Tracks(c, at, u)
  BY <1>4, <1>6, <1>7 DEF Tracks, Bears
<1> QED
  BY <1>8

\* The connections that are over, in the order they are released.
Over(w, until) == {r \in DOMAIN w.st.conns : w.st.conns[r].until <= until}
EarlierRelease(w, q, r) ==
  \/ w.st.conns[q].until < w.st.conns[r].until
  \/ w.st.conns[q].until = w.st.conns[r].until /\ EarlierRequest(q, r)
ReleaseOrder(w, until) ==
  Sorted(Over(w, until),
         {p \in Over(w, until) \X Over(w, until) : EarlierRelease(w, p[1], p[2])})
LastRelease(w, until) ==
  IF ReleaseOrder(w, until) = <<>> THEN until
  ELSE w.st.conns[ReleaseOrder(w, until)[Len(ReleaseOrder(w, until))]].until

LEMMA ReleaseConnectionsIs ==
    ASSUME NEW w, NEW until
    PROVE  ReleaseConnections(w, until)
             = StopIfIdle(FoldLeft(ReleaseOne, w, ReleaseOrder(w, until)), LastRelease(w, until))
BY DEF ReleaseConnections, ReleaseOrder, LastRelease, Over, EarlierRelease

LEMMA ReleaseOrderListed ==
    ASSUME NEW w, Draftlike(w), NEW until
    PROVE  IsFiniteSet(Over(w, until)) /\ Listed(ReleaseOrder(w, until))
<1> DEFINE S == Over(w, until)
<1>1. IsFiniteSet(DOMAIN w.st["conns"])
  BY DEF Draftlike, Tables
<1>2. IsFiniteSet(S)
  BY <1>1, FS_Subset DEF Over
<1>3. Cardinality(S) \in Nat
  BY <1>2, FS_CardinalityType
<1> HIDE DEF S
<1>4. Listed(ReleaseOrder(w, until))
  BY <1>3, ListedFunction DEF ReleaseOrder, Sorted, S
<1> QED
  BY <1>2, <1>4 DEF S

LEMMA ReleaseOrdered ==
    ASSUME NEW c, NEW at, NEW w, Tracks(c, at, w), ~w.st.refused, NEW until
    PROVE  Enumerates(ReleaseOrder(w, until), Over(w, until))
<1> DEFINE S == Over(w, until)
           before == {p \in S \X S : EarlierRelease(w, p[1], p[2])}
<1>1. /\ \A r \in S : r \in Nat \X Pages /\ w.st.conns[r].until \in Int
  BY DEF Tracks, Bears, Steady, Named, Seen, Connected, Over
<1>2. IsFiniteSet(S)
  BY ReleaseOrderListed DEF Tracks, Bears
<1>3. \A q, r \in S : <<q, r>> \in before <=> EarlierRelease(w, q, r)
  OBVIOUS
<1>4. \A r \in S : r = <<r[1], r[2]>> /\ r[1] \in Nat /\ r[2] \in {"product_list", "product_page"}
  BY <1>1 DEF Pages
<1> HIDE DEF S, before
<1>5. \A r \in S : ~EarlierRelease(w, r, r)
  BY <1>1, <1>4 DEF EarlierRelease, EarlierRequest
<1>6. ASSUME NEW q \in S, NEW r \in S, q # r
      PROVE  EarlierRelease(w, q, r) \/ EarlierRelease(w, r, q)
  <2>1. q[1] # r[1] \/ q[2] # r[2]
    BY <1>4, <1>6
  <2> QED
    BY <1>1, <1>4, <2>1 DEF EarlierRelease, EarlierRequest
<1>7. ASSUME NEW p \in S, NEW q \in S, NEW r \in S, EarlierRelease(w, p, q),
             EarlierRelease(w, q, r)
      PROVE  EarlierRelease(w, p, r)
  BY <1>1, <1>4, <1>7 DEF EarlierRelease, EarlierRequest
<1>8. OrderedBy(before, S)
  BY <1>3, <1>5, <1>6, <1>7 DEF OrderedBy
<1>9. Enumerates(Sorted(S, before), S)
  BY <1>2, <1>8, SortedMembers
<1>10. ReleaseOrder(w, until) = Sorted(S, before)
  BY DEF ReleaseOrder, S, before
<1> QED
  BY <1>9, <1>10 DEF S

LEMMA ReleaseConnectionsMoves ==
    ASSUME NEW w, NEW until
    PROVE  Moves(w, ReleaseConnections(w, until))
<1> SUFFICES ASSUME Draftlike(w)
             PROVE  Moves(w, ReleaseConnections(w, until))
  BY DEF Moves
<1>1. Listed(ReleaseOrder(w, until))
  BY ReleaseOrderListed
<1>2. Moves(w, FoldLeft(ReleaseOne, w, ReleaseOrder(w, until)))
  <2> DEFINE rs == ReleaseOrder(w, until)
  <2>1. Listed(rs) /\ 0 \in Int
    BY <1>1
  <2> HIDE DEF rs
  <2>2. Moves(w, FoldLeft(ReleaseOne, w, rs))
    BY <2>1, FoldReleases
  <2> QED
    BY <2>2 DEF rs
<1> QED
  BY <1>2, ReleaseConnectionsIs, StopIfIdleMoves, MovesOn

LEMMA ReleaseConnectionsLeads ==
    ASSUME NEW c, c.T \in Int, c.over = FALSE, NEW at \in Int, NEW w, "stopOp" \in DOMAIN w,
           NEW until \in Int, until <= c.T
    PROVE  Leads(c, at, w, ReleaseConnections(w, until))
<1> SUFFICES ASSUME Tracks(c, at, w), ~w.st.refused
             PROVE  Tracks(c, at, ReleaseConnections(w, until))
  BY ReleaseConnectionsMoves, LeadsIf
<1> DEFINE rs == ReleaseOrder(w, until)
           v == FoldLeft(ReleaseOne, w, rs)
           t == LastRelease(w, until)
<1>1. Enumerates(rs, Over(w, until))
  BY ReleaseOrdered
<1>2. /\ Listed(rs) /\ Len(rs) \in Nat /\ DOMAIN rs = 1..Len(rs)
      /\ \A k \in 1..Len(rs) : rs[k] \in DOMAIN w.st.conns /\ w.st.conns[rs[k]].until <= until
  BY <1>1 DEF Enumerates, Over
<1>3. \A r \in DOMAIN w.st.conns : w.st.conns[r].until \in Int
  BY DEF Tracks, Bears, Steady, Connected
<1>4. t \in Int /\ t <= c.T
  <2>1. t = IF rs = <<>> THEN until ELSE w.st.conns[rs[Len(rs)]].until
    BY DEF LastRelease
  <2>2. rs # <<>> => Len(rs) \in 1..Len(rs)
    BY <1>2 DEF Listed
  <2> HIDE DEF rs, t
  <2> QED
    BY <1>2, <1>3, <2>1, <2>2
<1> HIDE DEF rs, t
<1>5. Tracks(c, at, v) /\ Moves(w, v)
  <2>1. \A r \in DOMAIN w.st.conns : \A k \in 1..Len(rs) :
          rs[k] = r => w.st.conns[r].until <= c.T
    BY <1>2, <1>3
  <2> QED
    BY <1>2, <2>1, FoldReleases
<1> HIDE DEF v
<1>6. "stopOp" \in DOMAIN v
  BY <1>5 DEF Moves, Goes, Tracks, Bears
<1>7. ReleaseConnections(w, until) = StopIfIdle(v, t)
  BY ReleaseConnectionsIs DEF v, rs, t
<1> QED
  BY <1>4, <1>5, <1>6, <1>7, StopIfIdleLeads DEF Leads
----------------------------------------------------------------------------
(* A page request: OpenPage                                                 *)

Asked(x, request, page) ==
  [type |-> "PageRequestStarted", request |-> request, page |-> page, at |-> x.now]
Served(x, request, page) ==
  [type |-> "PageRequestAccepted", request |-> request, page |-> page,
   server |-> SelectServer(x, page), at |-> x.now, until |-> x.now + Hold[page]]
Joined(x, request) ==
  [type |-> "DatabaseConnectionOpened", request |-> request, db |-> x.site.db,
   at |-> x.now, until |-> x.now + ConnectionHold]
Fills(x) == x.counts[x.site.db] + 1 = Catalog[x.site.db].limit
Filled(x) ==
  DatabaseUp(x.site.db, x.dbs[x.site.db].reasons \cup {"connection_limit"}, x.now)
Completed(x, request) ==
  [type |-> "PageRequestCompleted", request |-> request, at |-> x.now]
TurnedAway(x, request, obstacle) ==
  [type |-> "PageRequestRejected", request |-> request, code |-> obstacle, at |-> x.now]
Crowded(x, request) ==
  [type |-> "DatabaseConnectionRejected", request |-> request, db |-> x.site.db,
   active |-> x.counts[x.site.db], at |-> x.now]

\* The events of a request, by what stops it.
PageList(x, request, page, obstacle) ==
  IF obstacle = "none"
  THEN IF Fills(x)
       THEN <<Asked(x, request, page)>> \o
            ((<<Served(x, request, page), Joined(x, request)>> \o <<Filled(x)>>)
             \o <<Completed(x, request)>>)
       ELSE <<Asked(x, request, page)>> \o
            ((<<Served(x, request, page), Joined(x, request)>> \o <<>>)
             \o <<Completed(x, request)>>)
  ELSE IF obstacle = "DB_CONNECTION_LIMIT"
  THEN <<Asked(x, request, page)>> \o
       <<Crowded(x, request), TurnedAway(x, request, obstacle)>>
  ELSE <<Asked(x, request, page)>> \o <<TurnedAway(x, request, obstacle)>>

LEMMA PageEventsIs ==
    ASSUME NEW x, NEW request, NEW page, NEW obstacle
    PROVE  PageEvents(x, request, page, obstacle) = PageList(x, request, page, obstacle)
BY DEF PageEvents, PageList, Asked, Served, Joined, Fills, Filled, Completed, TurnedAway, Crowded

Timeless(es) == Listed(es) /\ \A i \in 1..Len(es) : es[i].type # "TimeAdvanced"

LEMMA TimelessAppend ==
    ASSUME NEW p, NEW q, Timeless(p), Timeless(q)
    PROVE  Timeless(p \o q)
<1>1. /\ Listed(p \o q) /\ Len(p \o q) = Len(p) + Len(q)
      /\ \A i \in 1..Len(p) : (p \o q)[i] = p[i]
      /\ \A i \in 1..Len(q) : (p \o q)[Len(p) + i] = q[i]
      /\ Len(p) \in Nat /\ Len(q) \in Nat
  BY ListedAppend, ListedDomain DEF Timeless
<1>2. ASSUME NEW i \in 1..Len(p \o q)
      PROVE  (p \o q)[i].type # "TimeAdvanced"
  <2>1. CASE i \in 1..Len(p)
    BY <1>1, <2>1 DEF Timeless
  <2>2. CASE i \notin 1..Len(p)
    <3>1. i - Len(p) \in 1..Len(q) /\ Len(p) + (i - Len(p)) = i
      BY <1>1, <2>2
    <3> QED
      BY <1>1, <3>1 DEF Timeless
  <2> QED
    BY <2>1, <2>2
<1> QED
  BY <1>1, <1>2 DEF Timeless

LEMMA TimelessLiterals ==
    /\ Timeless(<<>>)
    /\ \A a : a.type # "TimeAdvanced" => Timeless(<<a>>)
    /\ \A a, b : a.type # "TimeAdvanced" /\ b.type # "TimeAdvanced" => Timeless(<<a, b>>)
<1>1. Timeless(<<>>)
  BY ListedLiterals DEF Timeless
<1>2. \A a : a.type # "TimeAdvanced" => Timeless(<<a>>)
  BY ListedLiterals DEF Timeless
<1>3. \A a, b : a.type # "TimeAdvanced" /\ b.type # "TimeAdvanced" => Timeless(<<a, b>>)
  BY ListedLiterals DEF Timeless
<1> QED
  BY <1>1, <1>2, <1>3

LEMMA PageListTimeless ==
    ASSUME NEW x, NEW request, NEW page, NEW obstacle
    PROVE  Timeless(PageList(x, request, page, obstacle))
<1> DEFINE a == Asked(x, request, page)
           b == Served(x, request, page)
           j == Joined(x, request)
           f == Filled(x)
           d == Completed(x, request)
           r == TurnedAway(x, request, obstacle)
           k == Crowded(x, request)
<1>1. /\ a.type # "TimeAdvanced" /\ b.type # "TimeAdvanced" /\ j.type # "TimeAdvanced"
      /\ f.type # "TimeAdvanced" /\ d.type # "TimeAdvanced" /\ r.type # "TimeAdvanced"
      /\ k.type # "TimeAdvanced"
  BY DEF Asked, Served, Joined, Filled, Completed, TurnedAway, Crowded, DatabaseUp
<1>2. \/ PageList(x, request, page, obstacle) = <<a>> \o ((<<b, j>> \o <<f>>) \o <<d>>)
      \/ PageList(x, request, page, obstacle) = <<a>> \o ((<<b, j>> \o <<>>) \o <<d>>)
      \/ PageList(x, request, page, obstacle) = <<a>> \o <<k, r>>
      \/ PageList(x, request, page, obstacle) = <<a>> \o <<r>>
  BY DEF PageList
<1> HIDE DEF a, b, j, f, d, r, k
<1>3. /\ Timeless(<<a>>) /\ Timeless(<<b, j>>) /\ Timeless(<<f>>) /\ Timeless(<<d>>)
      /\ Timeless(<<k, r>>) /\ Timeless(<<r>>) /\ Timeless(<<>>)
  BY <1>1, TimelessLiterals
<1>4. /\ Timeless(<<a>> \o ((<<b, j>> \o <<f>>) \o <<d>>))
      /\ Timeless(<<a>> \o ((<<b, j>> \o <<>>) \o <<d>>))
      /\ Timeless(<<a>> \o <<k, r>>) /\ Timeless(<<a>> \o <<r>>)
  BY <1>3, TimelessAppend
<1> QED
  BY <1>2, <1>4

LEMMA OpenPageMoves ==
    ASSUME NEW w, NEW x, NEW request, NEW page, NEW profile
    PROVE  Moves(w, Emit(w, OpenPage(x, request, page, profile)))
BY PageEventsIs, PageListTimeless, EmitMoves DEF OpenPage, Timeless

\* One event after the other.
LEMMA PageEmitted ==
    ASSUME NEW w, Draftlike(w), NEW a, NEW b, NEW j, NEW f, NEW d
    PROVE  /\ Emit(w, <<a>> \o ((<<b, j>> \o <<f>>) \o <<d>>))
                = Emit(Emit(Emit(Emit(Emit(w, <<a>>), <<b>>), <<j>>), <<f>>), <<d>>)
           /\ Emit(w, <<a>> \o ((<<b, j>> \o <<>>) \o <<d>>))
                = Emit(Emit(Emit(Emit(w, <<a>>), <<b>>), <<j>>), <<d>>)
           /\ Emit(w, <<a>> \o <<b, j>>) = Emit(Emit(Emit(w, <<a>>), <<b>>), <<j>>)
           /\ Emit(w, <<a>> \o <<b>>) = Emit(Emit(w, <<a>>), <<b>>)
<1>1. /\ Listed(<<a>>) /\ Listed(<<b>>) /\ Listed(<<j>>) /\ Listed(<<f>>) /\ Listed(<<d>>)
      /\ Listed(<<b, j>>) /\ Listed(<<>>)
  BY ListedLiterals
<1>2. Listed(<<b, j>> \o <<f>>) /\ Listed(<<b, j>> \o <<>>)
  BY <1>1, ListedAppend
<1>3. Listed((<<b, j>> \o <<f>>) \o <<d>>) /\ Listed((<<b, j>> \o <<>>) \o <<d>>)
  BY <1>1, <1>2, ListedAppend
<1> DEFINE v == Emit(w, <<a>>)
           u == Emit(v, <<b, j>>)
<1>4. Draftlike(v)
  BY OneEmitted
<1>5. \A q : Listed(q) => Emit(w, <<a>> \o q) = Emit(v, q)
  BY <1>1, EmitAppend
<1> HIDE DEF v
<1>6. u = Emit(Emit(v, <<b>>), <<j>>)
  BY <1>4, EmitTwo
<1>7. Draftlike(u) /\ Emit(u, <<>>) = u
  BY <1>1, <1>4, EmitFields, EmitNone
<1>8. Emit(v, <<b, j>> \o <<f>>) = Emit(u, <<f>>) /\ Emit(v, <<b, j>> \o <<>>) = Emit(u, <<>>)
  <2> DEFINE p == <<b, j>>
             q == <<f>>
             z == <<>>
  <2>1. Listed(p) /\ Listed(q) /\ Listed(z)
    BY <1>1
  <2> HIDE DEF p, q, z
  <2>2. Emit(v, p \o q) = Emit(Emit(v, p), q) /\ Emit(v, p \o z) = Emit(Emit(v, p), z)
    BY <1>4, <2>1, EmitAppend
  <2> QED
    BY <2>2 DEF p, q, z
<1>9. /\ Emit(v, (<<b, j>> \o <<f>>) \o <<d>>) = Emit(Emit(v, <<b, j>> \o <<f>>), <<d>>)
      /\ Emit(v, (<<b, j>> \o <<>>) \o <<d>>) = Emit(Emit(v, <<b, j>> \o <<>>), <<d>>)
  <2> DEFINE p == <<b, j>> \o <<f>>
             q == <<b, j>> \o <<>>
             z == <<d>>
  <2>1. Listed(p) /\ Listed(q) /\ Listed(z)
    BY <1>1, <1>2
  <2> HIDE DEF p, q, z
  <2>2. Emit(v, p \o z) = Emit(Emit(v, p), z) /\ Emit(v, q \o z) = Emit(Emit(v, q), z)
    BY <1>4, <2>1, EmitAppend
  <2> QED
    BY <2>2 DEF p, q, z
<1> HIDE DEF u
<1> QED
  BY <1>1, <1>3, <1>5, <1>6, <1>7, <1>8, <1>9 DEF u, v
\* A request a draft is asked for at its clock's time, and not one it serves.
Requested(c, at, w, request, page) ==
  /\ c.T \in Int /\ at \in Int /\ at <= c.T /\ page \in Pages
  /\ Tracks(c, at, w) /\ w.st.now = at
  /\ Seen(w.st, request) /\ request \notin DOMAIN w.st.capacity

\* What other requests see of it.
Opened(w, v, request) ==
  /\ v.st.cursor = w.st.cursor
  /\ DOMAIN v.st.capacity \subseteq DOMAIN w.st.capacity \cup {request}

LEMMA PageFine ==
    ASSUME NEW c, NEW at, at <= c.T, NEW x, NEW e, e.at = at, "seq" \notin DOMAIN e,
           e.type \in {"PageRequestCompleted", "PageRequestRejected",
                       "DatabaseConnectionRejected"}
    PROVE  Fine(c, at, x, e) /\ Still(x, e)
<1>1. Fine(c, at, x, e)
  BY DEF Fine, Proper, AlikeTypes, KnownTypes, PageTypes, DatabaseTypes, CostTypes, FactTypes,
     Timely, ContextTypes
<1>2. Still(x, e)
  BY DEF Still, KeepsMark
<1> QED
  BY <1>1, <1>2

\* Such an event changes neither the requests nor their number.
LEMMA PageTracks ==
    ASSUME NEW c, c.T \in Int, NEW at \in Int, at <= c.T, NEW w, Tracks(c, at, w), NEW e,
           e.at = at, "seq" \notin DOMAIN e,
           e.type \in {"PageRequestCompleted", "PageRequestRejected",
                       "DatabaseConnectionRejected"}
    PROVE  /\ Tracks(c, at, Emit(w, <<e>>)) /\ Draftlike(Emit(w, <<e>>))
           /\ ~Emit(w, <<e>>).st.refused =>
                /\ ~w.st.refused
                /\ Emit(w, <<e>>).st.capacity = w.st.capacity
                /\ Emit(w, <<e>>).st.cursor = w.st.cursor
<1> DEFINE v == Emit(w, <<e>>)
<1>1. Tracks(c, at, v)
  BY PageFine, EmitTracks
<1>2. Draftlike(w) /\ DOMAIN w.st = Fields
  BY DEF Tracks, Bears, Draftlike, Tables
<1>3. ~v.st.refused => ~w.st.refused /\ v.st \in Handled(w.st, e)
  BY <1>2, OneEmitted
<1>4. Draftlike(v)
  BY <1>2, OneEmitted
<1> HIDE DEF v
<1>5. ASSUME ~v.st.refused
      PROVE  v.st.capacity = w.st.capacity /\ v.st.cursor = w.st.cursor
  <2>1. v.st \in Handled(w.st, e)
    BY <1>3, <1>5
  <2> QED
    BY <1>2, <2>1, ChangedBy
<1> QED
  BY <1>1, <1>3, <1>4, <1>5 DEF v

AskedTo(w, request, page) == Emit(w, <<Asked(w.st, request, page)>>)
ServedTo(w, x, request, page) == Emit(w, <<Served(x, request, page)>>)

LEMMA AskedTracks ==
    ASSUME NEW c, NEW at, NEW w, NEW request, NEW page, Requested(c, at, w, request, page)
    PROVE  /\ Tracks(c, at, AskedTo(w, request, page)) /\ Draftlike(AskedTo(w, request, page))
           /\ ~AskedTo(w, request, page).st.refused =>
                /\ ~w.st.refused /\ AskedTo(w, request, page).st.indexed = at
                /\ DOMAIN AskedTo(w, request, page).st.capacity \subseteq DOMAIN w.st.capacity
                /\ AskedTo(w, request, page).st.cursor = w.st.cursor
                /\ AskedTo(w, request, page).st.site = w.st.site
                /\ AskedTo(w, request, page).st.dbs = w.st.dbs
                /\ AskedTo(w, request, page).st.conns = w.st.conns
                /\ AskedTo(w, request, page).st.counts = w.st.counts
<1> DEFINE x == w.st
           e == Asked(x, request, page)
           v == Emit(w, <<e>>)
<1>1. /\ e.type = "PageRequestStarted" /\ e.at = at /\ "seq" \notin DOMAIN e
      /\ c.T \in Int /\ at \in Int /\ at <= c.T /\ Tracks(c, at, w)
  BY DEF Asked, Requested
<1>2. Draftlike(w) /\ DOMAIN x = Fields
  BY <1>1 DEF Tracks, Bears, Draftlike, Tables
<1> HIDE DEF e
<1>3. ~v.st.refused => ~x.refused /\ v.st \in Handled(x, e)
  BY <1>2, OneEmitted
<1>4. Draftlike(v)
  BY <1>2, OneEmitted
<1>5. Fine(c, at, x, e)
  BY <1>1 DEF Fine, Proper, AlikeTypes, KnownTypes, PageTypes, CostTypes, FactTypes,
     Timely, ContextTypes
<1>6. Still(x, e)
  BY <1>1 DEF Still, KeepsMark
<1>7. Tracks(c, at, v)
  BY <1>1, <1>5, <1>6, EmitTracks
<1> HIDE DEF v
<1>8. ASSUME ~v.st.refused
      PROVE  /\ v.st.indexed = at
             /\ DOMAIN v.st.capacity \subseteq DOMAIN x.capacity
             /\ v.st.cursor = x.cursor /\ v.st.site = x.site /\ v.st.dbs = x.dbs
             /\ v.st.conns = x.conns /\ v.st.counts = x.counts
  <2>1. v.st \in Handled(x, e) /\ ~x.refused
    BY <1>3, <1>8
  <2>2. Index(c.T, x) /\ x.indexed <= at
    BY <1>1, <2>1 DEF Tracks, Bears, Steady
  <2>3. Proper(c.T, x, e)
    BY <1>5 DEF Fine, Timely
  <2>4. v.st.indexed = at /\ DOMAIN v.st.capacity \subseteq DOMAIN x.capacity
    BY <1>1, <1>2, <2>1, <2>2, <2>3, IndexedStep
  <2>5. /\ v.st.cursor = x.cursor /\ v.st.site = x.site /\ v.st.dbs = x.dbs
        /\ v.st.conns = x.conns /\ v.st.counts = x.counts
    BY <1>1, <1>2, <2>1, ChangedBy
  <2> QED
    BY <2>4, <2>5
<1>9. AskedTo(w, request, page) = v
  BY DEF v, e, AskedTo
<1> QED
  BY <1>3, <1>4, <1>7, <1>8, <1>9

LEMMA ServedTracks ==
    ASSUME NEW c, NEW at, NEW x, NEW request, NEW page, NEW w,
           c.T \in Int, at \in Int, at <= c.T, page \in Pages, x.now = at,
           Tracks(c, at, w), ~w.st.refused => /\ w.st.indexed = at /\ Seen(w.st, request)
                                              /\ request \notin DOMAIN w.st.capacity
    PROVE  /\ Tracks(c, at, ServedTo(w, x, request, page))
           /\ Draftlike(ServedTo(w, x, request, page))
           /\ ~ServedTo(w, x, request, page).st.refused =>
                /\ ~w.st.refused
                /\ DOMAIN ServedTo(w, x, request, page).st.capacity
                     = DOMAIN w.st.capacity \cup {request}
                /\ ServedTo(w, x, request, page).st.cursor = w.st.cursor
                /\ ServedTo(w, x, request, page).st.site = w.st.site
                /\ ServedTo(w, x, request, page).st.dbs = w.st.dbs
                /\ ServedTo(w, x, request, page).st.conns = w.st.conns
                /\ ServedTo(w, x, request, page).st.counts = w.st.counts
<1> DEFINE e == Served(x, request, page)
           v == Emit(w, <<e>>)
<1>1. /\ e.type = "PageRequestAccepted" /\ e.at = at /\ "seq" \notin DOMAIN e
      /\ e.request = request /\ e.page = page
  BY DEF Served
<1>2. Draftlike(w) /\ DOMAIN w.st = Fields
  BY DEF Tracks, Bears, Draftlike, Tables
<1> HIDE DEF e
<1>3. ~v.st.refused => ~w.st.refused /\ v.st \in Handled(w.st, e)
  BY <1>2, OneEmitted
<1>4. Draftlike(v)
  BY <1>2, OneEmitted
<1>5. ASSUME ~Apply(w.st, e).refused
      PROVE  Fine(c, at, w.st, e)
  <2>1. ~w.st.refused
    BY <1>2, <1>5, Accepted
  <2> QED
    BY <1>1, <2>1 DEF Fine, Proper, AlikeTypes, KnownTypes, PageTypes, CostTypes, FactTypes,
       Timely, ContextTypes
<1>6. Still(w.st, e)
  BY <1>1 DEF Still, KeepsMark
<1>7. Tracks(c, at, v)
  BY <1>5, <1>6, EmitTracks
<1> HIDE DEF v
<1>8. ASSUME ~v.st.refused
      PROVE  /\ DOMAIN v.st.capacity = DOMAIN w.st.capacity \cup {request}
             /\ v.st.cursor = w.st.cursor /\ v.st.site = w.st.site /\ v.st.dbs = w.st.dbs
             /\ v.st.conns = w.st.conns /\ v.st.counts = w.st.counts
  <2>1. v.st \in Handled(w.st, e)
    BY <1>3, <1>8
  <2>2. v.st.capacity = PageRequestAcceptedCapacity(w.st, e)
    BY <1>1, <1>2, <2>1, PageRequestAcceptedEffect
  <2>3. DOMAIN v.st.capacity = DOMAIN w.st.capacity \cup {request}
    <3> DEFINE row == [server |-> e.server, load |-> Load[e.page], until |-> e.until]
    <3>1. v.st.capacity = Put(w.st.capacity, request, row)
      BY <1>1, <2>2 DEF PageRequestAcceptedCapacity
    <3> HIDE DEF row
    <3> QED
      BY <3>1 DEF Put
  <2>4. /\ v.st.cursor = w.st.cursor /\ v.st.site = w.st.site /\ v.st.dbs = w.st.dbs
        /\ v.st.conns = w.st.conns /\ v.st.counts = w.st.counts
    BY <1>1, <1>2, <2>1, ChangedBy
  <2> QED
    BY <2>3, <2>4
<1>9. ServedTo(w, x, request, page) = v
  BY DEF v, e, ServedTo
<1> QED
  BY <1>3, <1>4, <1>7, <1>8, <1>9
----------------------------------------------------------------------------
(* A session replayed: unpruned, it reads the same                          *)

IndexFields == {"capacity", "used", "indexed"}

\* Two states that differ in the capacity index alone, and read it alike at one
\* moment.
Twins(x, y, at) ==
  /\ DOMAIN x = Fields /\ DOMAIN y = Fields
  /\ \A f \in Fields \ IndexFields : x[f] = y[f]
  /\ DOMAIN x.servers \subseteq Servers
  /\ \A i \in Servers : UsedCapacity(x, i, at) = UsedCapacity(y, i, at)

SameButIndex(x, y) ==
  /\ x.refused = y.refused /\ x.status = y.status /\ x.now = y.now /\ x.cursor = y.cursor
  /\ x.site = y.site /\ x.servers = y.servers /\ x.dbs = y.dbs /\ x.growth = y.growth
  /\ x.conns = y.conns /\ x.counts = y.counts /\ x.backups = y.backups /\ x.rules = y.rules
  /\ x.attacks = y.attacks /\ x.firewallDown = y.firewallDown
  /\ x.backendDown = y.backendDown /\ x.ops = y.ops
  /\ x.serverCost = y.serverCost /\ x.backupCost = y.backupCost

LEMMA TwinFields ==
    ASSUME NEW x, NEW y, NEW at, Twins(x, y, at)
    PROVE  SameButIndex(x, y)
<1>1. \A f \in Fields \ IndexFields : x[f] = y[f]
  BY DEF Twins
<1> QED
  BY <1>1 DEF SameButIndex, Fields, IndexFields

LEMMA TwinReadings ==
    ASSUME NEW x, NEW y, NEW at, Twins(x, y, at)
    PROVE  /\ \A st : WithStatus(x, st) = WithStatus(y, st)
           /\ \A i : FreeDisk(x, i) = FreeDisk(y, i)
           /\ StarvedPages(x, at) = StarvedPages(y, at)
           /\ \A t : Blocking(x, t) = Blocking(y, t)
           /\ \A i \in DOMAIN x.servers : HasLoad(x, i, at) = HasLoad(y, i, at)
           /\ DependenciesUp(x) = DependenciesUp(y)
<1> SameButIndex(x, y)
  BY TwinFields
<1>1. \A st : WithStatus(x, st) = WithStatus(y, st)
  BY DEF WithStatus, SameButIndex
<1>2. ActiveBackends(x) = ActiveBackends(y) /\ ActiveBackends(x) \subseteq DOMAIN x.servers
  BY <1>1 DEF ActiveBackends, WithStatus
<1>3. \A i : FreeDisk(x, i) = FreeDisk(y, i) /\ DiskFull(x, i) = DiskFull(y, i)
  BY DEF FreeDisk, DiskFull, SameButIndex
<1>4. \A profile, t : Denied(x, profile, t) = Denied(y, profile, t)
  BY DEF Denied, Deciding, Matching, SameButIndex
<1>5. \A t : Blocking(x, t) = Blocking(y, t)
  BY DEF Blocking, Deciding, Matching, SameButIndex
<1>6. \A i \in DOMAIN x.servers : UsedCapacity(x, i, at) = UsedCapacity(y, i, at)
  BY DEF Twins
<1>7. {i \in ActiveBackends(x) : ~DiskFull(x, i)} = {i \in ActiveBackends(y) : ~DiskFull(y, i)}
  BY <1>2, <1>3
<1>8. ASSUME NEW page
      PROVE  AttackLoad(x, page, at) = AttackLoad(y, page, at)
  <2>1. x.attacks = y.attacks
    BY DEF SameButIndex
  <2>2. {a \in DOMAIN x.attacks : x.attacks[a].page = page /\ ~Denied(x, x.attacks[a].profile, at)}
        = {a \in DOMAIN y.attacks : y.attacks[a].page = page /\ ~Denied(y, y.attacks[a].profile, at)}
    BY <1>4, <2>1
  <2> QED
    BY <1>7, <2>1, <2>2 DEF AttackLoad
<1>9. \A page : \A i \in DOMAIN x.servers : FreeCapacity(x, i, page, at) = FreeCapacity(y, i, page, at)
  BY <1>2, <1>3, <1>6, <1>8 DEF FreeCapacity
<1>10. StarvedPages(x, at) = StarvedPages(y, at)
  BY <1>2, <1>9 DEF StarvedPages
<1>11. \A i \in DOMAIN x.servers : HasLoad(x, i, at) = HasLoad(y, i, at)
  BY <1>6 DEF HasLoad
<1>12. DependenciesUp(x) = DependenciesUp(y)
  BY DEF DependenciesUp, SameButIndex
<1> QED
  BY <1>1, <1>3, <1>5, <1>10, <1>11, <1>12

SameVerdicts(x, y) ==
  /\ "site" \in DOMAIN x /\ "site" \in DOMAIN y
  /\ x.site = y.site /\ x.dbs = y.dbs
  /\ x.firewallDown = y.firewallDown /\ x.backendDown = y.backendDown
SameOutages(x, y) ==
  \A at : /\ OpenOutage(x, at).site = OpenOutage(y, at).site
          /\ CloseOutage(x, at).site = CloseOutage(y, at).site
          /\ \A up : AvailabilityFact(x, up, at).site = AvailabilityFact(y, up, at).site

LEMMA VerdictsTwin ==
    ASSUME NEW x, NEW y, SameVerdicts(x, y)
    PROVE  SameOutages(x, y)
<1>1. DependenciesUp(x) = DependenciesUp(y)
  BY DEF SameVerdicts, DependenciesUp
<1>2. ASSUME NEW at
      PROVE  /\ OpenOutage(x, at).site = OpenOutage(y, at).site
             /\ CloseOutage(x, at).site = CloseOutage(y, at).site
  BY <1>1 DEF SameVerdicts, OpenOutage, CloseOutage
<1>3. ASSUME NEW at, NEW up
      PROVE  AvailabilityFact(x, up, at).site = AvailabilityFact(y, up, at).site
  BY <1>2 DEF SameVerdicts, AvailabilityFact
<1> QED
  BY <1>2, <1>3 DEF SameOutages

\* The index is left as it was, and what else changes changes alike.
Follow(x, y, at, t, u) ==
  /\ Twins(t, u, at)
  /\ t.capacity = x.capacity /\ t.used = x.used /\ t.indexed = x.indexed
  /\ u.capacity = y.capacity /\ u.used = y.used /\ u.indexed = y.indexed
Brings(x, y, at, t, next) == next # {} /\ \A u \in next : Follow(x, y, at, t, u)

LEMMA TwinByKept ==
    ASSUME NEW x, NEW y, NEW at, Twins(x, y, at), NEW F, F \cap IndexFields = {},
           NEW t, Kept(x, t, F), NEW u, Kept(y, u, F), \A f \in F : t[f] = u[f],
           t.servers = x.servers \/ DOMAIN t.servers \subseteq Servers
    PROVE  Follow(x, y, at, t, u)
<1>1. /\ t.capacity = x.capacity /\ t.used = x.used /\ t.indexed = x.indexed
      /\ u.capacity = y.capacity /\ u.used = y.used /\ u.indexed = y.indexed
  BY DEF Kept, Fields, IndexFields
<1>2. ASSUME NEW f \in Fields \ IndexFields
      PROVE  t[f] = u[f]
  <2>1. CASE f \in F
    BY <2>1
  <2>2. CASE f \notin F
    BY <2>2 DEF Kept, Twins
  <2> QED
    BY <2>1, <2>2
<1>3. \A i \in Servers : UsedCapacity(t, i, at) = UsedCapacity(u, i, at)
  <2>1. \A i : UsedCapacity(t, i, at) = UsedCapacity(x, i, at)
    BY <1>1 DEF UsedCapacity
  <2>2. \A i : UsedCapacity(u, i, at) = UsedCapacity(y, i, at)
    BY <1>1 DEF UsedCapacity
  <2>3. \A i \in Servers : UsedCapacity(x, i, at) = UsedCapacity(y, i, at)
    BY DEF Twins
  <2> QED
    BY <2>1, <2>2, <2>3
<1>4. DOMAIN t.servers \subseteq Servers
  BY DEF Twins
<1> QED
  BY <1>1, <1>2, <1>3, <1>4 DEF Follow, Twins, Kept

\* The events of the commands that neither advance time nor ask for a page.
MeekTypes ==
  {"OperationStarted", "OperationSucceeded", "ServerProvisioningStarted",
   "ServerDrainingStarted", "ServerRemoved", "BackendAvailabilityChanged",
   "FirewallRuleUpserted", "FirewallRuleDeleted", "FirewallAvailabilityChanged",
   "DatabaseCreated", "DatabaseDeleted", "DatabaseAvailabilityChanged",
   "DatabaseStorageIncreased", "DatabaseGrowthBlocked", "DiskLogsCleaned",
   "DatabaseBackupStarted", "DatabaseBackupCompleted", "DatabaseRestoreStarted",
   "DatabaseRestoreCompleted", "SiteStopStarted", "SiteStopped",
   "SiteDatabaseChanged", "SiteStarted"}
Meek(at, e) ==
  /\ e.type \in MeekTypes
  /\ e.type \in {"BackendAvailabilityChanged", "ServerRemoved"} => e.at = at
  /\ e.type = "ServerProvisioningStarted" => e.server \in Servers

LEMMA OperationStartedTwin ==
    ASSUME NEW x, NEW y, NEW at, Twins(x, y, at), NEW e, e.type = "OperationStarted",
           Meek(at, e), NEW t \in Handled(x, e)
    PROVE  Brings(x, y, at, t, Handled(y, e))
<1>1. DOMAIN x = Fields /\ DOMAIN y = Fields
  BY DEF Twins
<1>2. SameButIndex(x, y)
  BY TwinFields
<1>3. OperationStartedGuard(x, e)
  BY <1>1, OperationStartedEffect
<1>4. OperationStartedGuard(y, e)
  BY <1>2, <1>3, TwinReadings DEF OperationStartedGuard, SameButIndex, Running, Fact, Meek
<1>5. Handled(y, e) # {}
  BY <1>1, <1>4, OperationStartedEnabled
<1>6. ASSUME NEW u \in Handled(y, e)
      PROVE  Follow(x, y, at, t, u)
  <2>1. OperationStartedOps(x, e) = OperationStartedOps(y, e)
    BY <1>2 DEF OperationStartedOps, SameButIndex
  <2>2. t.ops = u.ops
    BY <1>1, <1>6, <2>1, OperationStartedEffect
  <2>3. Kept(x, t, {"ops"}) /\ Kept(y, u, {"ops"})
    BY <1>1, <1>6, OperationStartedEffect
  <2>4. t.servers = x.servers
    BY <2>3 DEF Kept, Fields
  <2> QED
    BY <2>2, <2>3, <2>4, TwinByKept DEF IndexFields
<1> QED
  BY <1>5, <1>6 DEF Brings

LEMMA OperationSucceededTwin ==
    ASSUME NEW x, NEW y, NEW at, Twins(x, y, at), NEW e, e.type = "OperationSucceeded",
           Meek(at, e), NEW t \in Handled(x, e)
    PROVE  Brings(x, y, at, t, Handled(y, e))
<1>1. DOMAIN x = Fields /\ DOMAIN y = Fields
  BY DEF Twins
<1>2. SameButIndex(x, y)
  BY TwinFields
<1>3. OperationSucceededGuard(x, e)
  BY <1>1, OperationSucceededEffect
<1>4. OperationSucceededGuard(y, e)
  BY <1>2, <1>3, TwinReadings DEF OperationSucceededGuard, SameButIndex, Running, Fact, Meek
<1>5. Handled(y, e) # {}
  BY <1>1, <1>4, OperationSucceededEnabled
<1>6. ASSUME NEW u \in Handled(y, e)
      PROVE  Follow(x, y, at, t, u)
  <2>1. OperationSucceededOps(x, e) = OperationSucceededOps(y, e)
    BY <1>2 DEF OperationSucceededOps, SameButIndex
  <2>2. t.ops = u.ops
    BY <1>1, <1>6, <2>1, OperationSucceededEffect
  <2>3. Kept(x, t, {"ops"}) /\ Kept(y, u, {"ops"})
    BY <1>1, <1>6, OperationSucceededEffect
  <2>4. t.servers = x.servers
    BY <2>3 DEF Kept, Fields
  <2> QED
    BY <2>2, <2>3, <2>4, TwinByKept DEF IndexFields
<1> QED
  BY <1>5, <1>6 DEF Brings

LEMMA PutWithin ==
    ASSUME NEW table, NEW S, DOMAIN table \subseteq S, NEW k \in S, NEW v
    PROVE  DOMAIN Put(table, k, v) \subseteq S
  BY DEF Put

LEMMA ServerProvisioningStartedTwin ==
    ASSUME NEW x, NEW y, NEW at, Twins(x, y, at), NEW e, e.type = "ServerProvisioningStarted",
           Meek(at, e), NEW t \in Handled(x, e)
    PROVE  Brings(x, y, at, t, Handled(y, e))
<1>1. DOMAIN x = Fields /\ DOMAIN y = Fields
  BY DEF Twins
<1>2. SameButIndex(x, y)
  BY TwinFields
<1>3. ServerProvisioningStartedGuard(x, e)
  BY <1>1, ServerProvisioningStartedEffect
<1>4. ServerProvisioningStartedGuard(y, e)
  BY <1>2, <1>3, TwinReadings DEF ServerProvisioningStartedGuard, SameButIndex, Running, Fact, Meek
<1>5. Handled(y, e) # {}
  BY <1>1, <1>4, ServerProvisioningStartedEnabled
<1>6. ASSUME NEW u \in Handled(y, e)
      PROVE  Follow(x, y, at, t, u)
  <2>1. ServerProvisioningStartedServers(x, e) = ServerProvisioningStartedServers(y, e)
    BY <1>2 DEF ServerProvisioningStartedServers, SameButIndex
  <2>2. t.servers = u.servers
    BY <1>1, <1>6, <2>1, ServerProvisioningStartedEffect
  <2>3. Kept(x, t, {"servers"}) /\ Kept(y, u, {"servers"})
    BY <1>1, <1>6, ServerProvisioningStartedEffect
  <2>4. DOMAIN t.servers \subseteq Servers
    <3>1. PICK v : ServerProvisioningStartedServers(x, e) = Put(x.servers, e.server, v)
      BY DEF ServerProvisioningStartedServers
    <3>2. t.servers = Put(x.servers, e.server, v)
      BY <1>1, <3>1, ServerProvisioningStartedEffect
    <3>3. DOMAIN x.servers \subseteq Servers /\ e.server \in Servers
      BY DEF Twins, Meek
    <3> DEFINE table == x.servers
               k == e.server
    <3>4. DOMAIN table \subseteq Servers /\ k \in Servers /\ t.servers = Put(table, k, v)
      BY <3>2, <3>3
    <3> HIDE DEF table, k
    <3> QED
      BY <3>4, PutWithin
  <2> QED
    BY <2>2, <2>3, <2>4, TwinByKept DEF IndexFields
<1> QED
  BY <1>5, <1>6 DEF Brings

LEMMA ServerDrainingStartedTwin ==
    ASSUME NEW x, NEW y, NEW at, Twins(x, y, at), NEW e, e.type = "ServerDrainingStarted",
           Meek(at, e), NEW t \in Handled(x, e)
    PROVE  Brings(x, y, at, t, Handled(y, e))
<1>1. DOMAIN x = Fields /\ DOMAIN y = Fields
  BY DEF Twins
<1>2. SameButIndex(x, y)
  BY TwinFields
<1>3. ServerDrainingStartedGuard(x, e)
  BY <1>1, ServerDrainingStartedEffect
<1>4. ServerDrainingStartedGuard(y, e)
  BY <1>2, <1>3, TwinReadings DEF ServerDrainingStartedGuard, SameButIndex, Running, Fact, Meek
<1>5. Handled(y, e) # {}
  BY <1>1, <1>4, ServerDrainingStartedEnabled
<1>6. ASSUME NEW u \in Handled(y, e)
      PROVE  Follow(x, y, at, t, u)
  <2>1. ServerDrainingStartedServers(x, e) = ServerDrainingStartedServers(y, e)
    BY <1>2 DEF ServerDrainingStartedServers, SameButIndex
  <2>2. t.servers = u.servers
    BY <1>1, <1>6, <2>1, ServerDrainingStartedEffect
  <2>3. Kept(x, t, {"servers"}) /\ Kept(y, u, {"servers"})
    BY <1>1, <1>6, ServerDrainingStartedEffect
  <2>4. DOMAIN t.servers \subseteq Servers
    <3>1. DOMAIN ServerDrainingStartedServers(x, e) = DOMAIN x.servers
      BY DEF ServerDrainingStartedServers
    <3>2. t.servers = ServerDrainingStartedServers(x, e)
      BY <1>1, ServerDrainingStartedEffect
    <3> QED
      BY <3>1, <3>2 DEF Twins
  <2> QED
    BY <2>2, <2>3, <2>4, TwinByKept DEF IndexFields
<1> QED
  BY <1>5, <1>6 DEF Brings

LEMMA ServerRemovedTwin ==
    ASSUME NEW x, NEW y, NEW at, Twins(x, y, at), NEW e, e.type = "ServerRemoved",
           Meek(at, e), NEW t \in Handled(x, e)
    PROVE  Brings(x, y, at, t, Handled(y, e))
<1>1. DOMAIN x = Fields /\ DOMAIN y = Fields
  BY DEF Twins
<1>2. SameButIndex(x, y)
  BY TwinFields
<1>3. ServerRemovedGuard(x, e)
  BY <1>1, ServerRemovedEffect
<1>4. ServerRemovedGuard(y, e)
  BY <1>2, <1>3, TwinReadings DEF ServerRemovedGuard, SameButIndex, Running, Fact, Meek, WithStatus, Twins
<1>5. Handled(y, e) # {}
  BY <1>1, <1>4, ServerRemovedEnabled
<1>6. ASSUME NEW u \in Handled(y, e)
      PROVE  Follow(x, y, at, t, u)
  <2>1. ServerRemovedServers(x, e) = ServerRemovedServers(y, e)
    BY <1>2 DEF ServerRemovedServers, SameButIndex
  <2>2. t.servers = u.servers
    BY <1>1, <1>6, <2>1, ServerRemovedEffect
  <2>3. ServerRemovedDbs(x, e) = ServerRemovedDbs(y, e)
    BY <1>2 DEF ServerRemovedDbs, SameButIndex
  <2>4. t.dbs = u.dbs
    BY <1>1, <1>6, <2>3, ServerRemovedEffect
  <2>5. ServerRemovedGrowth(x, e) = ServerRemovedGrowth(y, e)
    BY <1>2 DEF ServerRemovedGrowth, SameButIndex
  <2>6. t.growth = u.growth
    BY <1>1, <1>6, <2>5, ServerRemovedEffect
  <2>7. Kept(x, t, {"servers", "dbs", "growth"}) /\ Kept(y, u, {"servers", "dbs", "growth"})
    BY <1>1, <1>6, ServerRemovedEffect
  <2>8. DOMAIN t.servers \subseteq Servers
    <3>1. DOMAIN ServerRemovedServers(x, e) = DOMAIN x.servers \ {e.server}
      BY DropDomain DEF ServerRemovedServers
    <3>2. t.servers = ServerRemovedServers(x, e)
      BY <1>1, ServerRemovedEffect
    <3> QED
      BY <3>1, <3>2 DEF Twins
  <2> QED
    BY <2>2, <2>4, <2>6, <2>7, <2>8, TwinByKept DEF IndexFields
<1> QED
  BY <1>5, <1>6 DEF Brings

LEMMA BackendAvailabilityChangedTwin ==
    ASSUME NEW x, NEW y, NEW at, Twins(x, y, at), NEW e, e.type = "BackendAvailabilityChanged",
           Meek(at, e), NEW t \in Handled(x, e)
    PROVE  Brings(x, y, at, t, Handled(y, e))
<1>1. DOMAIN x = Fields /\ DOMAIN y = Fields
  BY DEF Twins
<1>2. SameButIndex(x, y)
  BY TwinFields
<1>3. BackendAvailabilityChangedGuard(x, e)
  BY <1>1, BackendAvailabilityChangedEffect
<1>4. BackendAvailabilityChangedGuard(y, e)
  BY <1>2, <1>3, TwinReadings DEF BackendAvailabilityChangedGuard, SameButIndex, Running, Fact, Meek
<1>5. Handled(y, e) # {}
  BY <1>1, <1>4, BackendAvailabilityChangedEnabled
<1>6. ASSUME NEW u \in Handled(y, e)
      PROVE  Follow(x, y, at, t, u)
  <2>1. t.backendDown = u.backendDown
    BY <1>1, <1>6, BackendAvailabilityChangedEffect
  <2>2. BackendAvailabilityChangedSite(x, e) = BackendAvailabilityChangedSite(y, e)
    <3> DEFINE zx == [x EXCEPT !.backendDown = ~e.up]
               zy == [y EXCEPT !.backendDown = ~e.up]
    <3>1. SameVerdicts(zx, zy)
      BY <1>1, <1>2 DEF SameVerdicts, SameButIndex, Fields
    <3> HIDE DEF zx, zy
    <3>2. SameOutages(zx, zy)
      BY <3>1, VerdictsTwin
    <3> QED
      BY <1>2, <3>2 DEF zx, zy, BackendAvailabilityChangedSite, SameOutages, SameButIndex
  <2>3. t.site = u.site
    BY <1>1, <1>6, <2>2, BackendAvailabilityChangedEffect
  <2>4. Kept(x, t, {"backendDown", "site"}) /\ Kept(y, u, {"backendDown", "site"})
    BY <1>1, <1>6, BackendAvailabilityChangedEffect
  <2>5. t.servers = x.servers
    BY <2>4 DEF Kept, Fields
  <2> QED
    BY <2>1, <2>3, <2>4, <2>5, TwinByKept DEF IndexFields
<1> QED
  BY <1>5, <1>6 DEF Brings

LEMMA FirewallRuleUpsertedTwin ==
    ASSUME NEW x, NEW y, NEW at, Twins(x, y, at), NEW e, e.type = "FirewallRuleUpserted",
           Meek(at, e), NEW t \in Handled(x, e)
    PROVE  Brings(x, y, at, t, Handled(y, e))
<1>1. DOMAIN x = Fields /\ DOMAIN y = Fields
  BY DEF Twins
<1>2. SameButIndex(x, y)
  BY TwinFields
<1>3. FirewallRuleUpsertedGuard(x, e)
  BY <1>1, FirewallRuleUpsertedEffect
<1>4. FirewallRuleUpsertedGuard(y, e)
  BY <1>2, <1>3, TwinReadings DEF FirewallRuleUpsertedGuard, SameButIndex, Running, Fact, Meek
<1>5. Handled(y, e) # {}
  BY <1>1, <1>4, FirewallRuleUpsertedEnabled
<1>6. ASSUME NEW u \in Handled(y, e)
      PROVE  Follow(x, y, at, t, u)
  <2>1. FirewallRuleUpsertedRules(x, e) = FirewallRuleUpsertedRules(y, e)
    BY <1>2 DEF FirewallRuleUpsertedRules, SameButIndex
  <2>2. t.rules = u.rules
    BY <1>1, <1>6, <2>1, FirewallRuleUpsertedEffect
  <2>3. Kept(x, t, {"rules"}) /\ Kept(y, u, {"rules"})
    BY <1>1, <1>6, FirewallRuleUpsertedEffect
  <2>4. t.servers = x.servers
    BY <2>3 DEF Kept, Fields
  <2> QED
    BY <2>2, <2>3, <2>4, TwinByKept DEF IndexFields
<1> QED
  BY <1>5, <1>6 DEF Brings

LEMMA FirewallRuleDeletedTwin ==
    ASSUME NEW x, NEW y, NEW at, Twins(x, y, at), NEW e, e.type = "FirewallRuleDeleted",
           Meek(at, e), NEW t \in Handled(x, e)
    PROVE  Brings(x, y, at, t, Handled(y, e))
<1>1. DOMAIN x = Fields /\ DOMAIN y = Fields
  BY DEF Twins
<1>2. SameButIndex(x, y)
  BY TwinFields
<1>3. FirewallRuleDeletedGuard(x, e)
  BY <1>1, FirewallRuleDeletedEffect
<1>4. FirewallRuleDeletedGuard(y, e)
  BY <1>2, <1>3, TwinReadings DEF FirewallRuleDeletedGuard, SameButIndex, Running, Fact, Meek
<1>5. Handled(y, e) # {}
  BY <1>1, <1>4, FirewallRuleDeletedEnabled
<1>6. ASSUME NEW u \in Handled(y, e)
      PROVE  Follow(x, y, at, t, u)
  <2>1. FirewallRuleDeletedRules(x, e) = FirewallRuleDeletedRules(y, e)
    BY <1>2 DEF FirewallRuleDeletedRules, SameButIndex
  <2>2. t.rules = u.rules
    BY <1>1, <1>6, <2>1, FirewallRuleDeletedEffect
  <2>3. Kept(x, t, {"rules"}) /\ Kept(y, u, {"rules"})
    BY <1>1, <1>6, FirewallRuleDeletedEffect
  <2>4. t.servers = x.servers
    BY <2>3 DEF Kept, Fields
  <2> QED
    BY <2>2, <2>3, <2>4, TwinByKept DEF IndexFields
<1> QED
  BY <1>5, <1>6 DEF Brings

LEMMA FirewallAvailabilityChangedTwin ==
    ASSUME NEW x, NEW y, NEW at, Twins(x, y, at), NEW e, e.type = "FirewallAvailabilityChanged",
           Meek(at, e), NEW t \in Handled(x, e)
    PROVE  Brings(x, y, at, t, Handled(y, e))
<1>1. DOMAIN x = Fields /\ DOMAIN y = Fields
  BY DEF Twins
<1>2. SameButIndex(x, y)
  BY TwinFields
<1>3. FirewallAvailabilityChangedGuard(x, e)
  BY <1>1, FirewallAvailabilityChangedEffect
<1>4. FirewallAvailabilityChangedGuard(y, e)
  BY <1>2, <1>3, TwinReadings DEF FirewallAvailabilityChangedGuard, SameButIndex, Running, Fact, Meek
<1>5. Handled(y, e) # {}
  BY <1>1, <1>4, FirewallAvailabilityChangedEnabled
<1>6. ASSUME NEW u \in Handled(y, e)
      PROVE  Follow(x, y, at, t, u)
  <2>1. t.firewallDown = u.firewallDown
    BY <1>1, <1>6, FirewallAvailabilityChangedEffect
  <2>2. FirewallAvailabilityChangedSite(x, e) = FirewallAvailabilityChangedSite(y, e)
    <3> DEFINE zx == [x EXCEPT !.firewallDown = ~e.up]
               zy == [y EXCEPT !.firewallDown = ~e.up]
    <3>1. SameVerdicts(zx, zy)
      BY <1>1, <1>2 DEF SameVerdicts, SameButIndex, Fields
    <3> HIDE DEF zx, zy
    <3>2. SameOutages(zx, zy)
      BY <3>1, VerdictsTwin
    <3> QED
      BY <1>2, <3>2 DEF zx, zy, FirewallAvailabilityChangedSite, SameOutages, SameButIndex
  <2>3. t.site = u.site
    BY <1>1, <1>6, <2>2, FirewallAvailabilityChangedEffect
  <2>4. Kept(x, t, {"firewallDown", "site"}) /\ Kept(y, u, {"firewallDown", "site"})
    BY <1>1, <1>6, FirewallAvailabilityChangedEffect
  <2>5. t.servers = x.servers
    BY <2>4 DEF Kept, Fields
  <2> QED
    BY <2>1, <2>3, <2>4, <2>5, TwinByKept DEF IndexFields
<1> QED
  BY <1>5, <1>6 DEF Brings

LEMMA DatabaseCreatedTwin ==
    ASSUME NEW x, NEW y, NEW at, Twins(x, y, at), NEW e, e.type = "DatabaseCreated",
           Meek(at, e), NEW t \in Handled(x, e)
    PROVE  Brings(x, y, at, t, Handled(y, e))
<1>1. DOMAIN x = Fields /\ DOMAIN y = Fields
  BY DEF Twins
<1>2. SameButIndex(x, y)
  BY TwinFields
<1>3. DatabaseCreatedGuard(x, e)
  BY <1>1, DatabaseCreatedEffect
<1>4. DatabaseCreatedGuard(y, e)
  BY <1>2, <1>3, TwinReadings DEF DatabaseCreatedGuard, SameButIndex, Running, Fact, Meek
<1>5. Handled(y, e) # {}
  BY <1>1, <1>4, DatabaseCreatedEnabled
<1>6. ASSUME NEW u \in Handled(y, e)
      PROVE  Follow(x, y, at, t, u)
  <2>1. DatabaseCreatedDbs(x, e) = DatabaseCreatedDbs(y, e)
    BY <1>2 DEF DatabaseCreatedDbs, SameButIndex
  <2>2. t.dbs = u.dbs
    BY <1>1, <1>6, <2>1, DatabaseCreatedEffect
  <2>3. Kept(x, t, {"dbs"}) /\ Kept(y, u, {"dbs"})
    BY <1>1, <1>6, DatabaseCreatedEffect
  <2>4. t.servers = x.servers
    BY <2>3 DEF Kept, Fields
  <2> QED
    BY <2>2, <2>3, <2>4, TwinByKept DEF IndexFields
<1> QED
  BY <1>5, <1>6 DEF Brings

LEMMA DatabaseDeletedTwin ==
    ASSUME NEW x, NEW y, NEW at, Twins(x, y, at), NEW e, e.type = "DatabaseDeleted",
           Meek(at, e), NEW t \in Handled(x, e)
    PROVE  Brings(x, y, at, t, Handled(y, e))
<1>1. DOMAIN x = Fields /\ DOMAIN y = Fields
  BY DEF Twins
<1>2. SameButIndex(x, y)
  BY TwinFields
<1>3. DatabaseDeletedGuard(x, e)
  BY <1>1, DatabaseDeletedEffect
<1>4. DatabaseDeletedGuard(y, e)
  BY <1>2, <1>3, TwinReadings DEF DatabaseDeletedGuard, SameButIndex, Running, Fact, Meek
<1>5. Handled(y, e) # {}
  BY <1>1, <1>4, DatabaseDeletedEnabled
<1>6. ASSUME NEW u \in Handled(y, e)
      PROVE  Follow(x, y, at, t, u)
  <2>1. DatabaseDeletedDbs(x, e) = DatabaseDeletedDbs(y, e)
    BY <1>2 DEF DatabaseDeletedDbs, SameButIndex
  <2>2. t.dbs = u.dbs
    BY <1>1, <1>6, <2>1, DatabaseDeletedEffect
  <2>3. DatabaseDeletedGrowth(x, e) = DatabaseDeletedGrowth(y, e)
    BY <1>2 DEF DatabaseDeletedGrowth, SameButIndex
  <2>4. t.growth = u.growth
    BY <1>1, <1>6, <2>3, DatabaseDeletedEffect
  <2>5. Kept(x, t, {"dbs", "growth"}) /\ Kept(y, u, {"dbs", "growth"})
    BY <1>1, <1>6, DatabaseDeletedEffect
  <2>6. t.servers = x.servers
    BY <2>5 DEF Kept, Fields
  <2> QED
    BY <2>2, <2>4, <2>5, <2>6, TwinByKept DEF IndexFields
<1> QED
  BY <1>5, <1>6 DEF Brings

LEMMA DatabaseAvailabilityChangedTwin ==
    ASSUME NEW x, NEW y, NEW at, Twins(x, y, at), NEW e, e.type = "DatabaseAvailabilityChanged",
           Meek(at, e), NEW t \in Handled(x, e)
    PROVE  Brings(x, y, at, t, Handled(y, e))
<1>1. DOMAIN x = Fields /\ DOMAIN y = Fields
  BY DEF Twins
<1>2. SameButIndex(x, y)
  BY TwinFields
<1>3. DatabaseAvailabilityChangedGuard(x, e)
  BY <1>1, DatabaseAvailabilityChangedEffect
<1>4. DatabaseAvailabilityChangedGuard(y, e)
  BY <1>2, <1>3, TwinReadings DEF DatabaseAvailabilityChangedGuard, SameButIndex, Running, Fact, Meek
<1>5. Handled(y, e) # {}
  BY <1>1, <1>4, DatabaseAvailabilityChangedEnabled
<1>6. ASSUME NEW u \in Handled(y, e)
      PROVE  Follow(x, y, at, t, u)
  <2>1. DatabaseAvailabilityChangedDbs(x, e) = DatabaseAvailabilityChangedDbs(y, e)
    BY <1>2 DEF DatabaseAvailabilityChangedDbs, SameButIndex
  <2>2. t.dbs = u.dbs
    BY <1>1, <1>6, <2>1, DatabaseAvailabilityChangedEffect
  <2>3. DatabaseAvailabilityChangedSite(x, e) = DatabaseAvailabilityChangedSite(y, e)
    <3> DEFINE zx == [x EXCEPT !.dbs[e.db].reasons = e.reasons]
               zy == [y EXCEPT !.dbs[e.db].reasons = e.reasons]
    <3>1. SameVerdicts(zx, zy)
      BY <1>1, <1>2 DEF SameVerdicts, SameButIndex, Fields
    <3> HIDE DEF zx, zy
    <3>2. SameOutages(zx, zy)
      BY <3>1, VerdictsTwin
    <3> QED
      BY <1>2, <3>2 DEF zx, zy, DatabaseAvailabilityChangedSite, SameOutages, SameButIndex
  <2>4. t.site = u.site
    BY <1>1, <1>6, <2>3, DatabaseAvailabilityChangedEffect
  <2>5. Kept(x, t, {"dbs", "site"}) /\ Kept(y, u, {"dbs", "site"})
    BY <1>1, <1>6, DatabaseAvailabilityChangedEffect
  <2>6. t.servers = x.servers
    BY <2>5 DEF Kept, Fields
  <2> QED
    BY <2>2, <2>4, <2>5, <2>6, TwinByKept DEF IndexFields
<1> QED
  BY <1>5, <1>6 DEF Brings

LEMMA DatabaseStorageIncreasedTwin ==
    ASSUME NEW x, NEW y, NEW at, Twins(x, y, at), NEW e, e.type = "DatabaseStorageIncreased",
           Meek(at, e), NEW t \in Handled(x, e)
    PROVE  Brings(x, y, at, t, Handled(y, e))
<1>1. DOMAIN x = Fields /\ DOMAIN y = Fields
  BY DEF Twins
<1>2. SameButIndex(x, y)
  BY TwinFields
<1>3. DatabaseStorageIncreasedGuard(x, e)
  BY <1>1, DatabaseStorageIncreasedEffect
<1>4. DatabaseStorageIncreasedGuard(y, e)
  BY <1>2, <1>3, TwinReadings DEF DatabaseStorageIncreasedGuard, SameButIndex, Running, Fact, Meek
<1>5. Handled(y, e) # {}
  BY <1>1, <1>4, DatabaseStorageIncreasedEnabled
<1>6. ASSUME NEW u \in Handled(y, e)
      PROVE  Follow(x, y, at, t, u)
  <2>1. DatabaseStorageIncreasedDbs(x, e) = DatabaseStorageIncreasedDbs(y, e)
    BY <1>2 DEF DatabaseStorageIncreasedDbs, SameButIndex
  <2>2. t.dbs = u.dbs
    BY <1>1, <1>6, <2>1, DatabaseStorageIncreasedEffect
  <2>3. DatabaseStorageIncreasedGrowth(x, e) = DatabaseStorageIncreasedGrowth(y, e)
    BY <1>2 DEF DatabaseStorageIncreasedGrowth, SameButIndex
  <2>4. t.growth = u.growth
    BY <1>1, <1>6, <2>3, DatabaseStorageIncreasedEffect
  <2>5. Kept(x, t, {"dbs", "growth"}) /\ Kept(y, u, {"dbs", "growth"})
    BY <1>1, <1>6, DatabaseStorageIncreasedEffect
  <2>6. t.servers = x.servers
    BY <2>5 DEF Kept, Fields
  <2> QED
    BY <2>2, <2>4, <2>5, <2>6, TwinByKept DEF IndexFields
<1> QED
  BY <1>5, <1>6 DEF Brings

LEMMA DatabaseGrowthBlockedTwin ==
    ASSUME NEW x, NEW y, NEW at, Twins(x, y, at), NEW e, e.type = "DatabaseGrowthBlocked",
           Meek(at, e), NEW t \in Handled(x, e)
    PROVE  Brings(x, y, at, t, Handled(y, e))
<1>1. DOMAIN x = Fields /\ DOMAIN y = Fields
  BY DEF Twins
<1>2. SameButIndex(x, y)
  BY TwinFields
<1>3. DatabaseGrowthBlockedGuard(x, e)
  BY <1>1, DatabaseGrowthBlockedEffect
<1>4. DatabaseGrowthBlockedGuard(y, e)
  BY <1>2, <1>3, TwinReadings DEF DatabaseGrowthBlockedGuard, SameButIndex, Running, Fact, Meek
<1>5. Handled(y, e) # {}
  BY <1>1, <1>4, DatabaseGrowthBlockedEnabled
<1>6. ASSUME NEW u \in Handled(y, e)
      PROVE  Follow(x, y, at, t, u)
  <2>1. DatabaseGrowthBlockedGrowth(x, e) = DatabaseGrowthBlockedGrowth(y, e)
    BY <1>2 DEF DatabaseGrowthBlockedGrowth, SameButIndex
  <2>2. t.growth = u.growth
    BY <1>1, <1>6, <2>1, DatabaseGrowthBlockedEffect
  <2>3. Kept(x, t, {"growth"}) /\ Kept(y, u, {"growth"})
    BY <1>1, <1>6, DatabaseGrowthBlockedEffect
  <2>4. t.servers = x.servers
    BY <2>3 DEF Kept, Fields
  <2> QED
    BY <2>2, <2>3, <2>4, TwinByKept DEF IndexFields
<1> QED
  BY <1>5, <1>6 DEF Brings

LEMMA DiskLogsCleanedTwin ==
    ASSUME NEW x, NEW y, NEW at, Twins(x, y, at), NEW e, e.type = "DiskLogsCleaned",
           Meek(at, e), NEW t \in Handled(x, e)
    PROVE  Brings(x, y, at, t, Handled(y, e))
<1>1. DOMAIN x = Fields /\ DOMAIN y = Fields
  BY DEF Twins
<1>2. SameButIndex(x, y)
  BY TwinFields
<1>3. DiskLogsCleanedGuard(x, e)
  BY <1>1, DiskLogsCleanedEffect
<1>4. DiskLogsCleanedGuard(y, e)
  BY <1>2, <1>3, TwinReadings DEF DiskLogsCleanedGuard, SameButIndex, Running, Fact, Meek
<1>5. Handled(y, e) # {}
  BY <1>1, <1>4, DiskLogsCleanedEnabled
<1>6. ASSUME NEW u \in Handled(y, e)
      PROVE  Follow(x, y, at, t, u)
  <2>1. DiskLogsCleanedServers(x, e) = DiskLogsCleanedServers(y, e)
    BY <1>2 DEF DiskLogsCleanedServers, SameButIndex
  <2>2. t.servers = u.servers
    BY <1>1, <1>6, <2>1, DiskLogsCleanedEffect
  <2>3. DiskLogsCleanedDbs(x, e) = DiskLogsCleanedDbs(y, e)
    BY <1>2 DEF DiskLogsCleanedDbs, SameButIndex
  <2>4. t.dbs = u.dbs
    BY <1>1, <1>6, <2>3, DiskLogsCleanedEffect
  <2>5. Kept(x, t, {"servers", "dbs"}) /\ Kept(y, u, {"servers", "dbs"})
    BY <1>1, <1>6, DiskLogsCleanedEffect
  <2>6. DOMAIN t.servers \subseteq Servers
    <3>1. DOMAIN DiskLogsCleanedServers(x, e) = DOMAIN x.servers
      BY DEF DiskLogsCleanedServers
    <3>2. t.servers = DiskLogsCleanedServers(x, e)
      BY <1>1, DiskLogsCleanedEffect
    <3> QED
      BY <3>1, <3>2 DEF Twins
  <2> QED
    BY <2>2, <2>4, <2>5, <2>6, TwinByKept DEF IndexFields
<1> QED
  BY <1>5, <1>6 DEF Brings

LEMMA DatabaseBackupStartedTwin ==
    ASSUME NEW x, NEW y, NEW at, Twins(x, y, at), NEW e, e.type = "DatabaseBackupStarted",
           Meek(at, e), NEW t \in Handled(x, e)
    PROVE  Brings(x, y, at, t, Handled(y, e))
<1>1. DOMAIN x = Fields /\ DOMAIN y = Fields
  BY DEF Twins
<1>2. SameButIndex(x, y)
  BY TwinFields
<1>3. DatabaseBackupStartedGuard(x, e)
  BY <1>1, DatabaseBackupStartedEffect
<1>4. DatabaseBackupStartedGuard(y, e)
  BY <1>2, <1>3, TwinReadings DEF DatabaseBackupStartedGuard, SameButIndex, Running, Fact, Meek
<1>5. Handled(y, e) # {}
  BY <1>1, <1>4, DatabaseBackupStartedEnabled
<1>6. ASSUME NEW u \in Handled(y, e)
      PROVE  Follow(x, y, at, t, u)
  <2>1. DatabaseBackupStartedBackups(x, e) = DatabaseBackupStartedBackups(y, e)
    BY <1>2 DEF DatabaseBackupStartedBackups, SameButIndex
  <2>2. t.backups = u.backups
    BY <1>1, <1>6, <2>1, DatabaseBackupStartedEffect
  <2>3. Kept(x, t, {"backups"}) /\ Kept(y, u, {"backups"})
    BY <1>1, <1>6, DatabaseBackupStartedEffect
  <2>4. t.servers = x.servers
    BY <2>3 DEF Kept, Fields
  <2> QED
    BY <2>2, <2>3, <2>4, TwinByKept DEF IndexFields
<1> QED
  BY <1>5, <1>6 DEF Brings

LEMMA DatabaseBackupCompletedTwin ==
    ASSUME NEW x, NEW y, NEW at, Twins(x, y, at), NEW e, e.type = "DatabaseBackupCompleted",
           Meek(at, e), NEW t \in Handled(x, e)
    PROVE  Brings(x, y, at, t, Handled(y, e))
<1>1. DOMAIN x = Fields /\ DOMAIN y = Fields
  BY DEF Twins
<1>2. SameButIndex(x, y)
  BY TwinFields
<1>3. DatabaseBackupCompletedGuard(x, e)
  BY <1>1, DatabaseBackupCompletedEffect
<1>4. DatabaseBackupCompletedGuard(y, e)
  BY <1>2, <1>3, TwinReadings DEF DatabaseBackupCompletedGuard, SameButIndex, Running, Fact, Meek
<1>5. Handled(y, e) # {}
  BY <1>1, <1>4, DatabaseBackupCompletedEnabled
<1>6. ASSUME NEW u \in Handled(y, e)
      PROVE  Follow(x, y, at, t, u)
  <2>1. DatabaseBackupCompletedBackups(x, e) = DatabaseBackupCompletedBackups(y, e)
    BY <1>2 DEF DatabaseBackupCompletedBackups, SameButIndex
  <2>2. t.backups = u.backups
    BY <1>1, <1>6, <2>1, DatabaseBackupCompletedEffect
  <2>3. Kept(x, t, {"backups"}) /\ Kept(y, u, {"backups"})
    BY <1>1, <1>6, DatabaseBackupCompletedEffect
  <2>4. t.servers = x.servers
    BY <2>3 DEF Kept, Fields
  <2> QED
    BY <2>2, <2>3, <2>4, TwinByKept DEF IndexFields
<1> QED
  BY <1>5, <1>6 DEF Brings

LEMMA DatabaseRestoreStartedTwin ==
    ASSUME NEW x, NEW y, NEW at, Twins(x, y, at), NEW e, e.type = "DatabaseRestoreStarted",
           Meek(at, e), NEW t \in Handled(x, e)
    PROVE  Brings(x, y, at, t, Handled(y, e))
<1>1. DOMAIN x = Fields /\ DOMAIN y = Fields
  BY DEF Twins
<1>2. SameButIndex(x, y)
  BY TwinFields
<1>3. DatabaseRestoreStartedGuard(x, e)
  BY <1>1, DatabaseRestoreStartedEffect
<1>4. DatabaseRestoreStartedGuard(y, e)
  BY <1>2, <1>3, TwinReadings DEF DatabaseRestoreStartedGuard, SameButIndex, Running, Fact, Meek
<1>5. Handled(y, e) # {}
  BY <1>1, <1>4, DatabaseRestoreStartedEnabled
<1>6. ASSUME NEW u \in Handled(y, e)
      PROVE  Follow(x, y, at, t, u)
  <2>1. DatabaseRestoreStartedDbs(x, e) = DatabaseRestoreStartedDbs(y, e)
    BY <1>2 DEF DatabaseRestoreStartedDbs, SameButIndex
  <2>2. t.dbs = u.dbs
    BY <1>1, <1>6, <2>1, DatabaseRestoreStartedEffect
  <2>3. Kept(x, t, {"dbs"}) /\ Kept(y, u, {"dbs"})
    BY <1>1, <1>6, DatabaseRestoreStartedEffect
  <2>4. t.servers = x.servers
    BY <2>3 DEF Kept, Fields
  <2> QED
    BY <2>2, <2>3, <2>4, TwinByKept DEF IndexFields
<1> QED
  BY <1>5, <1>6 DEF Brings

LEMMA DatabaseRestoreCompletedTwin ==
    ASSUME NEW x, NEW y, NEW at, Twins(x, y, at), NEW e, e.type = "DatabaseRestoreCompleted",
           Meek(at, e), NEW t \in Handled(x, e)
    PROVE  Brings(x, y, at, t, Handled(y, e))
<1>1. DOMAIN x = Fields /\ DOMAIN y = Fields
  BY DEF Twins
<1>2. SameButIndex(x, y)
  BY TwinFields
<1>3. DatabaseRestoreCompletedGuard(x, e)
  BY <1>1, DatabaseRestoreCompletedEffect
<1>4. DatabaseRestoreCompletedGuard(y, e)
  BY <1>2, <1>3, TwinReadings DEF DatabaseRestoreCompletedGuard, SameButIndex, Running, Fact, Meek
<1>5. Handled(y, e) # {}
  BY <1>1, <1>4, DatabaseRestoreCompletedEnabled
<1>6. ASSUME NEW u \in Handled(y, e)
      PROVE  Follow(x, y, at, t, u)
  <2>1. DatabaseRestoreCompletedDbs(x, e) = DatabaseRestoreCompletedDbs(y, e)
    BY <1>2 DEF DatabaseRestoreCompletedDbs, SameButIndex
  <2>2. t.dbs = u.dbs
    BY <1>1, <1>6, <2>1, DatabaseRestoreCompletedEffect
  <2>3. Kept(x, t, {"dbs"}) /\ Kept(y, u, {"dbs"})
    BY <1>1, <1>6, DatabaseRestoreCompletedEffect
  <2>4. t.servers = x.servers
    BY <2>3 DEF Kept, Fields
  <2> QED
    BY <2>2, <2>3, <2>4, TwinByKept DEF IndexFields
<1> QED
  BY <1>5, <1>6 DEF Brings

LEMMA SiteStopStartedTwin ==
    ASSUME NEW x, NEW y, NEW at, Twins(x, y, at), NEW e, e.type = "SiteStopStarted",
           Meek(at, e), NEW t \in Handled(x, e)
    PROVE  Brings(x, y, at, t, Handled(y, e))
<1>1. DOMAIN x = Fields /\ DOMAIN y = Fields
  BY DEF Twins
<1>2. SameButIndex(x, y)
  BY TwinFields
<1>3. SiteStopStartedGuard(x, e)
  BY <1>1, SiteStopStartedEffect
<1>4. SiteStopStartedGuard(y, e)
  BY <1>2, <1>3, TwinReadings DEF SiteStopStartedGuard, SameButIndex, Running, Fact, Meek
<1>5. Handled(y, e) # {}
  BY <1>1, <1>4, SiteStopStartedEnabled
<1>6. ASSUME NEW u \in Handled(y, e)
      PROVE  Follow(x, y, at, t, u)
  <2>1. SiteStopStartedSite(x, e) = SiteStopStartedSite(y, e)
    <3> DEFINE zx == [x EXCEPT !.site.status = "stopping", !.site.op = e.op]
               zy == [y EXCEPT !.site.status = "stopping", !.site.op = e.op]
    <3>1. SameVerdicts(zx, zy)
      BY <1>1, <1>2 DEF SameVerdicts, SameButIndex, Fields
    <3> HIDE DEF zx, zy
    <3>2. SameOutages(zx, zy)
      BY <3>1, VerdictsTwin
    <3> QED
      BY <1>2, <3>2 DEF zx, zy, SiteStopStartedSite, SameOutages, SameButIndex
  <2>2. t.site = u.site
    BY <1>1, <1>6, <2>1, SiteStopStartedEffect
  <2>3. Kept(x, t, {"site"}) /\ Kept(y, u, {"site"})
    BY <1>1, <1>6, SiteStopStartedEffect
  <2>4. t.servers = x.servers
    BY <2>3 DEF Kept, Fields
  <2> QED
    BY <2>2, <2>3, <2>4, TwinByKept DEF IndexFields
<1> QED
  BY <1>5, <1>6 DEF Brings

LEMMA SiteStoppedTwin ==
    ASSUME NEW x, NEW y, NEW at, Twins(x, y, at), NEW e, e.type = "SiteStopped",
           Meek(at, e), NEW t \in Handled(x, e)
    PROVE  Brings(x, y, at, t, Handled(y, e))
<1>1. DOMAIN x = Fields /\ DOMAIN y = Fields
  BY DEF Twins
<1>2. SameButIndex(x, y)
  BY TwinFields
<1>3. SiteStoppedGuard(x, e)
  BY <1>1, SiteStoppedEffect
<1>4. SiteStoppedGuard(y, e)
  BY <1>2, <1>3, TwinReadings DEF SiteStoppedGuard, SameButIndex, Running, Fact, Meek
<1>5. Handled(y, e) # {}
  BY <1>1, <1>4, SiteStoppedEnabled
<1>6. ASSUME NEW u \in Handled(y, e)
      PROVE  Follow(x, y, at, t, u)
  <2>1. SiteStoppedSite(x, e) = SiteStoppedSite(y, e)
    BY <1>2 DEF SiteStoppedSite, SameButIndex
  <2>2. t.site = u.site
    BY <1>1, <1>6, <2>1, SiteStoppedEffect
  <2>3. Kept(x, t, {"site"}) /\ Kept(y, u, {"site"})
    BY <1>1, <1>6, SiteStoppedEffect
  <2>4. t.servers = x.servers
    BY <2>3 DEF Kept, Fields
  <2> QED
    BY <2>2, <2>3, <2>4, TwinByKept DEF IndexFields
<1> QED
  BY <1>5, <1>6 DEF Brings

LEMMA SiteDatabaseChangedTwin ==
    ASSUME NEW x, NEW y, NEW at, Twins(x, y, at), NEW e, e.type = "SiteDatabaseChanged",
           Meek(at, e), NEW t \in Handled(x, e)
    PROVE  Brings(x, y, at, t, Handled(y, e))
<1>1. DOMAIN x = Fields /\ DOMAIN y = Fields
  BY DEF Twins
<1>2. SameButIndex(x, y)
  BY TwinFields
<1>3. SiteDatabaseChangedGuard(x, e)
  BY <1>1, SiteDatabaseChangedEffect
<1>4. SiteDatabaseChangedGuard(y, e)
  BY <1>2, <1>3, TwinReadings DEF SiteDatabaseChangedGuard, SameButIndex, Running, Fact, Meek
<1>5. Handled(y, e) # {}
  BY <1>1, <1>4, SiteDatabaseChangedEnabled
<1>6. ASSUME NEW u \in Handled(y, e)
      PROVE  Follow(x, y, at, t, u)
  <2>1. SiteDatabaseChangedSite(x, e) = SiteDatabaseChangedSite(y, e)
    BY <1>2 DEF SiteDatabaseChangedSite, SameButIndex
  <2>2. t.site = u.site
    BY <1>1, <1>6, <2>1, SiteDatabaseChangedEffect
  <2>3. Kept(x, t, {"site"}) /\ Kept(y, u, {"site"})
    BY <1>1, <1>6, SiteDatabaseChangedEffect
  <2>4. t.servers = x.servers
    BY <2>3 DEF Kept, Fields
  <2> QED
    BY <2>2, <2>3, <2>4, TwinByKept DEF IndexFields
<1> QED
  BY <1>5, <1>6 DEF Brings

LEMMA SiteStartedTwin ==
    ASSUME NEW x, NEW y, NEW at, Twins(x, y, at), NEW e, e.type = "SiteStarted",
           Meek(at, e), NEW t \in Handled(x, e)
    PROVE  Brings(x, y, at, t, Handled(y, e))
<1>1. DOMAIN x = Fields /\ DOMAIN y = Fields
  BY DEF Twins
<1>2. SameButIndex(x, y)
  BY TwinFields
<1>3. SiteStartedGuard(x, e)
  BY <1>1, SiteStartedEffect
<1>4. SiteStartedGuard(y, e)
  BY <1>2, <1>3, TwinReadings DEF SiteStartedGuard, SameButIndex, Running, Fact, Meek
<1>5. Handled(y, e) # {}
  BY <1>1, <1>4, SiteStartedEnabled
<1>6. ASSUME NEW u \in Handled(y, e)
      PROVE  Follow(x, y, at, t, u)
  <2>1. SiteStartedSite(x, e) = SiteStartedSite(y, e)
    <3> DEFINE zx == [x EXCEPT !.site.status = "running", !.site.op = NoOperation]
               zy == [y EXCEPT !.site.status = "running", !.site.op = NoOperation]
    <3>1. SameVerdicts(zx, zy)
      BY <1>1, <1>2 DEF SameVerdicts, SameButIndex, Fields
    <3> HIDE DEF zx, zy
    <3>2. SameOutages(zx, zy)
      BY <3>1, VerdictsTwin
    <3> QED
      BY <1>2, <3>2 DEF zx, zy, SiteStartedSite, SameOutages, SameButIndex
  <2>2. t.site = u.site
    BY <1>1, <1>6, <2>1, SiteStartedEffect
  <2>3. Kept(x, t, {"site"}) /\ Kept(y, u, {"site"})
    BY <1>1, <1>6, SiteStartedEffect
  <2>4. t.servers = x.servers
    BY <2>3 DEF Kept, Fields
  <2> QED
    BY <2>2, <2>3, <2>4, TwinByKept DEF IndexFields
<1> QED
  BY <1>5, <1>6 DEF Brings

\* An event that a state accepts, its twin does.
LEMMA TwinStep ==
    ASSUME NEW x, NEW y, NEW at, Twins(x, y, at), NEW e, Meek(at, e), NEW t \in Handled(x, e)
    PROVE  Brings(x, y, at, t, Handled(y, e))
<1>1. e.type \in MeekTypes
  BY DEF Meek
<1>2. CASE e.type = "OperationStarted"
  BY <1>2, OperationStartedTwin
<1>3. CASE e.type = "OperationSucceeded"
  BY <1>3, OperationSucceededTwin
<1>4. CASE e.type = "ServerProvisioningStarted"
  BY <1>4, ServerProvisioningStartedTwin
<1>5. CASE e.type = "ServerDrainingStarted"
  BY <1>5, ServerDrainingStartedTwin
<1>6. CASE e.type = "ServerRemoved"
  BY <1>6, ServerRemovedTwin
<1>7. CASE e.type = "BackendAvailabilityChanged"
  BY <1>7, BackendAvailabilityChangedTwin
<1>8. CASE e.type = "FirewallRuleUpserted"
  BY <1>8, FirewallRuleUpsertedTwin
<1>9. CASE e.type = "FirewallRuleDeleted"
  BY <1>9, FirewallRuleDeletedTwin
<1>10. CASE e.type = "FirewallAvailabilityChanged"
  BY <1>10, FirewallAvailabilityChangedTwin
<1>11. CASE e.type = "DatabaseCreated"
  BY <1>11, DatabaseCreatedTwin
<1>12. CASE e.type = "DatabaseDeleted"
  BY <1>12, DatabaseDeletedTwin
<1>13. CASE e.type = "DatabaseAvailabilityChanged"
  BY <1>13, DatabaseAvailabilityChangedTwin
<1>14. CASE e.type = "DatabaseStorageIncreased"
  BY <1>14, DatabaseStorageIncreasedTwin
<1>15. CASE e.type = "DatabaseGrowthBlocked"
  BY <1>15, DatabaseGrowthBlockedTwin
<1>16. CASE e.type = "DiskLogsCleaned"
  BY <1>16, DiskLogsCleanedTwin
<1>17. CASE e.type = "DatabaseBackupStarted"
  BY <1>17, DatabaseBackupStartedTwin
<1>18. CASE e.type = "DatabaseBackupCompleted"
  BY <1>18, DatabaseBackupCompletedTwin
<1>19. CASE e.type = "DatabaseRestoreStarted"
  BY <1>19, DatabaseRestoreStartedTwin
<1>20. CASE e.type = "DatabaseRestoreCompleted"
  BY <1>20, DatabaseRestoreCompletedTwin
<1>21. CASE e.type = "SiteStopStarted"
  BY <1>21, SiteStopStartedTwin
<1>22. CASE e.type = "SiteStopped"
  BY <1>22, SiteStoppedTwin
<1>23. CASE e.type = "SiteDatabaseChanged"
  BY <1>23, SiteDatabaseChangedTwin
<1>24. CASE e.type = "SiteStarted"
  BY <1>24, SiteStartedTwin
<1> QED
  BY <1>1, <1>2, <1>3, <1>4, <1>5, <1>6, <1>7, <1>8, <1>9, <1>10, <1>11, <1>12, <1>13, <1>14, <1>15, <1>16, <1>17, <1>18, <1>19, <1>20, <1>21, <1>22, <1>23, <1>24 DEF MeekTypes
=============================================================================
