------------------------------- MODULE World -------------------------------
(***************************************************************************)
(* The state of one simulated run and what every event of its journal does *)
(* to it: internal/simulation/state.go, database_state.go,                  *)
(* firewall_state.go and backend_availability.go.                           *)
(*                                                                          *)
(* A state is one record, as in the code.  Apply(s, e) is State.Apply: it   *)
(* validates e against s and returns the next state, or s with "refused"    *)
(* set where the code returns an error.                                     *)
(*                                                                          *)
(* A database lives and dies with its server, and a server hosts at most    *)
(* one over its life, so a database is named by its server.  Finished       *)
(* operations are never read again, so ops holds the running ones.          *)
(***************************************************************************)
EXTENDS Integers, Sequences, SequencesExt

CONSTANTS
  Servers,          \* every server id a run can ever use, positive integers
  Catalog,          \* server -> [role, capacity, disk, limit, hourly, monthly]
  Load,             \* page -> capacity units one request takes
  Hold,             \* page -> how long a request holds them
  ConnectionHold,   \* how long a request holds its database connection
  ControlProfiles,  \* the legitimate profiles uptime is measured with
  Month,            \* length of a billing month
  Hour,             \* length of a billing hour
  BackupPrice,      \* hourly price of a stored unit of backup
  InitialServers,   \* the servers the generated world starts with
  InitialDatabase,  \* the one of them that hosts the site's database
  InitialData,      \* ... and the data and
  InitialLogs,      \* the logs that database starts with
  Schedule,         \* the generated world: a sequence of [at, type, ...]
  EndsAt            \* the end of the run

\* What is not set: Go's zero time.Time and its empty server, database and
\* operation ids.  An operation is named by what it does and to which server.
Never == -1
None == 0
NoOperation == <<"none", None>>

Pages == {"product_list", "product_page"}

\* Server ids are numbered; what a type of server has is what ServerTypeDefined
\* accepts (database_state.go).
ASSUME ServersAssumption ==
  /\ IsFiniteSet(Servers) /\ Servers \subseteq Nat \ {None}
  /\ Catalog \in [Servers -> [role : {"backend", "database"}, capacity : Nat, disk : Nat,
                              limit : Nat, hourly : Nat, monthly : Nat]]
  /\ \A i \in Servers : Catalog[i].role = "database" => Catalog[i].disk > 0 /\ Catalog[i].limit > 0

\* Every page takes something for some time, as every price and period is
\* (generator/config.go, validPositiveRange).
ASSUME PagesAssumption ==
  /\ Load \in [Pages -> Nat \ {0}] /\ Hold \in [Pages -> Nat \ {0}]
  /\ ConnectionHold \in Nat \ {0}
  /\ Month \in Nat \ {0} /\ Hour \in Nat \ {0} /\ BackupPrice \in Nat

\* The generated world: the first servers, one of them a backend that either
\* page fits on (generator/config.go), and their database.
ASSUME InitialAssumption ==
  /\ InitialServers \subseteq Servers /\ InitialDatabase \in InitialServers
  /\ Catalog[InitialDatabase].role = "database"
  /\ InitialData \in Nat /\ InitialLogs \in Nat
  /\ InitialData + InitialLogs <= Catalog[InitialDatabase].disk
  /\ \E i \in InitialServers : /\ Catalog[i].role = "backend"
                               /\ \A p \in Pages : Load[p] <= Catalog[i].capacity

\* A run ends after it starts.  Its schedule is sorted by time, and its visitors
\* are all different (generator/generator.go).  No item is due at the very start:
\* pendingScheduledEvents looks for what comes after the clock, so one that were
\* would never happen.  The generator draws moments in an interval that begins
\* there; State.Apply does not exclude it.
ASSUME ScheduleAssumption ==
  /\ EndsAt \in Nat \ {0}
  /\ Schedule \in Seq({Schedule[k] : k \in DOMAIN Schedule})
  /\ \A k \in DOMAIN Schedule :
       /\ {"seq", "at", "type"} \subseteq DOMAIN Schedule[k]
       /\ Schedule[k].seq = k /\ Schedule[k].at \in Nat \ {0}
       /\ Schedule[k].type \in {"VisitorArrived", "TrafficAttackStarted", "TrafficAttackEnded",
                                "DatabaseGrowthRequested", "DiskLogsGrowthRequested"}
  /\ \A j, k \in DOMAIN Schedule : j < k => Schedule[j].at <= Schedule[k].at
  /\ \A k \in DOMAIN Schedule : Schedule[k].type = "VisitorArrived" =>
       /\ Schedule[k].visitor \in Nat
       /\ \A j \in 1 .. (k - 1) : Schedule[j].type = "VisitorArrived" =>
            Schedule[j].visitor # Schedule[k].visitor
  /\ \A k \in DOMAIN Schedule : Schedule[k].type = "TrafficAttackStarted" =>
       Schedule[k].load \in Nat /\ Schedule[k].until \in Nat
  /\ \A k \in DOMAIN Schedule : Schedule[k].type = "DatabaseGrowthRequested" =>
       Schedule[k].growth = k /\ Schedule[k].data \in Nat /\ Schedule[k].logs \in Nat
  /\ \A k \in DOMAIN Schedule : Schedule[k].type = "DiskLogsGrowthRequested" =>
       Schedule[k].server \in Servers /\ Schedule[k].bytes \in Nat

Least(x, y) == IF x < y THEN x ELSE y
Most(x, y) == IF x > y THEN x ELSE y
CeilDiv(x, y) == (x + y - 1) \div y
SumOver(S, f(_)) == FoldSet(LAMBDA x, acc : acc + f(x), 0, S)
LoadOf(table, S) == SumOver(S, LAMBDA x : table[x].load)
Put(f, k, v) == [x \in DOMAIN f \cup {k} |-> IF x = k THEN v ELSE f[x]]
Drop(f, K) == [x \in DOMAIN f \ K |-> f[x]]

----------------------------------------------------------------------------
(* Readings of a state                                                      *)

Backend(i) == Catalog[i].role = "backend"
WithStatus(s, status) == {i \in DOMAIN s.servers : s.servers[i].status = status}
ActiveBackends(s) == {i \in WithStatus(s, "active") : Backend(i)}

\* DatabaseState.Available
Available(d) == d.ready /\ d.reasons = {}
Used(d) == d.data + d.logs

\* backupStorageHourlyCost
BackupRate(data) == data * BackupPrice

\* diskUsage: what is left on a server's disk, never negative.
FreeDisk(s, i) ==
  Most(0, Catalog[i].disk - s.servers[i].logs
          - (IF i \in DOMAIN s.dbs THEN Used(s.dbs[i]) ELSE 0))
DiskFull(s, i) == Catalog[i].disk > 0 /\ FreeDisk(s, i) = 0

\* evaluateFirewall: the live rule of least (priority, id) that matches decides.
Matching(s, profile, at) ==
  {k \in DOMAIN s.rules : /\ profile \in s.rules[k].match
                          /\ s.rules[k].until = Never \/ at < s.rules[k].until}
Deciding(s, profile, at) ==
  LET live == Matching(s, profile, at)
      Before(j, k) == \/ s.rules[j].priority < s.rules[k].priority
                      \/ s.rules[j].priority = s.rules[k].priority /\ j <= k
  IN  {k \in live : \A j \in live : Before(k, j)}
Denied(s, profile, at) ==
  \E k \in Deciding(s, profile, at) : s.rules[k].action = "deny"

\* firewallBlockingRuleIDs: the rules that deny a control profile.
Blocking(s, at) ==
  {k \in UNION {Deciding(s, p, at) : p \in ControlProfiles} :
     s.rules[k].action = "deny"}

\* ddosLoadPerActiveServer
AttackLoad(s, page, at) ==
  LET sharing == {i \in ActiveBackends(s) : ~DiskFull(s, i)}
      total == LoadOf(s.attacks, {a \in DOMAIN s.attacks :
                                    /\ s.attacks[a].page = page
                                    /\ ~Denied(s, s.attacks[a].profile, at)})
  IN  IF sharing = {} THEN 0 ELSE CeilDiv(total, Cardinality(sharing))

\* What the live allocations take on server i: the index when it is current.
UsedCapacity(s, i, at) ==
  IF s.indexed = at THEN s.used[i]
  ELSE LoadOf(s.capacity, {r \in DOMAIN s.capacity : /\ s.capacity[r].server = i
                                                     /\ s.capacity[r].until > at})
HasLoad(s, i, at) == UsedCapacity(s, i, at) > 0

\* serverAvailableCapacity
FreeCapacity(s, i, page, at) ==
  IF i \notin ActiveBackends(s) \/ DiskFull(s, i) THEN 0
  ELSE Catalog[i].capacity - UsedCapacity(s, i, at) - AttackLoad(s, page, at)

\* backendUnavailablePages
StarvedPages(s, at) ==
  {p \in Pages : \A i \in ActiveBackends(s) : FreeCapacity(s, i, p, at) < Load[p]}

\* siteDependenciesAvailable
DependenciesUp(s) ==
  /\ ~s.firewallDown /\ ~s.backendDown
  /\ \/ s.site.db = None
     \/ s.site.db \in DOMAIN s.dbs /\ Available(s.dbs[s.site.db])

----------------------------------------------------------------------------
(* Pieces of Apply                                                          *)

Refuse(s) == [s EXCEPT !.refused = TRUE]
Running(s) == s.status = "running"
Fact(s, at) == 0 <= at /\ at <= s.now

\* The site's outage opens at the first fact that makes it unavailable ...
OpenOutage(s, at) ==
  IF s.site.since = Never THEN [s EXCEPT !.site.since = at] ELSE s

\* Mutant: whatever comes back closes the outage.
CloseOutageAlways(s, at) ==
  IF s.site.since # Never
  THEN [s EXCEPT !.site.down = @ + (at - s.site.since), !.site.since = Never]
  ELSE s

\* ... and closes at the fact that leaves nothing in its way.
CloseOutage(s, at) ==
  IF DependenciesUp(s) /\ s.site.since # Never
  THEN [s EXCEPT !.site.down = @ + (at - s.site.since), !.site.since = Never]
  ELSE s

AvailabilityFact(s, up, at) ==
  IF s.site.status # "running" THEN s
  ELSE IF up THEN CloseOutage(s, at) ELSE OpenOutage(s, at)

\* Mutants: the expired allocations stay listed; they stay in the index.
PruneIndex(s, at) ==
  IF at < s.indexed THEN s
  ELSE [s EXCEPT
         !.used = [i \in Servers |->
                     @[i] - LoadOf(s.capacity,
                                   {r \in DOMAIN s.capacity : /\ s.capacity[r].until <= at
                                                              /\ s.capacity[r].server = i})],
         !.indexed = at]
PruneListed(s, at) ==
  IF at < s.indexed THEN s
  ELSE [s EXCEPT
         !.capacity = Drop(@, {r \in DOMAIN @ : @[r].until <= at}),
         !.indexed = at]

\* pruneExpiredCapacity (the completed requests pruneDerivedState also drops
\* are read by no decision)
Prune(s, at) ==
  LET gone == {r \in DOMAIN s.capacity : s.capacity[r].until <= at} IN
  IF at < s.indexed THEN s
  ELSE [s EXCEPT
         !.capacity = Drop(@, gone),
         !.used = [i \in Servers |->
                     @[i] - LoadOf(s.capacity, {r \in gone : s.capacity[r].server = i})],
         !.indexed = at]

\* markScheduled: the cursor passes an item when the item itself is applied.
MarkScheduled(s, e) ==
  IF s.cursor < Len(Schedule) /\ e.seq = s.cursor + 1
  THEN [s EXCEPT !.cursor = @ + 1] ELSE s

----------------------------------------------------------------------------
(* State.Apply, grouped as its files are.  Each group returns the set of    *)
(* next states: empty where the event is refused.                           *)

ApplyTime(s, e) ==
  CASE e.type = "TimeAdvanced" ->
         IF Running(s) /\ e.from = s.now /\ e.from <= e.to /\ e.to <= EndsAt
         THEN {[Prune(s, e.from) EXCEPT !.now = e.to]} ELSE {}
    [] e.type = "RunEnded" ->
         IF Running(s) /\ e.at = s.now THEN {[s EXCEPT !.status = "completed"]} ELSE {}
    [] OTHER -> {}

ApplyCosts(s, e) ==
  CASE e.type = "InfrastructureCostAccrued" ->
         IF /\ e.server \in DOMAIN s.servers /\ e.to = s.now
            /\ IF Catalog[e.server].monthly > 0
               THEN /\ e.total > s.servers[e.server].accrued
                    /\ e.amount = e.total - s.servers[e.server].accrued
               ELSE e.total > s.servers[e.server].billed
         THEN {[s EXCEPT !.serverCost = @ + e.amount,
                         !.servers[e.server] =
                           IF Catalog[e.server].monthly > 0
                           THEN [@ EXCEPT !.accrued = e.total]
                           ELSE [@ EXCEPT !.billed = e.total]]}
         ELSE {}
    [] e.type = "BackupStorageCostAccrued" ->
         IF /\ e.backup \in DOMAIN s.backups /\ e.to = s.now
            /\ s.backups[e.backup].status = "ready"
            /\ e.hours > s.backups[e.backup].billed
            /\ e.amount = (e.hours - s.backups[e.backup].billed) * s.backups[e.backup].rate
         THEN {[s EXCEPT !.backups[e.backup].billed = e.hours,
                         !.backupCost = @ + e.amount]}
         ELSE {}
    [] OTHER -> {}

ApplyOperations(s, e) ==
  CASE e.type = "OperationStarted" ->
         IF Running(s) /\ e.op \notin s.ops THEN {[s EXCEPT !.ops = @ \cup {e.op}]} ELSE {}
    [] e.type = "OperationSucceeded" ->
         IF e.op \in s.ops /\ e.at = s.now THEN {[s EXCEPT !.ops = @ \ {e.op}]} ELSE {}
    [] OTHER -> {}

ApplyServer(s, e) ==
  CASE e.type = "ServerProvisioningStarted" ->
         IF Running(s) /\ e.server \notin DOMAIN s.servers /\ e.at = s.now /\ e.at <= e.ready
         THEN {[s EXCEPT !.servers =
                  Put(@, e.server, [status |-> "provisioning", op |-> e.op,
                                    ready |-> e.ready, activated |-> Never,
                                    logs |-> 0, accrued |-> 0, billed |-> 0])]}
         ELSE {}
    [] e.type = "ServerActivated" ->
         IF /\ e.server \in WithStatus(s, "provisioning") /\ e.at = s.now
            /\ s.servers[e.server].op = e.op /\ s.servers[e.server].ready <= e.at
         THEN {[s EXCEPT !.servers[e.server].status = "active",
                         !.servers[e.server].activated = e.at]}
         ELSE {}
    [] e.type = "ServerDrainingStarted" ->
         IF Running(s) /\ e.server \in WithStatus(s, "active") /\ e.op \in s.ops /\ e.at = s.now
         THEN {[s EXCEPT !.servers[e.server].status = "draining",
                         !.servers[e.server].op = e.op]}
         ELSE {}
    [] e.type = "ServerRemoved" ->
         IF /\ e.server \in WithStatus(s, "draining") /\ e.at = s.now
            /\ s.servers[e.server].op = e.op /\ ~HasLoad(s, e.server, e.at)
         THEN {[s EXCEPT !.servers = Drop(@, {e.server}),
                         !.dbs = Drop(@, {e.server}),
                         !.growth = Drop(@, {g \in DOMAIN @ :
                                      e.server \in DOMAIN s.dbs /\ @[g].db = e.server})]}
         ELSE {}
    [] e.type = "BackendAvailabilityChanged" ->
         IF /\ Fact(s, e.at) /\ e.pages = StarvedPages(s, e.at)
            /\ e.up = (e.pages = {}) /\ e.up = s.backendDown
         THEN {AvailabilityFact([s EXCEPT !.backendDown = ~e.up], e.up, e.at)}
         ELSE {}
    [] OTHER -> {}

ApplyPages(s, e) ==
  CASE e.type = "PageRequestStarted" ->
         IF Running(s) /\ Fact(s, e.at) THEN {Prune(s, e.at)} ELSE {}
    [] e.type = "PageRequestAccepted" ->
         IF /\ Running(s) /\ Fact(s, e.at)
            /\ e.server \in WithStatus(s, "active")
            /\ e.until = e.at + Hold[e.page]
            /\ FreeCapacity(s, e.server, e.page, e.at) >= Load[e.page]
         THEN {[s EXCEPT !.capacity = Put(@, e.request,
                             [server |-> e.server, load |-> Load[e.page], until |-> e.until]),
                         !.used[e.server] = @ + Load[e.page]]}
         ELSE {}
    [] e.type \in {"PageRequestCompleted", "PageRequestRejected"} ->
         IF Running(s) /\ Fact(s, e.at) THEN {s} ELSE {}
    [] OTHER -> {}

ApplyTraffic(s, e) ==
  CASE e.type = "VisitorArrived" ->
         IF Fact(s, e.at) THEN {MarkScheduled(Prune(s, e.at), e)} ELSE {}
    [] e.type = "TrafficAttackStarted" ->
         IF Fact(s, e.at) /\ e.attack \notin DOMAIN s.attacks
         THEN {MarkScheduled([s EXCEPT !.attacks = Put(@, e.attack,
                 [page |-> e.page, load |-> e.load, profile |-> e.profile,
                  until |-> e.until])], e)}
         ELSE {}
    [] e.type = "TrafficAttackEnded" ->
         IF e.attack \in DOMAIN s.attacks /\ Fact(s, e.at) /\ s.attacks[e.attack].until <= e.at
         THEN {MarkScheduled([s EXCEPT !.attacks = Drop(@, {e.attack})], e)}
         ELSE {}
    [] OTHER -> {}

ApplyFirewall(s, e) ==
  CASE e.type = "FirewallRuleUpserted" ->
         IF Running(s) /\ e.at = s.now /\ (e.body.until = Never \/ e.at < e.body.until)
         THEN {[s EXCEPT !.rules = Put(@, e.rule, e.body)]} ELSE {}
    [] e.type = "FirewallRuleDeleted" ->
         IF Running(s) /\ e.at = s.now /\ e.rule \in DOMAIN s.rules
         THEN {[s EXCEPT !.rules = Drop(@, {e.rule})]} ELSE {}
    [] e.type = "FirewallAvailabilityChanged" ->
         IF /\ Fact(s, e.at) /\ e.blocking = Blocking(s, e.at)
            /\ e.up = (e.blocking = {}) /\ e.up = s.firewallDown
         THEN {AvailabilityFact([s EXCEPT !.firewallDown = ~e.up], e.up, e.at)}
         ELSE {}
    [] OTHER -> {}

ApplyDatabase(s, e) ==
  CASE e.type = "DatabaseCreated" ->
         IF /\ Running(s) /\ e.at = s.now /\ e.db \notin DOMAIN s.dbs
            /\ e.db \in WithStatus(s, "active") /\ ~Backend(e.db)
         THEN {[s EXCEPT !.dbs = Put(@, e.db,
                  [data |-> 0, logs |-> 0, version |-> 0, ready |-> TRUE,
                   reasons |-> {}, from |-> None])]}
         ELSE {}
    [] e.type = "DatabaseDeleted" ->
         IF e.db \in DOMAIN s.dbs /\ s.site.db # e.db /\ Fact(s, e.at)
         THEN {[s EXCEPT !.dbs = Drop(@, {e.db}),
                         !.growth = Drop(@, {g \in DOMAIN @ : @[g].db = e.db})]}
         ELSE {}
    [] e.type = "DatabaseConnectionOpened" ->
         IF /\ e.db \in DOMAIN s.dbs /\ Available(s.dbs[e.db])
            /\ Fact(s, e.at) /\ e.until = e.at + ConnectionHold
            /\ s.counts[e.db] < Catalog[e.db].limit
            /\ e.request \notin DOMAIN s.conns
         THEN {[s EXCEPT !.conns = Put(@, e.request, [db |-> e.db, until |-> e.until]),
                         !.counts[e.db] = @ + 1]}
         ELSE {}
    [] e.type = "DatabaseConnectionReleased" ->
         IF /\ e.request \in DOMAIN s.conns /\ s.conns[e.request].db = e.db
            /\ s.conns[e.request].until <= e.at /\ Fact(s, e.at)
         THEN {[s EXCEPT !.conns = Drop(@, {e.request}), !.counts[e.db] = @ - 1]}
         ELSE {}
    [] e.type = "DatabaseConnectionRejected" ->
         IF /\ e.db \in DOMAIN s.dbs /\ Fact(s, e.at)
            /\ e.active = s.counts[e.db] /\ e.active >= Catalog[e.db].limit
         THEN {s} ELSE {}
    [] e.type = "DatabaseAvailabilityChanged" ->
         IF e.db \in DOMAIN s.dbs /\ Fact(s, e.at) /\ e.up = (e.reasons = {})
         THEN {LET t == [s EXCEPT !.dbs[e.db].reasons = e.reasons] IN
               IF s.site.db = e.db THEN AvailabilityFact(t, e.up, e.at) ELSE t}
         ELSE {}
    [] OTHER -> {}

ApplyStorage(s, e) ==
  CASE e.type = "DatabaseGrowthRequested" ->
         IF e.growth \notin DOMAIN s.growth /\ Fact(s, e.at)
         THEN {MarkScheduled([s EXCEPT !.growth = Put(@, e.growth,
                 [data |-> e.data, logs |-> e.logs, db |-> None, blocked |-> FALSE])], e)}
         ELSE {}
    [] e.type = "DatabaseStorageIncreased" ->
         IF /\ e.growth \in DOMAIN s.growth /\ e.db \in DOMAIN s.dbs /\ Fact(s, e.at)
            /\ s.growth[e.growth].data = e.data /\ s.growth[e.growth].logs = e.logs
            /\ e.version = s.dbs[e.db].version + (IF e.data > 0 THEN 1 ELSE 0)
            /\ Used(s.dbs[e.db]) + e.data + e.logs <= Catalog[e.db].disk
         THEN {[s EXCEPT !.dbs[e.db] = [@ EXCEPT !.data = @ + e.data, !.logs = @ + e.logs,
                                                 !.version = e.version, !.ready = TRUE],
                         !.growth = Drop(@, {e.growth})]}
         ELSE {}
    [] e.type = "DatabaseGrowthBlocked" ->
         IF /\ e.growth \in DOMAIN s.growth /\ e.db \in DOMAIN s.dbs /\ Fact(s, e.at)
            /\ Used(s.dbs[e.db]) + s.growth[e.growth].data + s.growth[e.growth].logs
                 > Catalog[e.db].disk
         THEN {[s EXCEPT !.growth[e.growth].db = e.db, !.growth[e.growth].blocked = TRUE]}
         ELSE {}
    [] e.type = "DiskLogsCleaned" ->
         LET hosted == e.server \in DOMAIN s.dbs
             own == Least(e.freed, s.servers[e.server].logs)
             total == s.servers[e.server].logs + (IF hosted THEN s.dbs[e.server].logs ELSE 0)
             t == [s EXCEPT !.servers[e.server].logs = @ - own] IN
         IF e.server \in DOMAIN s.servers /\ Fact(s, e.at) /\ e.freed <= total
         THEN {IF hosted THEN [t EXCEPT !.dbs[e.server].logs = @ - (e.freed - own)] ELSE t}
         ELSE {}
    [] e.type = "DiskLogsGrowthRequested" ->
         IF e.server \in DOMAIN s.servers /\ Fact(s, e.at) THEN {MarkScheduled(s, e)} ELSE {}
    [] e.type = "DiskLogsIncreased" ->
         IF e.server \in DOMAIN s.servers /\ Fact(s, e.at) /\ e.bytes <= FreeDisk(s, e.server)
         THEN {[s EXCEPT !.servers[e.server].logs = @ + e.bytes]} ELSE {}
    [] e.type = "DiskLogsGrowthBlocked" ->
         IF e.server \in DOMAIN s.servers /\ Fact(s, e.at) /\ e.bytes > FreeDisk(s, e.server)
         THEN {s} ELSE {}
    [] OTHER -> {}

ApplyMigration(s, e) ==
  CASE e.type = "DatabaseBackupStarted" ->
         IF e.db \in DOMAIN s.dbs /\ e.backup \notin DOMAIN s.backups /\ Fact(s, e.at)
         THEN {[s EXCEPT !.backups = Put(@, e.backup,
                  [status |-> "creating", db |-> e.db, data |-> 0, version |-> 0,
                   rate |-> 0, completed |-> Never, billed |-> 0])]}
         ELSE {}
    [] e.type = "DatabaseBackupCompleted" ->
         IF /\ e.backup \in DOMAIN s.backups /\ e.db \in DOMAIN s.dbs /\ Fact(s, e.at)
            /\ s.backups[e.backup].status = "creating" /\ s.backups[e.backup].db = e.db
            /\ e.data = s.dbs[e.db].data /\ e.version = s.dbs[e.db].version
            /\ e.rate = BackupRate(e.data)
         THEN {[s EXCEPT !.backups[e.backup] =
                  [@ EXCEPT !.status = "ready", !.data = e.data, !.version = e.version,
                            !.rate = e.rate, !.completed = e.at]]}
         ELSE {}
    [] e.type = "DatabaseRestoreStarted" ->
         IF /\ e.db \in DOMAIN s.dbs /\ e.backup \in DOMAIN s.backups /\ Fact(s, e.at)
            /\ s.backups[e.backup].status = "ready" /\ Used(s.dbs[e.db]) = 0
         THEN {[s EXCEPT !.dbs[e.db].ready = FALSE]} ELSE {}
    [] e.type = "DatabaseRestoreCompleted" ->
         IF /\ e.db \in DOMAIN s.dbs /\ e.backup \in DOMAIN s.backups /\ Fact(s, e.at)
            /\ s.backups[e.backup].status = "ready"
            /\ e.data = s.backups[e.backup].data /\ e.version = s.backups[e.backup].version
         THEN {[s EXCEPT !.dbs[e.db] =
                  [@ EXCEPT !.data = e.data, !.version = e.version, !.ready = TRUE,
                            !.from = s.backups[e.backup].db]]}
         ELSE {}
    [] e.type = "SiteStopStarted" ->
         IF s.site.status = "running" /\ e.at = s.now
         THEN {OpenOutage([s EXCEPT !.site.status = "stopping", !.site.op = e.op], e.at)}
         ELSE {}
    [] e.type = "SiteStopped" ->
         IF s.site.status = "stopping" /\ s.site.op = e.op /\ DOMAIN s.conns = {} /\ Fact(s, e.at)
         THEN {[s EXCEPT !.site.status = "stopped"]} ELSE {}
    [] e.type = "SiteDatabaseChanged" ->
         IF /\ s.site.status = "stopped" /\ e.db \in DOMAIN s.dbs /\ Fact(s, e.at)
            /\ s.dbs[e.db].ready /\ s.site.db = e.previous
         THEN {[s EXCEPT !.site.db = e.db]} ELSE {}
    [] e.type = "SiteStarted" ->
         IF /\ s.site.status = "stopped" /\ s.site.db = e.db /\ e.at = s.now
            /\ e.db \in DOMAIN s.dbs /\ Available(s.dbs[e.db])
         THEN {CloseOutage([s EXCEPT !.site.status = "running", !.site.op = NoOperation], e.at)}
         ELSE {}
    [] OTHER -> {}

\* State.Apply: one of the groups handles the event, or it is refused.
Outcome(s, next) == IF s.refused \/ next = {} THEN Refuse(s) ELSE CHOOSE t \in next : TRUE
Apply(s, e) ==
  Outcome(s, UNION {ApplyTime(s, e), ApplyCosts(s, e), ApplyOperations(s, e),
                    ApplyServer(s, e), ApplyPages(s, e), ApplyTraffic(s, e),
                    ApplyFirewall(s, e), ApplyDatabase(s, e), ApplyStorage(s, e),
                    ApplyMigration(s, e)})

ApplyAll(s, es) == FoldLeft(Apply, s, es)

----------------------------------------------------------------------------
\* The state the bootstrap events leave: the initial servers active, the
\* initial database on its server, the site running on it.
NewWorld ==
  [refused |-> FALSE, status |-> "running", now |-> 0, cursor |-> 0,
   site |-> [status |-> "running", db |-> InitialDatabase, op |-> NoOperation,
             since |-> Never, down |-> 0],
   servers |-> [i \in InitialServers |->
                  [status |-> "active", op |-> NoOperation, ready |-> 0, activated |-> 0,
                   logs |-> 0, accrued |-> 0, billed |-> 0]],
   dbs |-> [i \in {InitialDatabase} |->
              [data |-> InitialData, logs |-> InitialLogs, version |-> 1,
               ready |-> TRUE, reasons |-> {}, from |-> None]],
   growth |-> <<>>, conns |-> <<>>, counts |-> [i \in Servers |-> 0],
   capacity |-> <<>>, used |-> [i \in Servers |-> 0], indexed |-> 0,
   backups |-> <<>>, rules |-> <<>>, attacks |-> <<>>,
   firewallDown |-> FALSE, backendDown |-> FALSE, ops |-> {},
   serverCost |-> 0, backupCost |-> 0]
=============================================================================
