----------------------------- MODULE RunSummary -----------------------------
(***************************************************************************)
(* The run list's read model (internal/simulation/run_summary.go): a second *)
(* consumer of the committed events, which validates nothing and keeps its  *)
(* own copy of the site's availability, costs and load.  Whether the list    *)
(* shows a working site as healthy or degraded is left out.                *)
(***************************************************************************)
EXTENDS World

NewSummary ==
  [status |-> "running", now |-> 0,
   site |-> [status |-> "running", db |-> InitialDatabase, since |-> Never, down |-> 0],
   servers |-> [i \in InitialServers |-> "active"],
   dbs |-> [i \in {InitialDatabase} |-> [ready |-> TRUE, down |-> FALSE]],
   attacks |-> {}, capacity |-> <<>>,
   backendDown |-> FALSE, firewallDown |-> FALSE,
   serverCost |-> 0, backupCost |-> 0, backupRate |-> 0]

SummaryUp(p) ==
  /\ ~p.backendDown /\ ~p.firewallDown
  /\ p.site.db \in DOMAIN p.dbs
  /\ p.dbs[p.site.db].ready /\ ~p.dbs[p.site.db].down

\* Mutant: whatever comes back closes the outage.
NotedAny(p, up, at) ==
  IF ~up /\ p.site.since = Never THEN [p EXCEPT !.site.since = at]
  ELSE IF up /\ p.site.since # Never
  THEN [p EXCEPT !.site.down = @ + (at - p.site.since), !.site.since = Never]
  ELSE p

\* availabilityChanged
Noted(p, up, at) ==
  IF ~up /\ p.site.since = Never THEN [p EXCEPT !.site.since = at]
  ELSE IF up /\ SummaryUp(p) /\ p.site.since # Never
  THEN [p EXCEPT !.site.down = @ + (at - p.site.since), !.site.since = Never]
  ELSE p
\* Mutant: a fact about a stopped site closes its outage.
NotedAlways(p, up, at) == Noted(p, up, at)

NotedIfRunning(p, up, at) == IF p.site.status = "running" THEN Noted(p, up, at) ELSE p

\* pruneCapacity
SummaryPrune(p, at) ==
  [p EXCEPT !.capacity = Drop(@, {r \in DOMAIN @ : @[r].until <= at})]

\* RunSummaryProjection.Apply
Summarise(p, e) ==
  CASE e.type = "TimeAdvanced" -> [SummaryPrune(p, e.from) EXCEPT !.now = e.to]
    [] e.type = "RunEnded" -> [p EXCEPT !.status = "completed"]
    [] e.type = "InfrastructureCostAccrued" -> [p EXCEPT !.serverCost = @ + e.amount]
    [] e.type = "BackupStorageCostAccrued" -> [p EXCEPT !.backupCost = @ + e.amount]
    [] e.type = "DatabaseBackupCompleted" -> [p EXCEPT !.backupRate = @ + e.rate]
    [] e.type = "ServerProvisioningStarted" ->
         [p EXCEPT !.servers = Put(@, e.server, "provisioning")]
    [] e.type = "ServerActivated" -> [p EXCEPT !.servers[e.server] = "active"]
    [] e.type = "ServerDrainingStarted" -> [p EXCEPT !.servers[e.server] = "draining"]
    [] e.type = "ServerRemoved" ->
         [p EXCEPT !.servers = Drop(@, {e.server}), !.dbs = Drop(@, {e.server})]
    [] e.type = "DatabaseCreated" ->
         [p EXCEPT !.dbs = Put(@, e.db, [ready |-> TRUE, down |-> FALSE])]
    [] e.type = "DatabaseDeleted" -> [p EXCEPT !.dbs = Drop(@, {e.db})]
    [] e.type = "DatabaseRestoreStarted" -> [p EXCEPT !.dbs[e.db].ready = FALSE]
    [] e.type \in {"DatabaseRestoreCompleted", "DatabaseStorageIncreased"} ->
         [p EXCEPT !.dbs[e.db].ready = TRUE]
    [] e.type = "DatabaseAvailabilityChanged" ->
         LET q == [p EXCEPT !.dbs[e.db].down = ~e.up] IN
         IF p.site.db = e.db THEN NotedIfRunning(q, e.up, e.at) ELSE q
    [] e.type = "BackendAvailabilityChanged" ->
         NotedIfRunning([p EXCEPT !.backendDown = ~e.up], e.up, e.at)
    [] e.type = "FirewallAvailabilityChanged" ->
         NotedIfRunning([p EXCEPT !.firewallDown = ~e.up], e.up, e.at)
    [] e.type = "SiteStopStarted" ->
         Noted([p EXCEPT !.site.status = "stopping"], FALSE, e.at)
    [] e.type = "SiteStopped" -> [p EXCEPT !.site.status = "stopped"]
    [] e.type = "SiteDatabaseChanged" -> [p EXCEPT !.site.db = e.db]
    [] e.type = "SiteStarted" -> Noted([p EXCEPT !.site.status = "running"], TRUE, e.at)
    [] e.type = "TrafficAttackStarted" -> [p EXCEPT !.attacks = @ \cup {e.attack}]
    [] e.type = "TrafficAttackEnded" -> [p EXCEPT !.attacks = @ \ {e.attack}]
    [] e.type = "PageRequestStarted" -> SummaryPrune(p, e.at)
    [] e.type = "PageRequestAccepted" ->
         [p EXCEPT !.capacity = Put(@, e.request, [load |-> Load[e.page], until |-> e.until])]
    [] OTHER -> p

\* RunSummaryProjection.View: the load the list shows, and the site's status.
SummaryUsed(p) ==
  SumOver({r \in DOMAIN p.capacity : p.capacity[r].until > p.now},
          LAMBDA r : p.capacity[r].load)
SummaryUnavailable(p) ==
  p.status = "completed" \/ p.site.status # "running" \/ ~SummaryUp(p)
=============================================================================
