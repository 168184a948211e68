----------------------------- MODULE Simulation -----------------------------
(***************************************************************************)
(* One run under an agent's commands: RunSession.Execute                    *)
(* (internal/simulation/session.go) decides, appends and applies; the run   *)
(* list folds the same events.  One action per command.  Commands on a run  *)
(* are serialised (RunManager), so each is one step.                        *)
(***************************************************************************)
EXTENDS Decide

CONSTANTS
  Allowed,      \* the commands this instance issues
  MaxCommands,  \* bound: commands issued, time advances not counted
  Durations,    \* how far one advance may go
  Filters,      \* the log error filters an advance may stop on
  RuleIds,      \* firewall rule ids, integers
  RuleBodies,   \* the rules an agent may write
  Probes,       \* visitor numbers of the agent's own requests
  ProbeProfile, \* who such a request comes from
  Backups       \* backup ids, integers

ASSUME CommandsAssumption ==
  /\ MaxCommands \in Nat /\ Durations \subseteq Nat \ {0}
  /\ RuleIds \subseteq Int /\ Backups \subseteq Int /\ Probes \subseteq Nat
  /\ \A body \in RuleBodies : body.until \in Int /\ body.priority \in Int
  /\ \A k \in DOMAIN Schedule : Schedule[k].type = "VisitorArrived" =>
       Schedule[k].visitor \notin Probes

Summary == INSTANCE RunSummary

VARIABLES
  s,         \* RunSession.state
  summary,   \* the run list's projection
  issued,    \* commands issued so far
  stuck,     \* the last advance was refused
  \* History: what the properties compare the run with.
  replayed,  \* Rehydrate: every event applied in turn to a new state
  fired,     \* the scheduled items that happened, in order
  copies,    \* [db, backup, site]: the growths each copy holds, and the site took
  closed,    \* the servers that have left, and what each cost in all
  outage     \* for how long the site has been unavailable

vars == <<s, summary, issued, stuck, replayed, fired, copies, closed, outage>>

Init ==
  /\ s = NewWorld
  /\ summary = Summary!NewSummary
  /\ issued = 0 /\ stuck = FALSE
  /\ replayed = NewWorld
  /\ fired = <<>>
  /\ copies = [db |-> [i \in Servers |-> IF i = InitialDatabase THEN {0} ELSE {}],
                backup |-> [b \in Backups |-> {}], site |-> {0}]
  /\ closed = <<>> /\ outage = 0

----------------------------------------------------------------------------
(* History                                                                  *)

Occurs(items, e) == IF "seq" \in DOMAIN e THEN Append(items, e.seq) ELSE items

TrackCopies(c, e) ==
  CASE e.type = "DatabaseStorageIncreased" /\ e.data > 0 ->
         [c EXCEPT !.db[e.db] = @ \cup {e.growth},
                   !.site = IF e.db = s.site.db THEN @ \cup {e.growth} ELSE @]
    [] e.type = "DatabaseBackupCompleted" -> [c EXCEPT !.backup[e.backup] = c.db[e.db]]
    [] e.type = "DatabaseRestoreCompleted" -> [c EXCEPT !.db[e.db] = c.backup[e.backup]]
    [] e.type = "DatabaseCreated" -> [c EXCEPT !.db[e.db] = {}]
    [] OTHER -> c

\* What server i costs from its activation until t.
ServerCost(i, from, t) ==
  IF t <= from THEN 0
  ELSE IF Catalog[i].monthly > 0 THEN Prorated(from, t, Catalog[i].monthly)
  ELSE CeilDiv(t - from, Hour) * Catalog[i].hourly

Leavers(es) == {k \in DOMAIN es : es[k].type = "ServerRemoved"}
Leaving(es) ==
  [i \in {es[k].server : k \in Leavers(es)} |->
     LET k == CHOOSE j \in Leavers(es) : es[j].server = i
     IN  ServerCost(i, s.servers[i].activated, es[k].at)]

\* Whether the site was available at time t of an advance from s: each part as
\* the last fact about it up to t left it.
LastSaid(es, Says(_), t, before) ==
  LET said == {k \in DOMAIN es : Says(es[k]) /\ es[k].at <= t}
      last == CHOOSE k \in said : \A j \in said :
                es[j].at < es[k].at \/ (es[j].at = es[k].at /\ j <= k)
  IN  IF said = {} THEN before ELSE es[last].up

AvailableAt(es, t) ==
  /\ s.site.status = "running"
  /\ LastSaid(es, LAMBDA e : e.type = "FirewallAvailabilityChanged", t, ~s.firewallDown)
  /\ LastSaid(es, LAMBDA e : e.type = "BackendAvailabilityChanged", t, ~s.backendDown)
  /\ LastSaid(es, LAMBDA e : e.type = "DatabaseAvailabilityChanged" /\ e.db = s.site.db,
              t, Available(s.dbs[s.site.db]))

----------------------------------------------------------------------------
(* RunSession.Execute                                                       *)

\* Mutant: an allocation is dropped one unit of time early.
TrimEarly(t) == Prune(t, t.now + 1)

\* pruneDerivedState, after the events of a command have been applied
Trim(t) == Prune(t, t.now)

Commit(es) ==
  /\ \E t \in {ApplyAll(s, es)} :
       /\ s' = Trim(t)
       /\ outage' = outage + Cardinality({u \in s.now .. (t.now - 1) : ~AvailableAt(es, u)})
  /\ summary' = FoldLeft(Summary!Summarise, summary, es)
  /\ replayed' = ApplyAll(replayed, es)
  /\ fired' = FoldLeft(Occurs, fired, es)
  /\ copies' = FoldLeft(TrackCopies, copies, es)
  /\ closed' = closed @@ Leaving(es)

Command(kind, decision) ==
  /\ kind \in Allowed /\ issued < MaxCommands /\ Running(s)
  /\ \E d \in {decision} : d.ok /\ Commit(d.events)
  /\ issued' = issued + 1
  /\ UNCHANGED stuck

Advance ==
  /\ Running(s)
  /\ \E duration \in Durations, stop \in BOOLEAN, filter \in Filters :
       /\ ~stop => filter = {}
       /\ \E d \in {DecideAdvance(s, duration, stop, filter)} :
            IF d.ok THEN Commit(d.events) /\ stuck' = FALSE
            ELSE /\ stuck' = TRUE
                 /\ UNCHANGED <<s, summary, replayed, fired, copies, closed, outage>>
  /\ UNCHANGED issued

Probe ==
  \E page \in Pages, v \in Probes :
    /\ <<v, page>> \notin DOMAIN s.conns \cup DOMAIN s.capacity
    /\ Command("probe", DecideProbe(s, <<v, page>>, page, ProbeProfile))

\* The program names every server it creates afresh.
AddServer ==
  \E i \in Servers \ DOMAIN closed : Command("server.create", DecideAddServer(s, i))
RemoveServer == \E i \in Servers : Command("server.delete", DecideRemoveServer(s, i))
UpsertRule ==
  \E k \in RuleIds, body \in RuleBodies :
    Command("firewall.rules.upsert", DecideUpsertRule(s, k, body))
DeleteRule == \E k \in RuleIds : Command("firewall.rules.delete", DecideDeleteRule(s, k))
CreateDatabase == \E i \in Servers : Command("database.create", DecideCreateDatabase(s, i))
CleanupLogs == \E i \in Servers : Command("disk.cleanup", DecideCleanup(s, i))
Backup == \E i \in Servers, b \in Backups : Command("database.backup", DecideBackup(s, i, b))
Restore == \E i \in Servers, b \in Backups : Command("database.restore", DecideRestore(s, i, b))
StopSite == Command("site.stop", DecideStopSite(s))
StartSite == Command("site.start", DecideStartSite(s))
SetDatabase ==
  \E i, j \in Servers : Command("site.database.set", DecideSetDatabase(s, i, j))

Next ==
  \/ Advance \/ Probe \/ AddServer \/ RemoveServer \/ UpsertRule \/ DeleteRule
  \/ CreateDatabase \/ CleanupLogs \/ Backup \/ Restore \/ StopSite \/ StartSite \/ SetDatabase

Spec == Init /\ [][Next]_vars

----------------------------------------------------------------------------
(* Properties                                                               *)

DatabaseRecord ==
  [data : Nat, logs : Nat, version : Nat, ready : BOOLEAN,
   reasons : SUBSET {"disk_full", "connection_limit"}, from : Servers \cup {None}]

\* Every part of the aggregate has its type: in particular no disk, counter or
\* version ever becomes negative, however logs, data and connections come and
\* go (State.Apply).
TypeOK ==
  /\ s.status \in {"running", "completed"} /\ s.now \in 0 .. EndsAt
  /\ s.cursor \in 0 .. Len(Schedule)
  /\ s.site.status \in {"running", "stopping", "stopped"}
  /\ s.site.since \in Nat \cup {Never} /\ s.site.down \in Nat
  /\ \A i \in DOMAIN s.servers :
       /\ s.servers[i].status \in {"provisioning", "active", "draining"}
       /\ s.servers[i].logs \in 0 .. Catalog[i].disk
  /\ \A i \in DOMAIN s.dbs : s.dbs[i] \in DatabaseRecord /\ Used(s.dbs[i]) <= Catalog[i].disk
  /\ s.counts \in [Servers -> Nat] /\ s.used \in [Servers -> Nat]
  /\ issued \in 0 .. MaxCommands /\ stuck \in BOOLEAN

\* What a decision returned is appended before it is applied: an event the
\* state then refused would be durable and would make every later replay of the
\* run fail (session.go, "apply durably appended event").  None ever is.
DecidedEventsApply == ~s.refused /\ ~replayed.refused

\* A session opened again after an eviction or a restart is rebuilt from the
\* journal alone, and decides from exactly the state the live one had, though
\* the live one was pruned after every command and the replay was not
\* (Rehydrate, pruneDerivedState).
ReplayRestoresSession == Prune(replayed, replayed.now) = s

\* Every scheduled event whose time has come has happened, once and in order,
\* and no other has, whatever advances the time was cut into and wherever an
\* advance stopped at a log error (pendingScheduledEvents, markScheduled).
WorldHappensOnTime ==
  /\ fired = [k \in 1 .. Cardinality({j \in DOMAIN Schedule : Schedule[j].at <= s.now}) |-> k]
  /\ s.cursor = Len(fired)

\* Between commands the aggregate's cached verdicts are what evaluating the
\* firewall and the backends now would say, and an outage is open exactly when
\* the site is not running or something it needs is down.
AvailabilityCurrent ==
  /\ s.firewallDown = (Blocking(s, s.now) # {})
  /\ s.backendDown = (StarvedPages(s, s.now) # {})
  /\ s.site.since # Never <=> s.site.status # "running" \/ ~DependenciesUp(s)

\* A database's connection counter is the number of its open connections, never
\* passes its limit, and the database is marked full exactly at it; a stopped
\* site has none left.
ConnectionsCounted ==
  /\ \A i \in DOMAIN s.dbs :
       /\ s.counts[i] = Cardinality({r \in DOMAIN s.conns : s.conns[r].db = i})
       /\ s.counts[i] <= Catalog[i].limit
       /\ ("connection_limit" \in s.dbs[i].reasons) <=> (s.counts[i] = Catalog[i].limit)
  /\ s.site.status = "stopped" => DOMAIN s.conns = {}

\* The capacity index equals the live allocations it caches, is as of now, and
\* no backend ever carries more than its capacity (pruneExpiredCapacity).
CapacityConserved ==
  /\ s.indexed = s.now
  /\ \A r \in DOMAIN s.capacity :
       s.capacity[r].until > s.now /\ s.capacity[r].server \in DOMAIN s.servers
  /\ \A i \in Servers :
       /\ s.used[i] = LoadOf(s.capacity, {r \in DOMAIN s.capacity : s.capacity[r].server = i})
       /\ s.used[i] <= Catalog[i].capacity

\* An operation is running exactly while what it waits for is: a server that is
\* not ready yet, one that still serves, a site with open connections.  None is
\* left running with nothing to finish it, and none ends early.
OperationsSettle ==
  s.ops = {s.servers[i].op : i \in {j \in WithStatus(s, "provisioning") :
                                       s.servers[j].ready > s.now}}
          \cup {s.servers[i].op : i \in {j \in WithStatus(s, "draining") :
                                          HasLoad(s, j, s.now)}}
          \cup (IF s.site.status = "stopping" /\ DOMAIN s.conns # {} THEN {s.site.op} ELSE {})

\* The run list shows what the run's own overview shows: status, time, costs,
\* load, outage and availability, though it only folds the events and checks
\* none (RunSummaryProjection).
SummaryAgrees ==
  /\ summary.status = s.status /\ summary.now = s.now
  /\ summary.serverCost = s.serverCost /\ summary.backupCost = s.backupCost
  /\ summary.backupRate = SumOver(DOMAIN s.backups, LAMBDA b : s.backups[b].rate)
  /\ \A f \in {"status", "db", "since", "down"} : summary.site[f] = s.site[f]
  /\ summary.servers = [i \in DOMAIN s.servers |-> s.servers[i].status]
  /\ summary.attacks = DOMAIN s.attacks
  /\ Summary!SummaryUsed(summary) = SumOver(Servers, LAMBDA i : s.used[i])
  /\ Summary!SummaryUnavailable(summary) =
       (s.status = "completed" \/ s.site.status # "running" \/ ~DependenciesUp(s))

\* A migration loses nothing: the database the site is on holds every data
\* growth the site ever took, across backups, restores, switches and the
\* retries a cleanup causes (decideSetSiteDatabase, DB_BACKUP_STALE).
SwitchKeepsData == copies.site \subseteq copies.db[s.site.db]

\* The bill depends on how long each server and backup existed, not on how the
\* time was cut into advances: a server is charged to the moment it left.
BillIndependentOfSlicing ==
  /\ s.serverCost = SumOver(DOMAIN closed, LAMBDA i : closed[i])
       + SumOver({i \in DOMAIN s.servers : s.servers[i].activated # Never},
                 LAMBDA i : ServerCost(i, s.servers[i].activated, s.now))
  /\ s.backupCost = SumOver(DOMAIN s.backups, LAMBDA b :
       CeilDiv(s.now - s.backups[b].completed, Hour) * s.backups[b].rate)

\* COMMANDS.md, 137: a client may explicitly advance the time of its run, so a
\* running run never refuses to (every request advances it first).
TimeCanAlwaysPass == ~stuck

\* IDEA.md, 130: deleting the last backend is forbidden, so one that serves or
\* is about to always remains.
BackendRemains ==
  \E i \in WithStatus(s, "active") \cup WithStatus(s, "provisioning") : Backend(i)

\* IDEA.md, 209-217: downtime is the simulated time the site was not available,
\* the intervals of its state added up.
DowntimeIsOutage ==
  s.site.down + (IF s.site.since = Never THEN 0 ELSE s.now - s.site.since) = outage
=============================================================================
