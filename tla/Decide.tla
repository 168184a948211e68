------------------------------- MODULE Decide -------------------------------
(***************************************************************************)
(* What a command turns into: aggregate.go, database_aggregate.go and       *)
(* firewall_commands.go.  A decision reads a state and returns              *)
(* [ok, events]: ok is FALSE where the code returns an error.  The caller   *)
(* (Simulation) appends the events to the journal and applies them.         *)
(*                                                                          *)
(* Where the code applies events to a working clone while it decides, a     *)
(* draft [st, out] does: st is the clone and out the events so far.         *)
(***************************************************************************)
EXTENDS World

CONSTANT Provisioning   \* how long a new server takes to become ready

\* decideAddServer and State.Apply refuse a run whose servers are ready at once.
ASSUME ProvisioningAssumption == Provisioning \in Nat \ {0}

Rejected == [ok |-> FALSE, events |-> <<>>]
Guarded(guard, es) == IF guard THEN [ok |-> TRUE, events |-> es] ELSE Rejected

Draft(s) == [st |-> s, out |-> <<>>]
Emit(w, es) == [w EXCEPT !.st = ApplyAll(@, es), !.out = @ \o es]
Drafted(w) == Guarded(~w.st.refused, w.out)

\* sort.Slice: the members of S, each after those that come before it.
Sorted(S, before) ==
  [k \in 1 .. Cardinality(S) |->
     CHOOSE x \in S : Cardinality({y \in S : <<y, x>> \in before}) = k - 1]
Ascending(S) == Sorted(S, {p \in S \X S : p[1] < p[2]})

\* appendBackendAvailabilityChangeToWorking
RecordStarved(w, pages, at) ==
  IF (pages # {}) = w.st.backendDown THEN w
  ELSE Emit(w, <<[type |-> "BackendAvailabilityChanged", up |-> pages = {},
                  pages |-> pages, at |-> at]>>)
RecordBackends(w, at) == RecordStarved(w, StarvedPages(w.st, at), at)

DatabaseUp(db, reasons, at) ==
  [type |-> "DatabaseAvailabilityChanged", db |-> db, up |-> reasons = {},
   reasons |-> reasons, at |-> at]

----------------------------------------------------------------------------
(* OpenPage                                                                 *)

\* selectServer: the first backend, by id, with room for the page.
First(ids) == IF ids = {} THEN None ELSE Min(ids)
SelectServer(s, page) ==
  First({i \in ActiveBackends(s) : FreeCapacity(s, i, page, s.now) >= Load[page]})

\* allActiveBackendsDiskFull
AllDisksFull(s) ==
  ActiveBackends(s) # {} /\ \A i \in ActiveBackends(s) : DiskFull(s, i)

\* The first thing that stops the request, in the order the code looks.
Obstacle(s, page, profile) ==
  IF Denied(s, profile, s.now) THEN "FIREWALL_DENIED"
  ELSE IF s.site.status # "running" THEN "SITE_UNAVAILABLE"
  ELSE IF s.site.db \notin DOMAIN s.dbs THEN "DATABASE_UNAVAILABLE"
  ELSE IF ~s.dbs[s.site.db].ready THEN "DATABASE_UNAVAILABLE"
  ELSE IF "disk_full" \in s.dbs[s.site.db].reasons THEN "DISK_FULL"
  ELSE IF s.counts[s.site.db] >= Catalog[s.site.db].limit THEN "DB_CONNECTION_LIMIT"
  ELSE IF SelectServer(s, page) # None THEN "none"
  ELSE IF AllDisksFull(s) THEN "DISK_FULL" ELSE "SERVER_CAPACITY_EXCEEDED"

PageEvents(s, request, page, obstacle) ==
  LET at == s.now
      db == s.site.db
      fills == s.counts[db] + 1 = Catalog[db].limit
      rejection == [type |-> "PageRequestRejected", request |-> request,
                    code |-> obstacle, at |-> at]
  IN  <<[type |-> "PageRequestStarted", request |-> request, page |-> page, at |-> at]>> \o
      CASE obstacle = "none" ->
             <<[type |-> "PageRequestAccepted", request |-> request, page |-> page,
                server |-> SelectServer(s, page), at |-> at, until |-> at + Hold[page]],
               [type |-> "DatabaseConnectionOpened", request |-> request, db |-> db,
                at |-> at, until |-> at + ConnectionHold]>>
             \o (IF fills THEN <<DatabaseUp(db, s.dbs[db].reasons \cup {"connection_limit"}, at)>>
                 ELSE <<>>)
             \o <<[type |-> "PageRequestCompleted", request |-> request, at |-> at]>>
        [] obstacle = "DB_CONNECTION_LIMIT" ->
             <<[type |-> "DatabaseConnectionRejected", request |-> request, db |-> db,
                active |-> s.counts[db], at |-> at], rejection>>
        [] OTHER -> <<rejection>>
OpenPage(s, request, page, profile) ==
  PageEvents(s, request, page, Obstacle(s, page, profile))

RejectedCodes(es) == {es[i].code : i \in {j \in DOMAIN es : es[j].type = "PageRequestRejected"}}

\* ProbePage: the request an agent makes itself, with its availability fact.
DecideProbe(s, request, page, profile) ==
  Drafted(RecordBackends(Emit(Draft(s), OpenPage(s, request, page, profile)), s.now))

----------------------------------------------------------------------------
(* Servers                                                                  *)

Create(i) == <<"create", i>>
Delete(i) == <<"delete", i>>
Start(op) == [type |-> "OperationStarted", op |-> op]
Succeed(op, at) == [type |-> "OperationSucceeded", op |-> op, at |-> at]
Leave(s, i, at) ==
  (IF i \in DOMAIN s.dbs THEN <<[type |-> "DatabaseDeleted", db |-> i, at |-> at]>> ELSE <<>>)
  \o <<[type |-> "ServerRemoved", op |-> s.servers[i].op, server |-> i, at |-> at]>>

DecideAddServer(s, i) ==
  Guarded(i \notin DOMAIN s.servers,
          <<Start(Create(i)),
            [type |-> "ServerProvisioningStarted", op |-> Create(i), server |-> i,
             at |-> s.now, ready |-> s.now + Provisioning]>>)

OperationInProgress(s, db) ==
  \/ \E b \in DOMAIN s.backups : s.backups[b].db = db /\ s.backups[b].status = "creating"
  \/ db \in DOMAIN s.dbs /\ ~s.dbs[db].ready

\* A drained server that serves nothing leaves at once.
LeaveIfIdle(w, i, at) ==
  IF HasLoad(w.st, i, at) THEN w
  ELSE Emit(w, Leave(w.st, i, at) \o <<Succeed(Delete(i), at)>>)

\* RemoveServer counts every backend that has not left yet.
DecideRemoveServer(s, i) ==
  LET managed == {j \in DOMAIN s.servers : Backend(j)}
      hosts == i \in DOMAIN s.dbs
      drained == <<Start(Delete(i)),
                   [type |-> "ServerDrainingStarted", op |-> Delete(i), server |-> i,
                    at |-> s.now]>>
  IN  IF \/ i \notin WithStatus(s, "active")
         \/ hosts /\ (s.site.db = i \/ s.counts[i] > 0 \/ OperationInProgress(s, i))
         \/ Backend(i) /\ Cardinality(managed) <= 1
      THEN Rejected
      ELSE Drafted(RecordBackends(
             LeaveIfIdle(Emit(Draft(s), drained), i, s.now), s.now))

----------------------------------------------------------------------------
(* The firewall                                                             *)

\* appendFirewallAvailabilityChange, then appendBackendAvailabilityChange
RecordBlocking(w, blocking, at) ==
  IF (blocking # {}) = w.st.firewallDown THEN w
  ELSE Emit(w, <<[type |-> "FirewallAvailabilityChanged", up |-> blocking = {},
                  blocking |-> blocking, at |-> at]>>)
WithAvailability(w, at) ==
  Drafted(RecordBackends(RecordBlocking(w, Blocking(w.st, at), at), at))

\* A rule must expire after now, or never (validateAndNormalizeFirewallRule).
DecideUpsertRule(s, k, body) ==
  IF body.until # Never /\ body.until <= s.now THEN Rejected
  ELSE WithAvailability(Emit(Draft(s), <<[type |-> "FirewallRuleUpserted", rule |-> k,
                                          body |-> body, at |-> s.now]>>), s.now)

DecideDeleteRule(s, k) ==
  IF k \notin DOMAIN s.rules THEN Rejected
  ELSE WithAvailability(Emit(Draft(s), <<[type |-> "FirewallRuleDeleted", rule |-> k,
                                          at |-> s.now]>>), s.now)

----------------------------------------------------------------------------
(* Databases and the site                                                   *)

\* decidePendingGrowth: stored where it fits, else blocked and the disk full.
PendingGrowth(s, g, at) ==
  LET db == IF s.growth[g].db = None THEN s.site.db ELSE s.growth[g].db
      data == s.growth[g].data
      logs == s.growth[g].logs
      d == s.dbs[db]
  IN  IF g \notin DOMAIN s.growth THEN <<>>
      ELSE IF db \notin DOMAIN s.dbs THEN <<>>
      ELSE IF data + logs > Catalog[db].disk - Used(d)
      THEN <<[type |-> "DatabaseGrowthBlocked", growth |-> g, db |-> db, at |-> at]>>
           \o (IF "disk_full" \in d.reasons THEN <<>>
               ELSE <<DatabaseUp(db, d.reasons \cup {"disk_full"}, at)>>)
      ELSE <<[type |-> "DatabaseStorageIncreased", growth |-> g, db |-> db, data |-> data,
              logs |-> logs, at |-> at,
              version |-> IF data > 0 THEN d.version + 1 ELSE d.version]>>
           \o (IF "disk_full" \in d.reasons
               THEN <<DatabaseUp(db, d.reasons \ {"disk_full"}, at)>> ELSE <<>>)

Grow(w, gs, at) ==
  FoldLeft(LAMBDA x, g : Emit(x, PendingGrowth(x.st, g, at)), w, Ascending(gs))

\* Mutant: a server that hosts a database gets another.
DecideCreateDatabaseAgain(s, i) ==
  Guarded(i \in WithStatus(s, "active") /\ ~Backend(i) /\ FreeDisk(s, i) > 0,
          <<[type |-> "DatabaseCreated", db |-> i, at |-> s.now]>>)

DecideCreateDatabase(s, i) ==
  Guarded(/\ i \in WithStatus(s, "active") /\ ~Backend(i) /\ i \notin DOMAIN s.dbs
          /\ FreeDisk(s, i) > 0,
          <<[type |-> "DatabaseCreated", db |-> i, at |-> s.now]>>)

\* CleanupDatabaseLogs frees every log on the server, then retries its growth.
DecideCleanup(s, i) ==
  LET logs == s.servers[i].logs + (IF i \in DOMAIN s.dbs THEN s.dbs[i].logs ELSE 0)
      cleaned == Emit(Draft(s), <<[type |-> "DiskLogsCleaned", server |-> i,
                                   freed |-> logs, at |-> s.now]>>)
      waiting == {g \in DOMAIN s.growth : /\ i \in DOMAIN s.dbs /\ s.growth[g].blocked
                                          /\ s.growth[g].db = i}
  IN  IF i \notin DOMAIN s.servers THEN Rejected
      ELSE Drafted(RecordBackends(Grow(cleaned, waiting, s.now), s.now))

\* Backup and restore begin and end inside the command.
DecideBackup(s, db, b) ==
  Guarded(/\ db \in DOMAIN s.dbs /\ b \notin DOMAIN s.backups
          /\ db = s.site.db => s.site.status = "stopped",
          <<Start(<<"backup", db>>),
            [type |-> "DatabaseBackupStarted", backup |-> b, db |-> db, at |-> s.now],
            [type |-> "DatabaseBackupCompleted", backup |-> b, db |-> db, at |-> s.now,
             data |-> s.dbs[db].data, version |-> s.dbs[db].version,
             rate |-> BackupRate(s.dbs[db].data)],
            Succeed(<<"backup", db>>, s.now)>>)

DecideRestore(s, db, b) ==
  Guarded(/\ db \in DOMAIN s.dbs /\ b \in DOMAIN s.backups
          /\ s.backups[b].status = "ready"
          /\ db = s.site.db => s.site.status = "stopped"
          /\ Used(s.dbs[db]) = 0
          /\ s.backups[b].data <= Catalog[db].disk,
          <<Start(<<"restore", db>>),
            [type |-> "DatabaseRestoreStarted", backup |-> b, db |-> db, at |-> s.now],
            [type |-> "DatabaseRestoreCompleted", backup |-> b, db |-> db, at |-> s.now,
             data |-> s.backups[b].data, version |-> s.backups[b].version],
            Succeed(<<"restore", db>>, s.now)>>)

SiteStop == <<"stop", None>>
DecideStopSite(s) ==
  CASE s.site.status = "stopped" ->
         Guarded(TRUE, <<Start(SiteStop), Succeed(SiteStop, s.now)>>)
    [] s.site.status = "stopping" -> Rejected
    [] OTHER ->
         Guarded(TRUE, <<Start(SiteStop),
                         [type |-> "SiteStopStarted", op |-> SiteStop, at |-> s.now]>>
                       \o (IF DOMAIN s.conns # {} THEN <<>>
                           ELSE <<[type |-> "SiteStopped", op |-> SiteStop, at |-> s.now],
                                  Succeed(SiteStop, s.now)>>))

DecideStartSite(s) ==
  LET db == s.site.db
      started == Emit(Draft(s), <<[type |-> "SiteStarted", db |-> db, at |-> s.now]>>)
      waiting == {g \in DOMAIN s.growth : ~s.growth[g].blocked}
  IN  IF s.site.status = "running" THEN Guarded(TRUE, <<>>)
      ELSE IF /\ s.site.status = "stopped"
              /\ db \in DOMAIN s.dbs /\ db \in WithStatus(s, "active")
              /\ Available(s.dbs[db])
              /\ ActiveBackends(s) # {} /\ StarvedPages(s, s.now) = {}
              /\ ~OperationInProgress(s, db)
      THEN Drafted(Grow(started, waiting, s.now))
      ELSE Rejected

\* Mutant: how old the restored copy is does not matter.
DecideSetDatabaseStale(s, expected, db) ==
  Guarded(/\ s.site.status = "stopped" /\ s.site.db = expected
          /\ db \in DOMAIN s.dbs /\ s.dbs[db].ready
          /\ s.dbs[db].from = s.site.db,
          <<[type |-> "SiteDatabaseChanged", previous |-> s.site.db, db |-> db,
             at |-> s.now]>>)

\* SetSiteDatabase: the target holds a restored copy at least as new.
DecideSetDatabase(s, expected, db) ==
  Guarded(/\ s.site.status = "stopped" /\ s.site.db = expected
          /\ db \in DOMAIN s.dbs /\ s.dbs[db].ready
          /\ s.dbs[db].from = s.site.db
          /\ s.dbs[db].version >= s.dbs[s.site.db].version,
          <<[type |-> "SiteDatabaseChanged", previous |-> s.site.db, db |-> db,
             at |-> s.now]>>)

----------------------------------------------------------------------------
(* The bill                                                                 *)

\* proratedMonthlyCost: each calendar month's share, rounded down.
Prorated(from, to, price) ==
  SumOver((from \div Month) .. ((to - 1) \div Month),
          LAMBDA m : (price * (Least(to, (m + 1) * Month) - Most(from, m * Month)))
                       \div Month)

\* Mutants: a draining server is free; a bill of nothing new is sent.
ChargedWhileActive(s, to) == {i \in WithStatus(s, "active") : s.servers[i].activated < to}
DueAgain(total, billed) == total >= billed
\* Mutant: an hour is charged when it is over.
HoursOver(s, b, to) == (to - s.backups[b].completed) \div Hour

\* The servers that were up before the advance; what has grown is due.
Charged(s, to) ==
  {i \in WithStatus(s, "active") \cup WithStatus(s, "draining") : s.servers[i].activated < to}
Due(total, billed) == total > billed
Hours(s, b, to) == CeilDiv(to - s.backups[b].completed, Hour)

\* infrastructureCostEvents
ServerCosts(s, to) ==
  LET Total(i) == IF Catalog[i].monthly > 0
                  THEN Prorated(s.servers[i].activated, to, Catalog[i].monthly)
                  ELSE CeilDiv(to - s.servers[i].activated, Hour)
      Billed(i) == IF Catalog[i].monthly > 0 THEN s.servers[i].accrued ELSE s.servers[i].billed
      due == Ascending({i \in Charged(s, to) : Due(Total(i), Billed(i))})
  IN  [k \in DOMAIN due |->
         [type |-> "InfrastructureCostAccrued", server |-> due[k], to |-> to,
          total |-> Total(due[k]),
          amount |-> IF Catalog[due[k]].monthly > 0 THEN Total(due[k]) - Billed(due[k])
                     ELSE (Total(due[k]) - Billed(due[k])) * Catalog[due[k]].hourly]]

\* backupStorageCostEvents
BackupCosts(s, to) ==
  LET due == Ascending({b \in DOMAIN s.backups :
                          /\ s.backups[b].status = "ready" /\ s.backups[b].completed < to
                          /\ Due(Hours(s, b, to), s.backups[b].billed)})
  IN  [k \in DOMAIN due |->
         [type |-> "BackupStorageCostAccrued", backup |-> due[k], to |-> to,
          hours |-> Hours(s, due[k], to),
          amount |-> (Hours(s, due[k], to) - s.backups[due[k]].billed) * s.backups[due[k]].rate]]

----------------------------------------------------------------------------
(* AdvanceTime                                                              *)

\* The moments a rule of s expires in (from, to].
Expiries(s, from, to) ==
  {t \in {s.rules[k].until : k \in DOMAIN s.rules} : from < t /\ t <= to}

\* One boundary: the firewall's own transition, then the backends'.
AtBoundary(w, t) ==
  RecordBackends(IF t \in Expiries(w.st, Never, EndsAt)
                 THEN RecordBlocking(w, Blocking(w.st, t), t) ELSE w, t)

\* processAvailabilityBoundaries
PassBoundaries(w, until) ==
  LET releases == {w.st.capacity[r].until : r \in DOMAIN w.st.capacity}
      due == Expiries(w.st, w.cursor, until)
             \cup {t \in releases : w.cursor < t /\ t <= until}
  IN  [FoldLeft(AtBoundary, w, Ascending(due)) EXCEPT !.cursor = Most(@, until)]

\* Mutant: a database that was full stays marked so.
ReleaseOneStill(w, r) ==
  Emit(w, <<[type |-> "DatabaseConnectionReleased", request |-> r,
             db |-> w.st.conns[r].db, at |-> w.st.conns[r].until]>>)

\* One release: a full database becomes available.
ReleaseOne(w, r) ==
  LET c == w.st.conns[r]
      reasons == w.st.dbs[c.db].reasons
  IN  Emit(w, <<[type |-> "DatabaseConnectionReleased", request |-> r, db |-> c.db,
                 at |-> c.until]>>
              \o (IF "connection_limit" \in reasons
                  THEN <<DatabaseUp(c.db, reasons \ {"connection_limit"}, c.until)>>
                  ELSE <<>>))

\* A stopping site whose last connection is released stops then.
StopIfIdle(w, at) ==
  IF w.st.site.status # "stopping" \/ DOMAIN w.st.conns # {} THEN w
  ELSE [Emit(w, <<[type |-> "SiteStopped", op |-> w.st.site.op, at |-> at]>>)
        EXCEPT !.stopOp = w.st.site.op]

\* A request is named by its visitor and its page, and so ordered.
EarlierRequest(q, r) ==
  q[1] < r[1] \/ (q[1] = r[1] /\ q[2] = "product_list" /\ r[2] = "product_page")

\* releaseConnections: in order of release, and of request at one moment.
ReleaseConnections(w, until) ==
  LET expired == {r \in DOMAIN w.st.conns : w.st.conns[r].until <= until}
      Earlier(q, r) == \/ w.st.conns[q].until < w.st.conns[r].until
                       \/ /\ w.st.conns[q].until = w.st.conns[r].until
                          /\ EarlierRequest(q, r)
      order == Sorted(expired, {p \in expired \X expired : Earlier(p[1], p[2])})
  IN  StopIfIdle(FoldLeft(ReleaseOne, w, order),
                 IF order = <<>> THEN until ELSE w.st.conns[order[Len(order)]].until)

\* decideVisitorMutableContext: the list, then perhaps a product; a page that
\* fails ends the journey.
Answer(w, codes) ==
  IF codes = {} THEN RecordBackends(w, w.st.now)
  ELSE [w EXCEPT !.failed = TRUE, !.codes = @ \cup codes]
Show(w, es) == Answer(Emit(w, es), RejectedCodes(es))
Visit(w, request, page, profile) == Show(w, OpenPage(w.st, request, page, profile))

GoOn(w, e) ==
  IF w.failed \/ ~e.product THEN w
  ELSE Visit(w, <<e.visitor, "product_page">>, "product_page", e.profile)
Journey(w, e) ==
  [GoOn(Visit([w EXCEPT !.st.now = e.at, !.failed = FALSE],
              <<e.visitor, "product_list">>, "product_list", e.profile), e)
   EXCEPT !.st.now = w.st.now]

\* decideDiskLogsGrowth
DiskLogs(s, e) ==
  [type |-> IF e.bytes > FreeDisk(s, e.server) THEN "DiskLogsGrowthBlocked"
            ELSE "DiskLogsIncreased",
   server |-> e.server, bytes |-> e.bytes, at |-> e.at]

\* What an item of the schedule causes at once.
Cause(w, e) ==
  CASE e.type = "VisitorArrived" /\ ~w.st.refused -> Journey(w, e)
    [] e.type = "DatabaseGrowthRequested" /\ w.st.site.status = "running" ->
         Emit(w, PendingGrowth(w.st, e.growth, e.at))
    [] e.type = "DiskLogsGrowthRequested" /\ ~w.st.refused ->
         Emit(w, <<DiskLogs(w.st, e)>>)
    [] OTHER -> w

\* One item: what came due before it, the item, what it causes.
Happen(w, e) ==
  RecordBackends(
    Cause(Emit(ReleaseConnections(PassBoundaries(w, e.at), e.at), <<e>>), e), e.at)

\* The advance stops after the last item of the moment a page failed with a
\* code the caller waits for (an empty filter waits for any).
StopsAt(w, stop, filter) ==
  stop /\ w.codes # {} /\ (filter = {} \/ w.codes \cap filter # {})

LastOfMoment(pending, k) == \A j \in DOMAIN pending : j > k => pending[j].at # pending[k].at
StopAt(w, stops, at) == IF stops THEN [w EXCEPT !.done = TRUE, !.to = at] ELSE w
Items(w, pending, stop, filter) ==
  LET Item(x, k) ==
        IF LastOfMoment(pending, k) THEN StopAt(x, StopsAt(x, stop, filter), pending[k].at)
        ELSE x
  IN  FoldLeft(LAMBDA x, k : IF x.done THEN x ELSE Item(Happen(x, pending[k]), k),
               w, [k \in DOMAIN pending |-> k])

\* Mutant: the operation that created the server is left running.
ActivationsUnfinished(w, to) ==
  LET ready == Ascending({i \in WithStatus(w.st, "provisioning") : w.st.servers[i].ready <= to})
  IN  Emit(w, [k \in DOMAIN ready |->
                 [type |-> "ServerActivated", op |-> w.st.servers[ready[k]].op,
                  server |-> ready[k], at |-> to]])

\* At the end of the interval new servers become active ...
Activations(w, to) ==
  LET ready == Ascending({i \in WithStatus(w.st, "provisioning") : w.st.servers[i].ready <= to})
  IN  Emit(w, [k \in DOMAIN ready |->
                 [type |-> "ServerActivated", op |-> w.st.servers[ready[k]].op,
                  server |-> ready[k], at |-> to]]
              \o [k \in DOMAIN ready |-> Succeed(w.st.servers[ready[k]].op, to)])

\* ... and drained ones leave.
Removals(w, to) ==
  LET idle == Ascending({i \in WithStatus(w.st, "draining") : ~HasLoad(w.st, i, to)})
      x == FoldLeft(LAMBDA y, i : Emit(y, Leave(y.st, i, to)), w, idle)
  IN  Emit(x, [k \in DOMAIN idle |-> Succeed(w.st.servers[idle[k]].op, to)])

\* sort.Search, from an item on: how many items there are up to time t.
PassedBy(from, t) ==
  Min({k \in from .. Len(Schedule) : k < Len(Schedule) => t < Schedule[k + 1].at})

\* Mutant: what happens at the end of the interval is left to the next.
PendingBefore(s, to) ==
  LET first == PassedBy(s.cursor, s.now)
  IN  SubSeq(Schedule, first + 1, PassedBy(first, to - 1))

\* pendingScheduledEvents: two searches of a schedule sorted by time.
Pending(s, to) ==
  LET first == PassedBy(s.cursor, s.now)
  IN  SubSeq(Schedule, first + 1, PassedBy(first, to))

TimeAdvanced(from, to) == [type |-> "TimeAdvanced", from |-> from, to |-> to]

\* The operation of a stop that ended in the interval succeeds at its end.
FinishStop(w, to) ==
  IF w.stopOp = NoOperation THEN w ELSE Emit(w, <<Succeed(w.stopOp, to)>>)
EndRun(w, to) == IF to = EndsAt THEN Emit(w, <<[type |-> "RunEnded", at |-> to]>>) ELSE w

\* What follows the last item, in the code's order.
Settle(w) ==
  LET to == w.to IN
  EndRun(RecordBackends(Removals(RecordBackends(Activations(FinishStop(
    ReleaseConnections(PassBoundaries([w EXCEPT !.st.now = to], to), to),
    to), to), to), to), to), to)

\* The time passed and its cost come before everything that happened meanwhile.
WithCosts(s, w) ==
  Guarded(~w.st.refused,
          <<TimeAdvanced(s.now, w.to)>> \o ServerCosts(s, w.to) \o BackupCosts(s, w.to)
          \o w.out)

DecideAdvance(s, duration, stop, filter) ==
  LET bound == Least(s.now + duration, EndsAt)
      begun == [st |-> Apply(s, TimeAdvanced(s.now, bound)), out |-> <<>>, cursor |-> s.now,
                to |-> bound, stopOp |-> NoOperation, codes |-> {}, failed |-> FALSE,
                done |-> FALSE]
  IN  WithCosts(s, Settle(Items(begun, Pending(s, bound), stop, filter)))
=============================================================================
