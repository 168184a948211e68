--------------------------- MODULE SimulationProofs ---------------------------
(***************************************************************************)
(* What holds of every run of the simulated world, whatever the catalog,   *)
(* the schedule and the agent's commands.                                  *)
(***************************************************************************)
EXTENDS SimulationAdvance
----------------------------------------------------------------------------
(* The firewall commands                                                    *)

LEMMA TrackedSteady ==
    ASSUME NEW c, NEW at, NEW w, Tracked(c, at, w), ~w.st.refused
    PROVE  Steady(c.T, w.st) /\ Draftlike(w) /\ Marked(w.st) /\ w.st.indexed <= at
  BY AtFields DEF Tracked, Tracks, Bears

\* The firewall's verdict on the rules it now has.
LEMMA RecordBlockingTracked ==
    ASSUME NEW c, c.T \in Int, NEW at \in Int, NEW w, Tracked(c, at, w), w.st.now = c.T
    PROVE  LET v == RecordBlocking(w, Blocking(w.st, c.T), c.T) IN
           /\ Tracked(c, at, v) /\ Draftlike(v) /\ v.st.now = c.T
           /\ ~v.st.refused =>
                /\ ~w.st.refused /\ v.st.firewallDown = Denying(v.st.rules, c.T)
                /\ v.st = w.st \/ \E f : /\ f.type = "FirewallAvailabilityChanged"
                                         /\ v.st \in Handled(w.st, f)
<1> DEFINE T == c.T
           a == At(c, w.st)
           b == Judging(a, Denying(a.rules, T))
           f == [type |-> "FirewallAvailabilityChanged", up |-> Blocking(w.st, T) = {},
                 blocking |-> Blocking(w.st, T), at |-> T]
           v == RecordBlocking(w, Blocking(w.st, T), T)
<1>1. a.T = T /\ a.passed = c.passed /\ a.rules = w.st.rules /\ a.y = c.y /\ a.fired = c.fired
      /\ a.over = c.over /\ Tracks(a, at, w)
  BY AtFields DEF Tracked
<1>2. Draftlike(w)
  BY <1>1 DEF Tracks, Bears
<1>3. v = w \/ v = Emit(w, <<f>>)
  BY DEF RecordBlocking
<1>4. f.type = "FirewallAvailabilityChanged"
  OBVIOUS
<1>5. b.T = T /\ b.y = c.y /\ b.fired = c.fired /\ b.over = c.over /\ b.passed = c.passed
      /\ b.down = Denying(w.st.rules, T) /\ b.rules = w.st.rules
  BY <1>1 DEF Judging
<1> HIDE DEF a
<1>6. Tracks(b, at, v)
  <2>1. T \in Int /\ a.T \in Int /\ T <= a.T
    BY <1>1
  <2> QED
    BY <1>1, <2>1, RecordBlockingTracks
<1> HIDE DEF b, f, v
<1>7. Tracked(b, at, v)
  BY <1>6, TracksAt
<1>8. Tracked(c, at, v)
  <2> DEFINE d == At(b, v.st)
             e == At(c, v.st)
  <2>1. /\ SameRun(d, e) /\ e.cursor = d.cursor /\ e.rules = d.rules /\ e.down = d.down
        /\ e.ops = d.ops /\ e.roles = d.roles /\ e.passed = d.passed
    BY <1>5 DEF At, SameRun
  <2> HIDE DEF d, e
  <2>2. Tracks(d, at, v)
    BY <1>7 DEF Tracked, d
  <2>3. Tracks(e, at, v)
    BY <2>1, <2>2, SameTracks
  <2> QED
    BY <2>3 DEF Tracked, e
<1>9. Draftlike(v) /\ v.st.now = T
  <2>1. Moves(w, v)
    BY RecordBlockingMoves DEF v
  <2> QED
    BY <1>2, <2>1 DEF Moves, Goes
<1>10. ASSUME ~v.st.refused
       PROVE  /\ ~w.st.refused /\ v.st.firewallDown = Denying(v.st.rules, T)
              /\ v.st = w.st \/ \E g : /\ g.type = "FirewallAvailabilityChanged"
                                       /\ v.st \in Handled(w.st, g)
  <2>1. Holds(b, v.st)
    BY <1>6, <1>10 DEF Tracks, Bears
  <2>2. v.st.firewallDown = Denying(v.st.rules, T)
    BY <1>5, <2>1 DEF Holds
  <2>3. CASE v = w
    BY <1>10, <2>2, <2>3
  <2>4. CASE v = Emit(w, <<f>>)
    <3>1. ~w.st.refused /\ v.st \in Handled(w.st, f)
      BY <1>2, <1>10, <2>4, OneEmitted
    <3> QED
      BY <1>4, <2>2, <3>1
  <2> QED
    BY <1>3, <2>3, <2>4
<1> QED
  BY <1>8, <1>9, <1>10 DEF v, T

\* A rule is written or deleted, and the verdicts on it are noted.
LEMMA RuleLands ==
    ASSUME NEW x, Settled(x), Running(x), NEW e,
           e.type \in {"FirewallRuleUpserted", "FirewallRuleDeleted"}, "seq" \notin DOMAIN e,
           e.type = "FirewallRuleUpserted" => e.body.until \in Int,
           NEW d, d = WithAvailability(Emit(Draft(x), <<e>>), x.now), d.ok
    PROVE  Landed(x, d.events, ApplyAll(x, d.events))
<1> DEFINE c == OnCommand(x)
           T == x.now
           w == Emit(Draft(x), <<e>>)
           v == RecordBlocking(w, Blocking(w.st, T), T)
           u == Draft(x)
<1>1. /\ T \in Int /\ Steady(T, x) /\ Marked(x) /\ ~x.refused /\ x.indexed = T
  BY DEF Settled, Sound
<1>2. DOMAIN x = Fields /\ DOMAIN x.site = SiteFields /\ x.used \in [Servers -> Nat]
      /\ Rows(x.servers, ServerFields)
  BY <1>1, CalmSelf DEF Steady, Tables, Placed, Calm
<1>3. Draftlike(u) /\ u.st = x /\ Tracked(c, T, u) /\ c.T = T
  BY DraftTracked
<1>4. Timely(c, T, x, e) /\ Still(x, e) /\ Routine(e)
  <2>1. Proper(c.T, x, e)
    BY DEF Proper, AlikeTypes, KnownTypes, FirewallTypes, CostTypes
  <2>2. Timely(c, T, x, e)
    BY <1>3, <2>1 DEF Timely
  <2> QED
    BY <2>2 DEF Still, KeepsMark, Routine, ScheduleTypes, OperationTypes
<1> HIDE DEF c, u
<1>5. w = Emit(u, <<e>>)
  BY DEF u
<1> HIDE DEF w
<1>6. Tracked(c, T, w) /\ Draftlike(w)
  BY <1>1, <1>3, <1>4, <1>5, EmitTracked
<1>7. /\ w.st.now = T
      /\ ~w.st.refused => w.st \in Handled(x, e)
  BY <1>3, <1>5, OneEmitted
<1>8. /\ Tracked(c, T, v) /\ Draftlike(v) /\ v.st.now = T
      /\ ~v.st.refused =>
           /\ ~w.st.refused /\ v.st.firewallDown = Denying(v.st.rules, T)
           /\ v.st = w.st \/ \E f : /\ f.type = "FirewallAvailabilityChanged"
                                    /\ v.st \in Handled(w.st, f)
  <2>1. RecordBlocking(w, Blocking(w.st, c.T), c.T) = v
    BY <1>3
  <2> HIDE DEF v, T
  <2> QED
    BY <1>1, <1>3, <1>6, <1>7, <2>1, RecordBlockingTracked
<1> HIDE DEF v
<1>9. ASSUME ~v.st.refused
      PROVE  Nearly(v.st, T)
  <2> DEFINE y == w.st
             z == v.st
  <2>1. y \in Handled(x, e)
    BY <1>7, <1>8, <1>9
  <2>2. e.type \in CalmTypes /\ e.type # "PageRequestAccepted"
    BY DEF CalmTypes, KnownTypes, FirewallTypes, ScheduleTypes
  <2> HIDE DEF y, z
  <2>3. Calm(x, y)
    BY <1>2, <2>1, <2>2, CalmStep
  <2>4. y.ops = x.ops /\ y.servers = x.servers
    BY <1>2, <2>1, TypeKeeps DEF Kept, Fields
  <2>5. SameSite(y.site, x.site)
    BY <1>2, <2>1, SiteStep DEF SiteChange
  <2>6. Calm(x, z) /\ z.ops = x.ops /\ z.servers = x.servers /\ SameSite(z.site, x.site)
    <3>1. CASE z = y
      BY <2>3, <2>4, <2>5, <3>1
    <3>2. CASE z # y
      <4>1. PICK f : f.type = "FirewallAvailabilityChanged" /\ z \in Handled(y, f)
        BY <1>8, <1>9, <3>2 DEF y, z
      <4>2. f.type \in CalmTypes /\ f.type # "PageRequestAccepted"
        BY <4>1 DEF CalmTypes, KnownTypes, FirewallTypes, ScheduleTypes
      <4>3. DOMAIN y = Fields /\ DOMAIN y.site = SiteFields /\ y.used \in [Servers -> Nat]
        BY <2>3 DEF Calm
      <4>4. Calm(y, z)
        BY <4>1, <4>2, <4>3, CalmStep
      <4>5. Calm(x, z)
        BY <1>2, <2>3, <4>4, CalmOn
      <4>6. z.ops = y.ops /\ z.servers = y.servers
        BY <4>1, <4>3, TypeKeeps DEF Kept, Fields
      <4>7. SameSite(z.site, y.site)
        BY <4>1, <4>3, SiteStep DEF SiteChange
      <4> QED
        BY <2>4, <2>5, <4>5, <4>6, <4>7 DEF SameSite
    <3> QED
      BY <3>1, <3>2
  <2>7. z.firewallDown = Denying(z.rules, T)
    BY <1>8, <1>9 DEF z
  <2>8. Nearly(z, x.now)
    BY <2>6, <2>7, NearlyCalm
  <2> QED
    BY <2>8 DEF z
<1>10. d = Drafted(RecordBackends(v, T))
  BY DEF WithAvailability, v, w
<1> QED
  BY <1>8, <1>9, <1>10, RecordLands DEF c

LEMMA UpsertRuleLands ==
    ASSUME NEW x, Settled(x), Running(x), NEW k, NEW body \in RuleBodies,
           DecideUpsertRule(x, k, body).ok
    PROVE  LET es == DecideUpsertRule(x, k, body).events IN Landed(x, es, ApplyAll(x, es))
<1> DEFINE e == [type |-> "FirewallRuleUpserted", rule |-> k, body |-> body, at |-> x.now]
           d == DecideUpsertRule(x, k, body)
<1>1. d = Rejected \/ d = WithAvailability(Emit(Draft(x), <<e>>), x.now)
  BY DEF DecideUpsertRule
<1>2. /\ e.type = "FirewallRuleUpserted" /\ "seq" \notin DOMAIN e /\ e.body.until \in Int
  BY CommandsAssumption
<1>3. d.ok
  OBVIOUS
<1> HIDE DEF e, d
<1>4. d = WithAvailability(Emit(Draft(x), <<e>>), x.now)
  BY <1>1, <1>3 DEF Rejected
<1>5. Landed(x, d.events, ApplyAll(x, d.events))
  BY <1>2, <1>3, <1>4, RuleLands
<1> QED
  BY <1>5 DEF d

LEMMA DeleteRuleLands ==
    ASSUME NEW x, Settled(x), Running(x), NEW k, DecideDeleteRule(x, k).ok
    PROVE  LET es == DecideDeleteRule(x, k).events IN Landed(x, es, ApplyAll(x, es))
<1> DEFINE e == [type |-> "FirewallRuleDeleted", rule |-> k, at |-> x.now]
           d == DecideDeleteRule(x, k)
<1>1. d = Rejected \/ d = WithAvailability(Emit(Draft(x), <<e>>), x.now)
  BY DEF DecideDeleteRule
<1>2. /\ e.type = "FirewallRuleDeleted" /\ "seq" \notin DOMAIN e
  OBVIOUS
<1>3. d.ok
  OBVIOUS
<1> HIDE DEF e, d
<1>4. d = WithAvailability(Emit(Draft(x), <<e>>), x.now)
  BY <1>1, <1>3 DEF Rejected
<1>5. Landed(x, d.events, ApplyAll(x, d.events))
  BY <1>2, <1>3, <1>4, RuleLands
<1> QED
  BY <1>5 DEF d
----------------------------------------------------------------------------
(* A request of the agent's own: ProbePage                                  *)

Mild(e) ==
  e.type \in UndisturbedTypes /\ (e.type = "PageRequestAccepted" => e.page \in Pages)
MildList(es) == Listed(es) /\ \A k \in 1..Len(es) : Mild(es[k])

LEMMA MildAppend ==
    ASSUME NEW p, NEW q, MildList(p), MildList(q)
    PROVE  MildList(p \o q)
<1>1. /\ Listed(p \o q) /\ Len(p \o q) = Len(p) + Len(q)
      /\ \A i \in 1..Len(p) : (p \o q)[i] = p[i]
      /\ \A i \in 1..Len(q) : (p \o q)[Len(p) + i] = q[i]
      /\ Len(p) \in Nat /\ Len(q) \in Nat
  BY ListedAppend, ListedDomain DEF MildList
<1>2. ASSUME NEW i \in 1..Len(p \o q)
      PROVE  Mild((p \o q)[i])
  <2>1. CASE i \in 1..Len(p)
    BY <1>1, <2>1 DEF MildList
  <2>2. CASE i \notin 1..Len(p)
    <3>1. i - Len(p) \in 1..Len(q) /\ Len(p) + (i - Len(p)) = i
      BY <1>1, <2>2
    <3> QED
      BY <1>1, <3>1 DEF MildList
  <2> QED
    BY <2>1, <2>2
<1> QED
  BY <1>1, <1>2 DEF MildList

LEMMA MildLiterals ==
    /\ MildList(<<>>)
    /\ \A a : Mild(a) => MildList(<<a>>)
    /\ \A a, b : Mild(a) /\ Mild(b) => MildList(<<a, b>>)
<1>1. MildList(<<>>)
  BY ListedLiterals DEF MildList
<1>2. ASSUME NEW a, Mild(a) PROVE MildList(<<a>>)
  <2>1. Len(<<a>>) = 1 /\ <<a>>[1] = a
    OBVIOUS
  <2> QED
    BY <1>2, <2>1, ListedLiterals DEF MildList
<1>3. ASSUME NEW a, NEW b, Mild(a), Mild(b) PROVE MildList(<<a, b>>)
  <2>1. Len(<<a, b>>) = 2 /\ <<a, b>>[1] = a /\ <<a, b>>[2] = b
    OBVIOUS
  <2>2. \A k \in 1..2 : k = 1 \/ k = 2
    OBVIOUS
  <2> QED
    BY <1>3, <2>1, <2>2, ListedLiterals DEF MildList
<1> QED
  BY <1>1, <1>2, <1>3

\* What follows the start of a request disturbs nothing.
LEMMA PageListMild ==
    ASSUME NEW x, NEW request, NEW page \in Pages, NEW obstacle
    PROVE  \E rest : /\ PageList(x, request, page, obstacle)
                          = <<Asked(x, request, page)>> \o rest
                     /\ MildList(rest)
<1> DEFINE a == Asked(x, request, page)
           b == Served(x, request, page)
           j == Joined(x, request)
           f == Filled(x)
           d == Completed(x, request)
           r == TurnedAway(x, request, obstacle)
           k == Crowded(x, request)
<1>0. {"PageRequestAccepted", "DatabaseConnectionOpened", "DatabaseAvailabilityChanged",
       "PageRequestCompleted", "PageRequestRejected", "DatabaseConnectionRejected"}
        \subseteq UndisturbedTypes
  BY DEF UndisturbedTypes, CalmTypes, ContextTypes, KnownTypes, PageTypes, DatabaseTypes,
     ScheduleTypes
<1>1. Mild(b) /\ Mild(j) /\ Mild(f) /\ Mild(d) /\ Mild(r) /\ Mild(k)
  BY <1>0 DEF Served, Joined, Filled, Completed, TurnedAway, Crowded, DatabaseUp, Mild
<1>2. \/ PageList(x, request, page, obstacle) = <<a>> \o ((<<b, j>> \o <<f>>) \o <<d>>)
      \/ PageList(x, request, page, obstacle) = <<a>> \o ((<<b, j>> \o <<>>) \o <<d>>)
      \/ PageList(x, request, page, obstacle) = <<a>> \o <<k, r>>
      \/ PageList(x, request, page, obstacle) = <<a>> \o <<r>>
  BY DEF PageList
<1> HIDE DEF a, b, j, f, d, r, k
<1>3. /\ MildList(<<b, j>>) /\ MildList(<<f>>) /\ MildList(<<d>>)
      /\ MildList(<<k, r>>) /\ MildList(<<r>>) /\ MildList(<<>>)
  BY <1>1, MildLiterals
<1>4. /\ MildList((<<b, j>> \o <<f>>) \o <<d>>)
      /\ MildList((<<b, j>> \o <<>>) \o <<d>>)
  BY <1>3, MildAppend
<1> QED
  BY <1>2, <1>3, <1>4 DEF a

\* Nothing is over that the index of a settled state still lists.
LEMMA PruneNothing ==
    ASSUME NEW T \in Int, NEW x, Steady(T, x), x.indexed = T
    PROVE  Prune(x, T).used = x.used /\ Prune(x, T).indexed = T
<1>1. Index(T, x) /\ DOMAIN x = Fields
  BY DEF Steady, Tables
<1> DEFINE gone == {r \in DOMAIN x.capacity : x.capacity[r].until <= T}
<1>2. gone = {}
  BY <1>1 DEF Index, Allocation
<1>3. \A i \in Servers : LoadOf(x.capacity, {r \in gone : x.capacity[r].server = i}) = 0
  <2> SUFFICES ASSUME NEW i \in Servers
               PROVE  LoadOf(x.capacity, {r \in gone : x.capacity[r].server = i}) = 0
    OBVIOUS
  <2>1. {r \in gone : x.capacity[r].server = i} = {}
    BY <1>2
  <2>2. IsFiniteSet({})
    BY FS_EmptySet
  <2>3. LoadOf(x.capacity, {}) = 0
    BY <2>2, LoadParts
  <2> QED
    BY <2>1, <2>3
<1>4. x.used \in [Servers -> Nat]
  BY CalmSelf DEF Calm
<1> DEFINE taken == [i \in Servers |->
             x.used[i] - LoadOf(x.capacity, {r \in gone : x.capacity[r].server = i})]
<1>5. ~(T < x.indexed)
  OBVIOUS
<1>6. Prune(x, T) = [x EXCEPT !.capacity = Drop(x.capacity, gone), !.used = taken, !.indexed = T]
  BY <1>5 DEF Prune
<1>7. taken = x.used
  <2>1. \A i \in Servers : x.used[i] - 0 = x.used[i]
    BY <1>4
  <2>2. \A i \in Servers : taken[i] = x.used[i]
    BY <1>3, <2>1 DEF taken
  <2>3. taken = [i \in Servers |-> taken[i]]
    BY DEF taken
  <2>4. x.used = [i \in Servers |-> x.used[i]]
    BY <1>4
  <2> HIDE DEF taken
  <2> QED
    BY <2>2, <2>3, <2>4
<1> HIDE DEF gone, taken
<1>8. Prune(x, T).used = taken /\ Prune(x, T).indexed = T
  BY <1>1, <1>6 DEF Fields
<1> QED
  BY <1>7, <1>8

LEMMA AskedUndisturbed ==
    ASSUME NEW x, Settled(x), NEW e, e.type = "PageRequestStarted", e.at = x.now,
           ~Apply(x, e).refused
    PROVE  Undisturbed(x, Apply(x, e)) /\ Steady(x.now, Apply(x, e))
<1> DEFINE T == x.now
           t == Apply(x, e)
<1>1. T \in Int /\ Steady(T, x) /\ x.indexed = T
  BY DEF Settled, Sound
<1>2. Proper(T, x, e)
  BY <1>1 DEF Proper, AlikeTypes, KnownTypes, PageTypes, CostTypes
<1>3. Steady(T, t) /\ t \in Handled(x, e)
  BY <1>1, <1>2, SteadyStep
<1>4. DOMAIN x = Fields /\ DOMAIN x.site = SiteFields /\ x.used \in [Servers -> Nat]
      /\ Rows(x.servers, ServerFields)
  BY <1>1, CalmSelf DEF Steady, Tables, Placed, Calm
<1> HIDE DEF t
<1>5. /\ t.used = Prune(x, T).used /\ t.indexed = Prune(x, T).indexed
      /\ Kept(x, t, {"capacity", "used", "indexed"})
  BY <1>3, <1>4, PageRequestStartedEffect
<1>6. t.used = x.used /\ t.indexed = x.indexed
  BY <1>1, <1>5, PruneNothing
<1>7. /\ DOMAIN t = Fields /\ t.now = x.now /\ t.cursor = x.cursor /\ t.conns = x.conns
      /\ t.rules = x.rules /\ t.firewallDown = x.firewallDown /\ t.ops = x.ops
      /\ t.servers = x.servers /\ t.site = x.site
  BY <1>5 DEF Kept, Fields
<1>8. Calm(x, t)
  BY <1>4, <1>6, <1>7 DEF Calm
<1>9. Undisturbed(x, t)
  BY <1>4, <1>7, <1>8 DEF Undisturbed, SameSite
<1> QED
  BY <1>3, <1>9 DEF t

LEMMA ProbeLands ==
    ASSUME NEW x, Settled(x), Running(x), NEW page \in Pages, NEW n \in Probes, NEW profile,
           <<n, page>> \notin DOMAIN x.capacity,
           DecideProbe(x, <<n, page>>, page, profile).ok
    PROVE  LET es == DecideProbe(x, <<n, page>>, page, profile).events
           IN  Landed(x, es, ApplyAll(x, es))
<1> DEFINE c == OnCommand(x)
           T == x.now
           u == Draft(x)
           q == <<n, page>>
           es == OpenPage(x, q, page, profile)
           w == Emit(u, es)
           d == DecideProbe(x, q, page, profile)
<1>1. T \in Int /\ Steady(T, x) /\ x.indexed = T /\ x.used \in [Servers -> Nat]
  BY CalmSelf DEF Settled, Sound, Calm
<1>2. Draftlike(u) /\ u.st = x /\ Tracks(c, T, u) /\ c.T = T
  BY DraftTracked
<1>3. d = Drafted(RecordBackends(w, T)) /\ d.ok
  BY DEF DecideProbe
<1>4. Seen(x, q) /\ q \notin DOMAIN x.capacity
  <2>1. q \in Nat \X Pages /\ q[1] \in Probes
    BY CommandsAssumption
  <2> QED
    BY <2>1 DEF Seen
<1> HIDE DEF c, u, q, d
<1>5. Requested(c, T, u, q, page)
  BY <1>1, <1>2, <1>4 DEF Requested
<1>6. es = OpenPage(u.st, q, page, profile)
  BY <1>2
<1> HIDE DEF es
<1>7. Tracks(c, T, w)
  BY <1>5, <1>6, OpenPageTracks
<1>8. PICK rest : es = <<Asked(x, q, page)>> \o rest /\ MildList(rest)
  <2>1. es = PageList(x, q, page, Obstacle(x, page, profile))
    BY PageEventsIs DEF OpenPage, es
  <2> QED
    BY <2>1, PageListMild
<1>9. Listed(rest) /\ UndisturbedList(rest)
  BY <1>8 DEF MildList, Mild, UndisturbedList
<1> DEFINE a == Asked(x, q, page)
           y == Apply(x, a)
<1>10. a.type = "PageRequestStarted" /\ a.at = T
  BY DEF Asked
<1>11. Listed(<<a>>) /\ es = <<a>> \o rest
  BY <1>8, ListedLiterals
<1> HIDE DEF a
<1>12. Listed(es) /\ ApplyAll(x, es) = ApplyAll(y, rest)
  BY <1>9, <1>11, ListedAppend, ApplyAllAppend, ApplyAllOne
<1>13. w.st = ApplyAll(y, rest)
  BY <1>2, <1>12, EmitFields
<1>14. w.st.now = T
  <2>1. Moves(u, w)
    BY <1>6, OpenPageMoves DEF w
  <2> QED
    BY <1>2, <2>1 DEF Moves, Goes
<1> HIDE DEF w
<1>15. ASSUME ~w.st.refused
       PROVE  Nearly(w.st, T)
  <2>1. ~ApplyAll(y, rest).refused
    BY <1>13, <1>15
  <2>2. DOMAIN y = Fields
    BY <1>1, ApplyShape DEF Steady, Tables
  <2>3. ~y.refused
    BY <1>9, <2>1, <2>2, ShapeKept
  <2>4. Undisturbed(x, y) /\ Steady(T, y)
    BY <1>10, <2>3, AskedUndisturbed
  <2> HIDE DEF y
  <2>5. Undisturbed(y, ApplyAll(y, rest))
    BY <1>1, <1>9, <2>1, <2>4, UndisturbedAll
  <2>6. Undisturbed(x, w.st)
    BY <1>1, <1>13, <2>4, <2>5, UndisturbedOn
  <2> QED
    BY <2>6, NearlyUndisturbed
<1>16. Tracked(c, T, w)
  BY <1>7, TracksAt
<1>17. Landed(x, d.events, ApplyAll(x, d.events))
  BY <1>3, <1>14, <1>15, <1>16, RecordLands DEF c
<1> QED
  BY <1>17 DEF d, q
----------------------------------------------------------------------------
(* Growth that was waiting: the fold of Grow                                *)

GrownTypes == {"DatabaseStorageIncreased", "DatabaseGrowthBlocked", "DatabaseAvailabilityChanged"}

\* Nothing but the databases and what they wait for has changed.
Grown(x, t) ==
  /\ Undisturbed(x, t) /\ t.servers = x.servers /\ t.attacks = x.attacks
  /\ t.used = x.used /\ t.capacity = x.capacity /\ t.backendDown = x.backendDown

LEMMA GrownSelf ==
    ASSUME NEW x, NEW T \in Int, Steady(T, x)
    PROVE  Grown(x, x)
BY UndisturbedSelf DEF Grown

LEMMA GrownOn ==
    ASSUME NEW x, NEW y, NEW z, Grown(x, y), Grown(y, z), x.used \in [Servers -> Nat]
    PROVE  Grown(x, z)
BY UndisturbedOn DEF Grown

LEMMA GrownStep ==
    ASSUME NEW x, DOMAIN x = Fields, DOMAIN x.site = SiteFields, x.used \in [Servers -> Nat],
           Rows(x.servers, ServerFields), NEW e, e.type \in GrownTypes, NEW t \in Handled(x, e)
    PROVE  Grown(x, t)
<1>1. e.type \in UndisturbedTypes /\ e.type # "PageRequestAccepted"
  BY DEF GrownTypes, UndisturbedTypes, CalmTypes, ContextTypes, KnownTypes, StorageTypes,
     DatabaseTypes, ScheduleTypes
<1>2. Undisturbed(x, t)
  BY <1>1, UndisturbedStep
<1>3. \/ Kept(x, t, {"dbs", "growth"}) \/ Kept(x, t, {"growth"}) \/ Kept(x, t, {"dbs", "site"})
  BY TypeKeeps DEF GrownTypes
<1>4. /\ t.servers = x.servers /\ t.attacks = x.attacks /\ t.used = x.used
      /\ t.capacity = x.capacity /\ t.backendDown = x.backendDown
  BY <1>3 DEF Kept, Fields
<1> QED
  BY <1>2, <1>4 DEF Grown

\* What a steady state has.
LEMMA SteadyShape ==
    ASSUME NEW T \in Int, NEW x, Steady(T, x)
    PROVE  /\ DOMAIN x = Fields /\ DOMAIN x.site = SiteFields
           /\ x.used \in [Servers -> Nat] /\ Rows(x.servers, ServerFields)
BY CalmSelf DEF Calm, Steady, Tables

\* One growth that was waiting.
LEMMA GrowthGrown ==
    ASSUME NEW c, c.T \in Int, NEW at \in Int, NEW w, Tracks(c, at, w), NEW g, NEW t,
           ~Emit(w, PendingGrowth(w.st, g, t)).st.refused
    PROVE  ~w.st.refused /\ Grown(w.st, Emit(w, PendingGrowth(w.st, g, t)).st)
<1> DEFINE es == PendingGrowth(w.st, g, t)
           a == GrowthFact(w.st, g, t)
           b == GrowthUp(w.st, g, t)
           v == Emit(w, es)
<1>1. es = <<>> \/ es = <<a>> \/ es = <<a, b>>
  BY PendingGrowthIs
<1>2. a.type \in GrownTypes /\ b.type \in GrownTypes
  BY DEF GrowthFact, GrowthUp, DatabaseUp, GrownTypes
<1>3. Draftlike(w) /\ (~w.st.refused => Steady(c.T, w.st))
  BY DEF Tracks, Bears
<1> HIDE DEF es, a, b
<1>4. ~v.st.refused
  BY DEF es
<1>5. CASE es = <<>>
  <2>1. v = w
    BY <1>3, <1>5, EmitNone
  <2>2. Steady(c.T, w.st) /\ ~w.st.refused
    BY <1>3, <1>4, <2>1
  <2> HIDE DEF v
  <2>3. Grown(w.st, v.st)
    BY <2>1, <2>2, GrownSelf
  <2> QED
    BY <2>2, <2>3 DEF v, es
<1>6. CASE es = <<a>>
  <2>1. /\ ~v.st.refused /\ v = Emit(w, <<a>>)
    BY <1>4, <1>6
  <2> HIDE DEF v
  <2>2. ~w.st.refused /\ v.st \in Handled(w.st, a)
    BY <1>3, <2>1, OneEmitted
  <2>3. Grown(w.st, v.st)
    BY <1>2, <1>3, <2>2, SteadyShape, GrownStep
  <2> QED
    BY <2>2, <2>3 DEF v, es
<1>7. CASE es = <<a, b>>
  <2> DEFINE u == Emit(w, <<a>>)
  <2>1. v = Emit(u, <<b>>)
    BY <1>3, <1>7, EmitTwo
  <2>2. Draftlike(u)
    BY <1>3, OneEmitted
  <2>0. /\ ~u.st.refused => ~w.st.refused /\ u.st \in Handled(w.st, a)
    BY <1>3, OneEmitted
  <2> HIDE DEF u, v
  <2>3. ~u.st.refused /\ v.st \in Handled(u.st, b)
    BY <1>4, <2>1, <2>2, OneEmitted
  <2>4. ~w.st.refused /\ Steady(c.T, w.st)
    BY <1>3, <2>0, <2>3
  <2>5. /\ DOMAIN w.st = Fields /\ DOMAIN w.st.site = SiteFields
        /\ w.st.used \in [Servers -> Nat] /\ Rows(w.st.servers, ServerFields)
    BY <2>4, SteadyShape
  <2>6. Grown(w.st, u.st)
    BY <1>2, <2>0, <2>3, <2>5, GrownStep
  <2>7. /\ DOMAIN u.st = Fields /\ DOMAIN u.st.site = SiteFields
        /\ u.st.used \in [Servers -> Nat] /\ Rows(u.st.servers, ServerFields)
    BY <2>6 DEF Grown, Undisturbed, Calm
  <2>8. Grown(u.st, v.st)
    BY <1>2, <2>3, <2>7, GrownStep
  <2>9. Grown(w.st, v.st)
    BY <2>5, <2>6, <2>8, GrownOn
  <2> QED
    BY <2>4, <2>9 DEF v, es
<1> QED
  BY <1>1, <1>5, <1>6, <1>7

GrowIn(d, x, g) == Emit(x, PendingGrowth(x.st, g, d.T))
GrownTo(d, k, x) ==
  /\ Moves(d.w, x) /\ Tracks(d.c, d.at, x)
  /\ ~x.st.refused => ~d.w.st.refused /\ Grown(d.w.st, x.st)

Growths == INSTANCE FoldSteps WITH Op <- GrowIn, Inv <- GrownTo, Weight <- LoadIn

AllGrow(w, gs, t) == FoldLeft(LAMBDA x, g : Emit(x, PendingGrowth(x.st, g, t)), w, gs)

LEMMA GrowthsFold ==
    ASSUME NEW d, NEW w, NEW gs
    PROVE  Growths!Folded(d, w, gs) = AllGrow(w, gs, d.T)
  BY DEF AllGrow, Growths!Folded, FoldLeft, MapThenFoldSet,
         Growths!MapThenFoldSet, Max, Growths!Max, GrowIn

LEMMA GrowTracks ==
    ASSUME NEW c, c.T \in Int, NEW at \in Int, NEW w, Tracks(c, at, w), NEW t \in Int, t <= c.T,
           NEW gs, IsFiniteSet(gs)
    PROVE  LET v == Grow(w, gs, t) IN
           /\ Tracks(c, at, v) /\ Moves(w, v)
           /\ ~v.st.refused => ~w.st.refused /\ Grown(w.st, v.st)
<1> DEFINE d == [c |-> c, T |-> t, at |-> at, w |-> w]
           order == Ascending(gs)
           n == Cardinality(gs)
<1>1. d.c = c /\ d.T = t /\ d.at = at /\ d.w = w
  OBVIOUS
<1>2. n \in Nat
  BY FS_CardinalityType
<1>3. DOMAIN order = 1..n
  BY DEF Ascending, Sorted
<1> HIDE DEF d, order, n
<1>4. GrownTo(d, 0, w)
  <2>1. ~w.st.refused => Grown(w.st, w.st)
    BY GrownSelf DEF Tracks, Bears
  <2> QED
    BY <1>1, <2>1, LeadsStill DEF GrownTo
<1>5. ASSUME NEW k \in 0..(n - 1), NEW x, GrownTo(d, k, x)
      PROVE  GrownTo(d, k + 1, GrowIn(d, x, order[k + 1]))
  <2> DEFINE g == order[k + 1]
             v == Emit(x, PendingGrowth(x.st, g, t))
  <2>1. /\ Moves(w, x) /\ Tracks(c, at, x)
        /\ ~x.st.refused => ~w.st.refused /\ Grown(w.st, x.st)
    BY <1>1, <1>5 DEF GrownTo
  <2> HIDE DEF g
  <2>2. Moves(x, v) /\ Leads(c, at, x, v)
    BY GrowthLeads
  <2>3. Tracks(c, at, v)
    BY <2>1, <2>2 DEF Leads
  <2>4. Moves(w, v)
    BY <2>1, <2>2, MovesOn
  <2>5. ~v.st.refused => ~x.st.refused /\ Grown(x.st, v.st)
    BY <2>1, GrowthGrown
  <2>6. GrowIn(d, x, g) = v
    BY <1>1 DEF GrowIn
  <2> HIDE DEF v
  <2>7. ~v.st.refused => ~w.st.refused /\ Grown(w.st, v.st)
    <3> SUFFICES ASSUME ~v.st.refused
                 PROVE  ~w.st.refused /\ Grown(w.st, v.st)
      OBVIOUS
    <3>1. ~w.st.refused /\ Grown(w.st, x.st) /\ Grown(x.st, v.st)
      BY <2>1, <2>5
    <3>2. w.st.used \in [Servers -> Nat]
      <4>1. Steady(c.T, w.st)
        BY <3>1 DEF Tracks, Bears
      <4> QED
        BY <4>1, SteadyShape
    <3> QED
      BY <3>1, <3>2, GrownOn
  <2>8. GrownTo(d, k + 1, v)
    BY <1>1, <2>3, <2>4, <2>7 DEF GrownTo
  <2> QED
    BY <2>6, <2>8 DEF g
<1>6. GrownTo(d, n, Growths!Folded(d, w, order))
  BY <1>2, <1>3, <1>4, <1>5, Growths!FoldKeeps
<1> DEFINE v == AllGrow(w, order, t)
<1>7. Growths!Folded(d, w, order) = v
  BY <1>1, GrowthsFold
<1>8. Grow(w, gs, t) = v
  BY DEF Grow, AllGrow, order
<1> HIDE DEF v
<1>9. GrownTo(d, n, v)
  BY <1>6, <1>7
<1> QED
  BY <1>1, <1>8, <1>9 DEF GrownTo

----------------------------------------------------------------------------
(* Cleaning a disk: CleanupDatabaseLogs                                     *)

LEMMA CleanupLands ==
    ASSUME NEW x, Settled(x), Running(x), NEW i, DecideCleanup(x, i).ok
    PROVE  LET es == DecideCleanup(x, i).events IN Landed(x, es, ApplyAll(x, es))
<1> DEFINE c == OnCommand(x)
           T == x.now
           u == Draft(x)
           logs == x.servers[i].logs + (IF i \in DOMAIN x.dbs THEN x.dbs[i].logs ELSE 0)
           e == [type |-> "DiskLogsCleaned", server |-> i, freed |-> logs, at |-> T]
           gs == {g \in DOMAIN x.growth : /\ i \in DOMAIN x.dbs /\ x.growth[g].blocked
                                          /\ x.growth[g].db = i}
           w == Emit(u, <<e>>)
           v == Grow(w, gs, T)
           d == DecideCleanup(x, i)
<1>1. T \in Int /\ Steady(T, x)
  BY DEF Settled, Sound
<1>2. Draftlike(u) /\ u.st = x /\ Tracks(c, T, u) /\ Tracked(c, T, u) /\ c.T = T
  BY DraftTracked
<1>3. e.type = "DiskLogsCleaned" /\ e.at = T /\ "seq" \notin DOMAIN e
  OBVIOUS
<1>4. d = Rejected \/ d = Drafted(RecordBackends(v, T))
  BY DEF DecideCleanup
<1>5. d.ok
  OBVIOUS
<1>6. IsFiniteSet(gs)
  <2>1. IsFiniteSet(DOMAIN x.growth)
    BY <1>1 DEF Steady, Tables
  <2> QED
    BY <2>1, FS_Subset
<1> HIDE DEF c, u, e, gs, d
<1>7. Timely(c, T, x, e) /\ Still(x, e) /\ e.type \notin ContextTypes
  <2>1. Proper(c.T, x, e)
    BY <1>3 DEF Proper, AlikeTypes, KnownTypes, StorageTypes, CostTypes
  <2>2. Timely(c, T, x, e)
    BY <1>2, <1>3, <2>1 DEF Timely
  <2> QED
    BY <1>3, <2>2 DEF Still, KeepsMark, ContextTypes
<1>8. Tracks(c, T, w)
  BY <1>1, <1>2, <1>3, <1>7, EmitTracks DEF Fine
<1>9. /\ w.st.now = T
      /\ ~w.st.refused => w.st \in Handled(x, e)
  BY <1>2, <1>3, OneEmitted
<1> HIDE DEF w
<1>10. /\ Tracks(c, T, v) /\ Moves(w, v)
       /\ ~v.st.refused => ~w.st.refused /\ Grown(w.st, v.st)
  BY <1>1, <1>2, <1>6, <1>8, GrowTracks
<1> HIDE DEF v
<1>11. v.st.now = T
  BY <1>8, <1>9, <1>10 DEF Moves, Goes, Tracks, Bears
<1>12. ASSUME ~v.st.refused
       PROVE  Nearly(v.st, T)
  <2>1. w.st \in Handled(x, e) /\ Grown(w.st, v.st)
    BY <1>9, <1>10, <1>12
  <2>2. e.type \in UndisturbedTypes /\ e.type # "PageRequestAccepted"
    BY <1>3 DEF UndisturbedTypes, CalmTypes, ContextTypes, KnownTypes, StorageTypes,
       ScheduleTypes
  <2>3. Undisturbed(x, w.st)
    BY <1>1, <2>1, <2>2, SteadyShape, UndisturbedStep
  <2>4. Undisturbed(x, v.st)
    BY <1>1, <2>1, <2>3, SteadyShape, UndisturbedOn DEF Grown
  <2> QED
    BY <2>4, NearlyUndisturbed
<1>13. Tracked(c, T, v)
  BY <1>10, TracksAt
<1>14. d = Drafted(RecordBackends(v, T))
  BY <1>4, <1>5 DEF Rejected
<1>15. Landed(x, d.events, ApplyAll(x, d.events))
  BY <1>5, <1>11, <1>12, <1>13, <1>14, RecordLands DEF c
<1> QED
  BY <1>15 DEF d
----------------------------------------------------------------------------
(* Starting the site                                                        *)

\* Where the servers and what they carry are the same, so are the verdicts.
SameLoad(x, t) ==
  /\ DOMAIN t = Fields /\ t.servers = x.servers /\ t.used = x.used /\ t.capacity = x.capacity
  /\ t.indexed = x.indexed /\ t.attacks = x.attacks /\ t.rules = x.rules

LEMMA SameLoadStarved ==
    ASSUME NEW x, NEW t, Placed(x), Placed(t), SameLoad(x, t), NEW T
    PROVE  StarvedPages(t, T) = StarvedPages(x, T)
<1>1. ActiveBackends(t) = ActiveBackends(x)
  BY DEF SameLoad, ActiveBackends, WithStatus
<1>2. \A i : UsedCapacity(t, i, T) = UsedCapacity(x, i, T)
  BY DEF SameLoad, UsedCapacity
<1>3. SameFleet(x, t, T)
  BY <1>1, <1>2 DEF SameFleet, SameLoad
<1> QED
  BY <1>3, StarvedPlaced

\* A state that nearly has all stays so while growth is stored or blocked.
LEMMA NearlyGrown ==
    ASSUME NEW x, NEW T, Nearly(x, T), NEW t, Grown(x, t)
    PROVE  Nearly(t, T)
<1>1. /\ t.now = x.now /\ t.cursor = x.cursor /\ t.rules = x.rules
      /\ t.firewallDown = x.firewallDown /\ t.ops = x.ops /\ t.servers = x.servers
      /\ t.capacity = x.capacity /\ t.used = x.used /\ t.indexed = x.indexed
      /\ DOMAIN x.conns \subseteq DOMAIN t.conns
      /\ t.site.status = x.site.status /\ t.site.op = x.site.op
  BY DEF Grown, Undisturbed, Calm, SameSite
<1>2. Waits(t, T)
  BY <1>1, WaitsSame DEF Nearly
<1>3. \A i \in WithStatus(t, "draining") : HasLoad(t, i, T)
  BY <1>1, LoadedSame DEF Nearly
<1>4. /\ t.now = T /\ CursorAt(t.cursor, T) /\ t.firewallDown = Denying(t.rules, T)
      /\ t.site.status = "stopping" => t.site.op = SiteStop
      /\ SiteStop \in t.ops <=> t.site.status = "stopping"
  BY <1>1 DEF Nearly
<1>5. t.site.status = "stopping" => DOMAIN t.conns # {}
  BY <1>1 DEF Nearly
<1> HIDE DEF Nearly
<1> QED
  BY <1>2, <1>3, <1>4, <1>5 DEF Nearly

\* The site has just started.
LEMMA StartedNearly ==
    ASSUME NEW x, Settled(x), NEW e, e.type = "SiteStarted", NEW y \in Handled(x, e)
    PROVE  /\ Nearly(y, x.now) /\ SameLoad(x, y) /\ y.backendDown = x.backendDown
<1> DEFINE T == x.now
<1>1. T \in Int /\ Steady(T, x) /\ Current(x, T)
  BY DEF Settled, Sound
<1>2. DOMAIN x = Fields /\ DOMAIN x.site = SiteFields
  BY <1>1, SteadyShape
<1>3. Kept(x, y, {"site"})
  BY <1>2, TypeKeeps
<1>4. x.site.status = "stopped" /\ y.site.status = "running"
  BY <1>2, SiteStep DEF SiteChange
<1>5. /\ y.now = x.now /\ y.cursor = x.cursor /\ y.rules = x.rules
      /\ y.firewallDown = x.firewallDown /\ y.ops = x.ops /\ y.servers = x.servers
      /\ y.capacity = x.capacity /\ y.used = x.used /\ y.indexed = x.indexed
      /\ y.attacks = x.attacks /\ y.backendDown = x.backendDown /\ DOMAIN y = Fields
  BY <1>3 DEF Kept, Fields
<1>6. SameLoad(x, y)
  BY <1>5 DEF SameLoad
<1>7. Waits(y, T)
  BY <1>1, <1>5, WaitsSame DEF Current
<1>8. \A i \in WithStatus(y, "draining") : HasLoad(y, i, T)
  BY <1>1, <1>5, LoadedSame DEF Current
<1>9. /\ y.now = T /\ CursorAt(y.cursor, T) /\ y.firewallDown = Denying(y.rules, T)
      /\ ~(SiteStop \in y.ops) /\ y.site.status # "stopping"
  BY <1>1, <1>4, <1>5 DEF Current
<1>10. Nearly(y, T)
  BY <1>7, <1>8, <1>9 DEF Nearly
<1> QED
  BY <1>5, <1>6, <1>10

LEMMA StartSiteLands ==
    ASSUME NEW x, Settled(x), Running(x), DecideStartSite(x).ok
    PROVE  LET es == DecideStartSite(x).events IN Landed(x, es, ApplyAll(x, es))
<1> DEFINE c == OnCommand(x)
           T == x.now
           u == Draft(x)
           e == [type |-> "SiteStarted", db |-> x.site.db, at |-> T]
           gs == {g \in DOMAIN x.growth : ~x.growth[g].blocked}
           w == Emit(u, <<e>>)
           v == Grow(w, gs, T)
           d == DecideStartSite(x)
<1>1. T \in Int /\ Steady(T, x) /\ Current(x, T) /\ ~x.refused
  BY DEF Settled, Sound
<1>2. Draftlike(u) /\ u.st = x /\ Tracks(c, T, u) /\ Tracked(c, T, u) /\ c.T = T
      /\ u.out = <<>>
  BY DraftTracked
<1>3. e.type = "SiteStarted" /\ e.at = T /\ "seq" \notin DOMAIN e
  OBVIOUS
<1>4. d = Guarded(TRUE, <<>>) \/ d = Rejected \/ d = Drafted(v)
  BY DEF DecideStartSite
<1>5. d.ok
  OBVIOUS
<1>6. IsFiniteSet(gs)
  <2>1. IsFiniteSet(DOMAIN x.growth)
    BY <1>1 DEF Steady, Tables
  <2> QED
    BY <2>1, FS_Subset
<1> HIDE DEF c, u, e, gs, d
<1>7. Timely(c, T, x, e) /\ Still(x, e) /\ e.type \notin ContextTypes
  <2>1. Proper(c.T, x, e)
    BY <1>3 DEF Proper, AlikeTypes, KnownTypes, MigrationTypes, CostTypes
  <2>2. Timely(c, T, x, e)
    BY <1>2, <1>3, <2>1 DEF Timely
  <2> QED
    BY <1>3, <2>2 DEF Still, KeepsMark, ContextTypes
<1>8. Tracks(c, T, w)
  BY <1>1, <1>2, <1>3, <1>7, EmitTracks DEF Fine
<1>9. ~w.st.refused => w.st \in Handled(x, e)
  BY <1>2, <1>3, OneEmitted
<1> HIDE DEF w
<1>10. /\ Tracks(c, T, v)
       /\ ~v.st.refused => ~w.st.refused /\ Grown(w.st, v.st)
  BY <1>1, <1>2, <1>6, <1>8, GrowTracks
<1> HIDE DEF v
<1>11. CASE d = Drafted(v)
  <2>1. ~v.st.refused /\ d.events = v.out
    BY <1>5, <1>11 DEF Drafted, Guarded, Rejected
  <2>2. w.st \in Handled(x, e) /\ Grown(w.st, v.st)
    BY <1>9, <1>10, <2>1
  <2>3. Nearly(w.st, T) /\ SameLoad(x, w.st) /\ w.st.backendDown = x.backendDown
    BY <1>3, <2>2, StartedNearly
  <2>4. Nearly(v.st, T)
    BY <2>2, <2>3, NearlyGrown
  <2>5. SameLoad(x, v.st) /\ v.st.backendDown = x.backendDown
    BY <2>2, <2>3 DEF SameLoad, Grown, Undisturbed, Calm
  <2>6. Placed(x) /\ Placed(v.st)
    BY <1>1, <1>10, <2>1 DEF Tracks, Bears, Steady
  <2>7. StarvedPages(v.st, T) = StarvedPages(x, T)
    BY <2>5, <2>6, SameLoadStarved
  <2>8. v.st.backendDown = (StarvedPages(v.st, T) # {})
    BY <1>1, <2>5, <2>7 DEF Current
  <2>9. Current(v.st, T)
    BY <2>4, <2>8, NearlyCurrent
  <2>10. Tracked(c, T, v)
    BY <1>10, TracksAt
  <2> QED
    BY <2>1, <2>9, <2>10, CommandLands DEF c, d
<1>12. CASE d = Guarded(TRUE, <<>>)
  <2>1. d.events = u.out
    BY <1>2, <1>12 DEF Guarded
  <2>2. ~u.st.refused /\ Current(u.st, T) /\ Tracked(c, T, u)
    BY <1>1, <1>2
  <2>3. Landed(x, u.out, ApplyAll(x, u.out))
    BY <2>2, CommandLands DEF c
  <2> QED
    BY <2>1, <2>3 DEF d
<1>13. d # Rejected
  BY <1>5 DEF Rejected
<1> QED
  BY <1>4, <1>11, <1>12, <1>13
----------------------------------------------------------------------------
(* A new server: AddServer                                                  *)

\* An event that is handled is accepted.
LEMMA Takes ==
    ASSUME NEW x, DOMAIN x = Fields, ~x.refused, NEW e, Handled(x, e) # {}
    PROVE  Apply(x, e) \in Handled(x, e) /\ ~Apply(x, e).refused
<1>1. PICK t : t \in Handled(x, e)
  OBVIOUS
<1>2. Apply(x, e) = t
  BY <1>1, ApplyGives
<1>3. t.refused = x.refused
  BY <1>1, ChangedBy
<1> QED
  BY <1>1, <1>2, <1>3

\* What only moves servers and operations leaves the rest of it.
LEMMA QuietNearly ==
    ASSUME NEW x, Settled(x), NEW t, Quiet(x, t), Waits(t, x.now),
           \A i \in WithStatus(t, "draining") : HasLoad(t, i, x.now),
           SiteStop \in t.ops <=> SiteStop \in x.ops
    PROVE  Nearly(t, x.now)
<1>1. /\ t.now = x.now /\ t.cursor = x.cursor /\ t.conns = x.conns
      /\ t.rules = x.rules /\ t.firewallDown = x.firewallDown
      /\ t.site.status = x.site.status /\ t.site.op = x.site.op
  BY DEF Quiet, SameSite
<1>2. Current(x, x.now)
  BY DEF Settled
<1>3. /\ t.now = x.now /\ CursorAt(t.cursor, x.now)
      /\ t.firewallDown = Denying(t.rules, x.now)
      /\ t.site.status = "stopping" => t.site.op = SiteStop /\ DOMAIN t.conns # {}
      /\ SiteStop \in t.ops <=> t.site.status = "stopping"
  BY <1>1, <1>2 DEF Current
<1> QED
  BY <1>3 DEF Nearly

\* An operation that is not running can start.
LEMMA StartTaken ==
    ASSUME NEW x, Settled(x), Running(x), NEW op, op \notin x.ops
    PROVE  LET y == Apply(x, Start(op)) IN
           /\ y \in Handled(x, Start(op)) /\ ~y.refused /\ Kept(x, y, {"ops"})
           /\ y.ops = x.ops \cup {op}
<1> DEFINE e == Start(op)
<1>1. e.type = "OperationStarted" /\ e.op = op
  BY DEF Start
<1>2. DOMAIN x = Fields /\ ~x.refused
  BY SteadyShape DEF Settled, Sound
<1> HIDE DEF e
<1>3. Handled(x, e) # {}
  BY <1>1, OperationStartedEnabled DEF OperationStartedGuard
<1>4. Apply(x, e) \in Handled(x, e) /\ ~Apply(x, e).refused
  BY <1>2, <1>3, Takes
<1>5. Apply(x, e).ops = OperationStartedOps(x, e) /\ Kept(x, Apply(x, e), {"ops"})
  BY <1>1, <1>2, <1>4, OperationStartedEffect
<1>6. Apply(x, e).ops = x.ops \cup {op}
  BY <1>1, <1>5 DEF OperationStartedOps
<1> QED
  BY <1>4, <1>5, <1>6 DEF e

\* Starting it keeps track of the journal.
LEMMA StartTracked ==
    ASSUME NEW c, c.T \in Int, NEW at \in Int, NEW w, Tracked(c, at, w), w.st.now = c.T,
           NEW op, op # SiteStop
    PROVE  Tracked(c, at, Emit(w, <<Start(op)>>)) /\ Draftlike(Emit(w, <<Start(op)>>))
<1> DEFINE e == Start(op)
<1>1. e.type = "OperationStarted" /\ e.op = op /\ "seq" \notin DOMAIN e
  BY DEF Start
<1> HIDE DEF e
<1>2. Proper(c.T, w.st, e)
  BY <1>1 DEF Proper, AlikeTypes, KnownTypes, OperationTypes, CostTypes
<1>3. Timely(c, at, w.st, e)
  BY <1>1, <1>2 DEF Timely
<1>4. Still(w.st, e) /\ Routine(e)
  BY <1>1 DEF Still, KeepsMark, Routine, ScheduleTypes, OperationTypes
<1>5. Tracked(c, at, Emit(w, <<e>>)) /\ Draftlike(Emit(w, <<e>>))
  BY <1>3, <1>4, EmitTracked
<1> QED
  BY <1>5 DEF e

\* The operation of a server that does not exist is not running.
LEMMA CreateFree ==
    ASSUME NEW x, Owes(x), NEW i, i \notin DOMAIN x.servers
    PROVE  Create(i) \notin x.ops
<1>1. Create(i) \notin Busy(x)
  BY OperationsDiffer DEF Busy, WithStatus
<1>2. x.ops \ {SiteStop} = Busy(x) /\ Create(i) # SiteStop
  BY OperationsDiffer DEF Owes
<1> HIDE DEF Create
<1> QED
  BY <1>1, <1>2

\* What it makes of servers and operations.
Provisioned(x, i) ==
  [type |-> "ServerProvisioningStarted", op |-> Create(i), server |-> i,
   at |-> x.now, ready |-> x.now + Provisioning]
NewServer(x, i) ==
  [status |-> "provisioning", op |-> Create(i), ready |-> x.now + Provisioning,
   activated |-> Never, logs |-> 0, accrued |-> 0, billed |-> 0]

LEMMA PutRow ==
    ASSUME NEW table, NEW k, NEW v, k \notin DOMAIN table, NEW z, z = Put(table, k, v)
    PROVE  /\ DOMAIN z = DOMAIN table \cup {k} /\ z[k] = v
           /\ \A j \in DOMAIN table : z[j] = table[j]
BY DEF Put

NewRow(x, i, t) == t.servers = Put(x.servers, i, NewServer(x, i))

LEMMA NewServerRow ==
    ASSUME NEW x, NEW i, i \notin DOMAIN x.servers, NEW t, NewRow(x, i, t)
    PROVE  /\ DOMAIN t.servers = DOMAIN x.servers \cup {i}
           /\ t.servers[i] = NewServer(x, i)
           /\ \A j \in DOMAIN x.servers : t.servers[j] = x.servers[j]
<1> DEFINE row == NewServer(x, i)
           table == x.servers
           z == t.servers
<1>1. z = Put(table, i, row) /\ i \notin DOMAIN table
  BY DEF NewRow
<1> HIDE DEF row, table, z
<1>2. /\ DOMAIN z = DOMAIN table \cup {i} /\ z[i] = row
      /\ \A j \in DOMAIN table : z[j] = table[j]
  BY <1>1 DEF Put
<1> QED
  BY <1>2 DEF row, table, z

LEMMA WaitsForNew ==
    ASSUME NEW x, NEW T \in Int, x.now = T, Waits(x, T), NEW i, i \notin DOMAIN x.servers,
           NEW t, NewRow(x, i, t), t.ops = x.ops \cup {Create(i)}
    PROVE  /\ Waits(t, T) /\ WithStatus(t, "draining") = WithStatus(x, "draining")
           /\ WithStatus(t, "active") = WithStatus(x, "active")
<1>1. /\ DOMAIN t.servers = DOMAIN x.servers \cup {i}
      /\ t.servers[i] = NewServer(x, i)
      /\ \A j \in DOMAIN x.servers : t.servers[j] = x.servers[j]
  BY NewServerRow
<1>2. /\ t.servers[i].status = "provisioning" /\ t.servers[i].op = Create(i)
      /\ t.servers[i].ready \in Int /\ t.servers[i].ready > T
  BY <1>1, ProvisioningAssumption DEF NewServer
<1> HIDE DEF Create
<1>3. /\ WithStatus(t, "draining") = WithStatus(x, "draining")
      /\ WithStatus(t, "active") = WithStatus(x, "active")
      /\ WithStatus(t, "provisioning") = WithStatus(x, "provisioning") \cup {i}
  BY <1>1, <1>2 DEF WithStatus
<1>4. Owes(x) /\ \A j \in WithStatus(x, "provisioning") : x.servers[j].ready > T
  BY DEF Waits
<1>5. Assigned(t)
  BY <1>1, <1>2, <1>4 DEF Owes, Assigned
<1>6. Busy(t) = Busy(x) \cup {Create(i)}
  BY <1>3 DEF Busy
<1>7. t.ops \ {SiteStop} = Busy(t)
  <2>1. Create(i) # SiteStop /\ x.ops \ {SiteStop} = Busy(x)
    BY <1>4, OperationsDiffer DEF Owes
  <2> HIDE DEF Busy, SiteStop
  <2> QED
    BY <1>6, <2>1
<1>8. \A j \in WithStatus(t, "provisioning") : t.servers[j].ready > T
  BY <1>1, <1>2, <1>3, <1>4 DEF WithStatus
<1> QED
  BY <1>3, <1>5, <1>7, <1>8 DEF Waits, Owes

LEMMA AddServerLands ==
    ASSUME NEW x, Settled(x), Running(x), NEW i \in Servers, DecideAddServer(x, i).ok
    PROVE  LET es == DecideAddServer(x, i).events IN Landed(x, es, ApplyAll(x, es))
<1> DEFINE c == OnCommand(x)
           T == x.now
           u == Draft(x)
           a == Start(Create(i))
           b == Provisioned(x, i)
           v == Emit(u, <<a>>)
           w == Emit(v, <<b>>)
           d == DecideAddServer(x, i)
<1>1. T \in Int /\ Steady(T, x) /\ Current(x, T) /\ ~x.refused /\ Waits(x, T) /\ Owes(x)
  BY DEF Settled, Sound, Current, Waits
<1>2. Draftlike(u) /\ u.st = x /\ Tracked(c, T, u) /\ c.T = T
  BY DraftTracked
<1>3. d = Guarded(i \notin DOMAIN x.servers, <<a, b>>)
  BY DEF DecideAddServer, Provisioned
<1>4. d.ok
  OBVIOUS
<1>0. /\ b.type = "ServerProvisioningStarted" /\ b.at = T /\ "seq" \notin DOMAIN b
      /\ b.server = i /\ b.op = Create(i) /\ b.ready = T + Provisioning
  BY DEF Provisioned
<1> HIDE DEF c, u, b, d
<1>5. i \notin DOMAIN x.servers /\ d.events = <<a, b>>
  BY <1>3, <1>4 DEF Guarded, Rejected
<1>6. Create(i) \notin x.ops
  BY <1>1, <1>5, CreateFree
<1>7. DOMAIN x = Fields /\ DOMAIN x.site = SiteFields
  BY <1>1, SteadyShape
<1> DEFINE y == Apply(x, a)
           t == Apply(y, b)
<1>8. y \in Handled(x, a) /\ ~y.refused /\ Kept(x, y, {"ops"}) /\ y.ops = x.ops \cup {Create(i)}
  BY <1>6, StartTaken
<1>9. a.type = "OperationStarted" /\ Create(i) # SiteStop
  BY OperationsDiffer DEF Start
<1> HIDE DEF y
<1>10. DOMAIN y = Fields /\ Running(y) /\ y.servers = x.servers /\ y.now = T
  BY <1>8 DEF Kept, Fields, Running
<1>11. Handled(y, b) # {}
  <2>1. T <= T + Provisioning
    BY <1>1, ProvisioningAssumption
  <2> QED
    BY <1>0, <1>5, <1>10, <2>1, ServerProvisioningStartedEnabled
       DEF ServerProvisioningStartedGuard
<1>12. t \in Handled(y, b) /\ ~t.refused
  BY <1>8, <1>10, <1>11, Takes
<1>13. /\ t.servers = Put(x.servers, i, NewServer(x, i)) /\ Kept(y, t, {"servers"})
  <2>1. t.servers = ServerProvisioningStartedServers(y, b) /\ Kept(y, t, {"servers"})
    BY <1>0, <1>10, <1>12, ServerProvisioningStartedEffect
  <2>2. ServerProvisioningStartedServers(y, b) = Put(x.servers, i, NewServer(x, i))
    BY <1>0, <1>10 DEF ServerProvisioningStartedServers, NewServer
  <2> QED
    BY <2>1, <2>2
<1> HIDE DEF a, t
<1>14. /\ Tracked(c, T, v) /\ Draftlike(v)
  BY <1>1, <1>2, <1>9, StartTracked DEF a
<1>15. v.st = y
  BY <1>2, OneEmitted DEF y
<1> HIDE DEF v
<1>16. Timely(c, T, y, b) /\ Still(y, b) /\ Routine(b)
  <2>1. Proper(c.T, y, b)
    BY <1>0 DEF Proper, AlikeTypes, KnownTypes, ServerTypes, CostTypes
  <2>2. Timely(c, T, y, b)
    BY <1>0, <1>2, <1>10, <2>1 DEF Timely
  <2> QED
    BY <1>0, <2>2 DEF Still, KeepsMark, Routine, ScheduleTypes, OperationTypes
<1>17. Tracked(c, T, w)
  BY <1>1, <1>2, <1>14, <1>15, <1>16, EmitTracked
<1>18. w.st = t
  BY <1>14, <1>15, OneEmitted DEF t
<1>19. Emit(u, <<a, b>>) = w
  BY <1>2, EmitTwo DEF v
<1> HIDE DEF w
<1>20. Quiet(x, t)
  <2>1. a.type \in QuietTypes /\ b.type \in QuietTypes
    BY <1>0, <1>9 DEF QuietTypes, a
  <2>2. Quiet(x, y) /\ DOMAIN y.site = SiteFields
    BY <1>7, <1>8, <2>1, QuietStep
  <2>3. Quiet(y, t)
    BY <1>10, <1>12, <2>1, <2>2, QuietStep
  <2> QED
    BY <2>2, <2>3, QuietOn
<1>21. t.ops = x.ops \cup {Create(i)} /\ t.attacks = x.attacks /\ t.backendDown = x.backendDown
  BY <1>8, <1>13 DEF Kept, Fields
<1>22. /\ Waits(t, T) /\ WithStatus(t, "draining") = WithStatus(x, "draining")
       /\ WithStatus(t, "active") = WithStatus(x, "active")
  <2>1. NewRow(x, i, t)
    BY <1>13 DEF NewRow
  <2> QED
    BY <1>1, <1>5, <1>21, <2>1, WaitsForNew
<1>23. \A j, p : UsedCapacity(t, j, p) = UsedCapacity(x, j, p)
  BY <1>20 DEF Quiet, UsedCapacity
<1>24. \A j \in WithStatus(t, "draining") : HasLoad(t, j, T)
  BY <1>1, <1>22, <1>23 DEF Current, HasLoad
<1>25. Nearly(t, T)
  <2>1. SiteStop \in t.ops <=> SiteStop \in x.ops
    BY <1>9, <1>21
  <2> QED
    BY <1>20, <1>22, <1>24, <2>1, QuietNearly
<1>26. StarvedPages(t, T) = StarvedPages(x, T)
  <2>1. Placed(x) /\ Placed(t)
    BY <1>1, <1>12, <1>17, <1>18 DEF Tracked, Tracks, Bears, Steady
  <2>2. ActiveBackends(t) = ActiveBackends(x)
    BY <1>22 DEF ActiveBackends
  <2>3. \A j \in DOMAIN x.servers : t.servers[j] = x.servers[j]
    BY <1>5, <1>13, NewServerRow DEF NewRow
  <2>4. \A j \in ActiveBackends(x) : t.servers[j].logs = x.servers[j].logs
    BY <2>3 DEF ActiveBackends, WithStatus
  <2>5. t.rules = x.rules
    BY <1>20 DEF Quiet
  <2>6. SameFleet(x, t, T)
    BY <1>21, <1>23, <2>2, <2>4, <2>5 DEF SameFleet
  <2> QED
    BY <2>1, <2>6, StarvedPlaced
<1>27. t.backendDown = (StarvedPages(t, T) # {})
  BY <1>1, <1>21, <1>26 DEF Current
<1>28. Current(t, T)
  BY <1>25, <1>27, NearlyCurrent
<1>29. Listed(<<a, b>>)
  BY ListedLiterals
<1> DEFINE es == <<a, b>>
<1> HIDE DEF es
<1>30. /\ Listed(es) /\ Emit(u, es) = w /\ d.events = es
  BY <1>5, <1>19, <1>29 DEF es
<1>31. Landed(x, es, ApplyAll(x, es))
  BY <1>12, <1>17, <1>18, <1>28, <1>30, PlainLands DEF c, u
<1> QED
  BY <1>30, <1>31 DEF d
----------------------------------------------------------------------------
(* A server is drained, and leaves at once if it serves nothing: RemoveServer *)

\* What an event of a steady state leads to.
LEMMA EmitStep ==
    ASSUME NEW c, c.T \in Int, NEW at \in Int, NEW w, Tracked(c, at, w), w.st.now = c.T,
           NEW e, e.type # "TimeAdvanced",
           Timely(c, at, w.st, e) /\ Still(w.st, e) /\ Routine(e)
    PROVE  /\ Tracked(c, at, Emit(w, <<e>>)) /\ Draftlike(Emit(w, <<e>>))
           /\ Emit(w, <<e>>).st.now = c.T /\ Emit(w, <<e>>).st = Apply(w.st, e)
           /\ ~Emit(w, <<e>>).st.refused =>
                ~w.st.refused /\ Emit(w, <<e>>).st \in Handled(w.st, e)
<1>1. Draftlike(w)
  BY DEF Tracked, Tracks, Bears
<1>2. Tracked(c, at, Emit(w, <<e>>)) /\ Draftlike(Emit(w, <<e>>))
  BY EmitTracked
<1> QED
  BY <1>1, <1>2, OneEmitted

\* An operation succeeds.
LEMMA SucceedTracked ==
    ASSUME NEW c, c.T \in Int, NEW at \in Int, NEW w, Tracked(c, at, w), w.st.now = c.T,
           NEW op, op # SiteStop, NEW T, T = c.T
    PROVE  LET v == Emit(w, <<Succeed(op, T)>>) IN
           /\ Tracked(c, at, v) /\ Draftlike(v) /\ v.st.now = c.T
           /\ ~v.st.refused => /\ ~w.st.refused /\ Kept(w.st, v.st, {"ops"})
                               /\ v.st.ops = w.st.ops \ {op}
                               /\ Quiet(w.st, v.st) /\ DOMAIN v.st.site = SiteFields
<1> DEFINE e == Succeed(op, T)
           v == Emit(w, <<e>>)
<1>1. e.type = "OperationSucceeded" /\ e.op = op /\ "seq" \notin DOMAIN e
  BY DEF Succeed
<1> HIDE DEF e
<1>2. Timely(c, at, w.st, e)
  <2>1. Proper(c.T, w.st, e)
    BY <1>1 DEF Proper, AlikeTypes, KnownTypes, OperationTypes, CostTypes
  <2> QED
    BY <1>1, <2>1 DEF Timely
<1>3. Still(w.st, e) /\ Routine(e)
  BY <1>1 DEF Still, KeepsMark, Routine, ScheduleTypes, OperationTypes
<1>4. /\ Tracked(c, at, v) /\ Draftlike(v) /\ v.st.now = c.T
      /\ ~v.st.refused => ~w.st.refused /\ v.st \in Handled(w.st, e)
  BY <1>1, <1>2, <1>3, EmitStep
<1> HIDE DEF v
<1>5. ASSUME ~v.st.refused
      PROVE  /\ ~w.st.refused /\ Kept(w.st, v.st, {"ops"}) /\ v.st.ops = w.st.ops \ {op}
             /\ Quiet(w.st, v.st) /\ DOMAIN v.st.site = SiteFields
  <2>1. DOMAIN w.st = Fields /\ DOMAIN w.st.site = SiteFields
    <3>1. Steady(At(c, w.st).T, w.st)
      BY <1>4, <1>5 DEF Tracked, Tracks, Bears
    <3> QED
      BY <3>1 DEF Steady, Tables, Placed
  <2>2. v.st.ops = OperationSucceededOps(w.st, e) /\ Kept(w.st, v.st, {"ops"})
    BY <1>1, <1>4, <1>5, <2>1, OperationSucceededEffect
  <2>3. Quiet(w.st, v.st) /\ DOMAIN v.st.site = SiteFields
    BY <1>1, <1>4, <1>5, <2>1, QuietStep DEF QuietTypes
  <2> QED
    BY <1>1, <1>4, <1>5, <2>2, <2>3 DEF OperationSucceededOps
<1> QED
  BY <1>4, <1>5 DEF v, e

\* The operation that drains a server that is not draining is not running.
LEMMA DeleteFree ==
    ASSUME NEW x, Owes(x), NEW i \in WithStatus(x, "active")
    PROVE  Delete(i) \notin x.ops
<1>1. Delete(i) \notin Busy(x)
  BY OperationsDiffer DEF Busy, WithStatus
<1>2. x.ops \ {SiteStop} = Busy(x) /\ Delete(i) # SiteStop
  BY OperationsDiffer DEF Owes
<1> HIDE DEF Delete
<1> QED
  BY <1>1, <1>2

\* Server i of x is draining in t, and nothing else has changed.
Draining(x, i) ==
  [type |-> "ServerDrainingStarted", op |-> Delete(i), server |-> i, at |-> x.now]
DrainedTo(x, i, t) ==
  /\ Quiet(x, t) /\ DOMAIN t.site = SiteFields
  /\ DOMAIN t.servers = DOMAIN x.servers
  /\ t.servers[i].status = "draining" /\ t.servers[i].op = Delete(i)
  /\ \A j \in DOMAIN x.servers \ {i} : t.servers[j] = x.servers[j]
  /\ t.ops = x.ops \cup {Delete(i)}

LEMMA DrainEffect ==
    ASSUME NEW x, DOMAIN x = Fields, Rows(x.servers, ServerFields), NEW e,
           e.type = "ServerDrainingStarted", NEW t \in Handled(x, e)
    PROVE  /\ e.server \in DOMAIN x.servers /\ DOMAIN t.servers = DOMAIN x.servers
           /\ t.servers[e.server].status = "draining" /\ t.servers[e.server].op = e.op
           /\ \A j \in DOMAIN x.servers \ {e.server} : t.servers[j] = x.servers[j]
           /\ t.ops = x.ops
<1>1. /\ ServerDrainingStartedGuard(x, e) /\ t.servers = ServerDrainingStartedServers(x, e)
      /\ Kept(x, t, {"servers"})
  BY ServerDrainingStartedEffect
<1>2. e.server \in DOMAIN x.servers
  BY <1>1 DEF ServerDrainingStartedGuard, WithStatus
<1>3. t.ops = x.ops
  BY <1>1 DEF Kept, Fields
<1>4. {"status", "op"} \subseteq DOMAIN x.servers[e.server]
  BY <1>2 DEF Rows, ServerFields
<1> DEFINE table == x.servers
           z == t.servers
           k == e.server
           o == e.op
<1>5. z = [table EXCEPT ![k].status = "draining", ![k].op = o]
  BY <1>1 DEF ServerDrainingStartedServers
<1>6. k \in DOMAIN table /\ {"status", "op"} \subseteq DOMAIN table[k]
  BY <1>2, <1>4
<1> HIDE DEF table, z, k, o
<1>7. /\ DOMAIN z = DOMAIN table
      /\ \A j \in DOMAIN table \ {k} : z[j] = table[j]
      /\ z[k].status = "draining" /\ z[k].op = o
  BY <1>5, <1>6
<1> QED
  BY <1>2, <1>3, <1>7 DEF table, z, k, o

LEMMA DrainTracked ==
    ASSUME NEW x, Settled(x), Running(x), NEW i \in WithStatus(x, "active")
    PROVE  LET w == Emit(Draft(x), <<Start(Delete(i)), Draining(x, i)>>) IN
           /\ Tracked(OnCommand(x), x.now, w) /\ Draftlike(w) /\ w.st.now = x.now
           /\ ~w.st.refused => DrainedTo(x, i, w.st)
<1> DEFINE c == OnCommand(x)
           T == x.now
           u == Draft(x)
           a == Start(Delete(i))
           b == Draining(x, i)
           v == Emit(u, <<a>>)
           w == Emit(v, <<b>>)
           y == Apply(x, a)
<1>1. T \in Int /\ Steady(T, x) /\ Owes(x)
  BY DEF Settled, Sound, Current, Waits
<1>2. Draftlike(u) /\ u.st = x /\ Tracked(c, T, u) /\ c.T = T
  BY DraftTracked
<1>0. /\ b.type = "ServerDrainingStarted" /\ b.at = T /\ "seq" \notin DOMAIN b
      /\ b.server = i /\ b.op = Delete(i)
  BY DEF Draining
<1> HIDE DEF c, u, b
<1>3. DOMAIN x = Fields /\ DOMAIN x.site = SiteFields
  BY <1>1, SteadyShape
<1>4. y \in Handled(x, a) /\ ~y.refused /\ Kept(x, y, {"ops"}) /\ y.ops = x.ops \cup {Delete(i)}
  BY <1>1, DeleteFree, StartTaken
<1>5. a.type = "OperationStarted" /\ Delete(i) # SiteStop
  BY OperationsDiffer DEF Start
<1>6. /\ Tracked(c, T, v) /\ Draftlike(v)
  BY <1>1, <1>2, <1>5, StartTracked
<1> HIDE DEF y
<1>7. v.st = y
  BY <1>2, OneEmitted DEF y
<1>8. Emit(u, <<a, b>>) = w
  BY <1>2, EmitTwo
<1> HIDE DEF a, v
<1>9. y.now = T /\ y.servers = x.servers
  BY <1>4 DEF Kept, Fields
<1>10. Timely(c, T, y, b) /\ Still(y, b) /\ Routine(b)
  <2>1. Proper(c.T, y, b)
    BY <1>0 DEF Proper, AlikeTypes, KnownTypes, ServerTypes, CostTypes
  <2>2. Timely(c, T, y, b)
    BY <1>0, <1>2, <1>9, <2>1 DEF Timely
  <2> QED
    BY <1>0, <2>2 DEF Still, KeepsMark, Routine, ScheduleTypes, OperationTypes
<1>11. /\ Tracked(c, T, w) /\ Draftlike(w) /\ w.st.now = c.T
       /\ ~w.st.refused => w.st \in Handled(y, b)
  BY <1>0, <1>1, <1>2, <1>6, <1>7, <1>9, <1>10, EmitStep
<1> HIDE DEF w
<1>12. ASSUME ~w.st.refused
       PROVE  DrainedTo(x, i, w.st)
  <2> DEFINE t == w.st
  <2>1. t \in Handled(y, b)
    BY <1>11, <1>12
  <2>2. DOMAIN y = Fields /\ Rows(y.servers, ServerFields)
    <3>1. Rows(x.servers, ServerFields)
      BY <1>1, SteadyShape
    <3> QED
      BY <1>4, <1>9, <3>1 DEF Kept
  <2> HIDE DEF t
  <2>3. /\ DOMAIN t.servers = DOMAIN y.servers
        /\ t.servers[i].status = "draining" /\ t.servers[i].op = Delete(i)
        /\ \A j \in DOMAIN y.servers \ {i} : t.servers[j] = y.servers[j]
        /\ t.ops = y.ops
    BY <1>0, <2>1, <2>2, DrainEffect
  <2>4. a.type \in QuietTypes /\ b.type \in QuietTypes
    BY <1>0, <1>5 DEF QuietTypes
  <2>5. Quiet(x, y) /\ DOMAIN y.site = SiteFields
    BY <1>3, <1>4, <2>4, QuietStep
  <2>6. Quiet(y, t) /\ DOMAIN t.site = SiteFields
    BY <2>1, <2>2, <2>4, <2>5, QuietStep
  <2>7. Quiet(x, t)
    BY <2>5, <2>6, QuietOn
  <2>8. DrainedTo(x, i, t)
    BY <1>4, <1>9, <2>3, <2>6, <2>7 DEF DrainedTo
  <2> QED
    BY <2>8 DEF t
<1>13. /\ Tracked(c, T, w) /\ Draftlike(w) /\ w.st.now = x.now
       /\ ~w.st.refused => DrainedTo(x, i, w.st)
  BY <1>2, <1>11, <1>12
<1> QED
  BY <1>8, <1>13 DEF c, u, a, b
\* A server that is draining waits to be deleted ...
LEMMA WaitsDrained ==
    ASSUME NEW x, NEW T \in Int, Waits(x, T), NEW i \in WithStatus(x, "active"), NEW t,
           DrainedTo(x, i, t)
    PROVE  Waits(t, T) /\ WithStatus(t, "draining") = WithStatus(x, "draining") \cup {i}
<1>1. /\ DOMAIN t.servers = DOMAIN x.servers /\ i \in DOMAIN x.servers
      /\ t.servers[i].status = "draining" /\ t.servers[i].op = Delete(i)
      /\ \A j \in DOMAIN x.servers \ {i} : t.servers[j] = x.servers[j]
      /\ t.ops = x.ops \cup {Delete(i)}
  BY DEF DrainedTo, WithStatus
<1>2. Assigned(x) /\ x.ops \ {SiteStop} = Busy(x)
      /\ \A j \in WithStatus(x, "provisioning") : x.servers[j].ready > T
  BY DEF Waits, Owes
<1>3. Delete(i) # SiteStop
  BY OperationsDiffer
<1> HIDE DEF Delete
<1>4. /\ WithStatus(t, "draining") = WithStatus(x, "draining") \cup {i}
      /\ WithStatus(t, "provisioning") = WithStatus(x, "provisioning")
  BY <1>1 DEF WithStatus
<1>5. Assigned(t)
  BY <1>1, <1>2 DEF Assigned
<1>6. Busy(t) = Busy(x) \cup {Delete(i)}
  BY <1>4 DEF Busy
<1>7. t.ops \ {SiteStop} = Busy(t)
  BY <1>1, <1>2, <1>3, <1>6
<1>8. \A j \in WithStatus(t, "provisioning") : t.servers[j].ready > T
  BY <1>1, <1>2, <1>4 DEF WithStatus
<1> QED
  BY <1>4, <1>5, <1>7, <1>8 DEF Waits, Owes

\* ... and one that has left waits for nothing.
LEMMA WaitsLeft ==
    ASSUME NEW x, NEW T \in Int, Waits(x, T), NEW i \in WithStatus(x, "active"), NEW t,
           DOMAIN t.servers = DOMAIN x.servers \ {i},
           \A j \in DOMAIN t.servers : t.servers[j] = x.servers[j], t.ops = x.ops
    PROVE  Waits(t, T) /\ WithStatus(t, "draining") = WithStatus(x, "draining")
<1>1. /\ WithStatus(t, "draining") = WithStatus(x, "draining")
      /\ WithStatus(t, "provisioning") = WithStatus(x, "provisioning")
  BY DEF WithStatus
<1>2. Busy(t) = Busy(x)
  BY <1>1 DEF Busy
<1>3. \A j \in WithStatus(t, "provisioning") : t.servers[j].ready > T
  BY <1>1 DEF Waits, WithStatus
<1>4. Assigned(t)
  BY DEF Waits, Owes, Assigned
<1> QED
  BY <1>1, <1>2, <1>3, <1>4 DEF Waits, Owes

\* A server that has drained in t, and leaves.
LEMMA DrainedLeaves ==
    ASSUME NEW c, c.T \in Int, NEW at \in Int, NEW w, Tracked(c, at, w), w.st.now = c.T,
           NEW i, NEW T, T = c.T
    PROVE  LET v == Emit(w, Leave(w.st, i, T) \o <<Succeed(Delete(i), T)>>) IN
           /\ Tracked(c, at, v) /\ v.st.now = c.T
           /\ ~v.st.refused => /\ ~w.st.refused /\ Quiet(w.st, v.st)
                               /\ DOMAIN v.st.servers = DOMAIN w.st.servers \ {i}
                               /\ \A j \in DOMAIN v.st.servers :
                                    v.st.servers[j] = w.st.servers[j]
                               /\ v.st.ops = w.st.ops \ {Delete(i)}
<1> DEFINE p == Leave(w.st, i, T)
           q == <<Succeed(Delete(i), T)>>
           u == Emit(w, p)
           v == Emit(u, q)
<1>1. Listed(p) /\ Listed(q)
  BY LeaveIs, ListedLiterals
<1>2. Draftlike(w)
  BY DEF Tracked, Tracks, Bears
<1>3. Delete(i) # SiteStop
  BY OperationsDiffer
<1>4. /\ Tracked(c, at, u) /\ u.st.now = c.T
      /\ ~u.st.refused => ~w.st.refused /\ Gone(w.st, {i}, u.st)
  BY LeaveTracked
<1> HIDE DEF p, u
<1>5. /\ Tracked(c, at, v) /\ v.st.now = c.T
      /\ ~v.st.refused => /\ ~u.st.refused /\ Kept(u.st, v.st, {"ops"})
                          /\ v.st.ops = u.st.ops \ {Delete(i)} /\ Quiet(u.st, v.st)
  BY <1>3, <1>4, SucceedTracked
<1> HIDE DEF q
<1>6. Emit(w, p \o q) = v
  BY <1>1, <1>2, EmitAppend DEF u
<1> HIDE DEF v
<1>7. ASSUME ~v.st.refused
      PROVE  /\ ~w.st.refused /\ Quiet(w.st, v.st)
             /\ DOMAIN v.st.servers = DOMAIN w.st.servers \ {i}
             /\ \A j \in DOMAIN v.st.servers : v.st.servers[j] = w.st.servers[j]
             /\ v.st.ops = w.st.ops \ {Delete(i)}
  <2>1. v.st.servers = u.st.servers /\ v.st.ops = u.st.ops \ {Delete(i)}
    BY <1>5, <1>7 DEF Kept, Fields
  <2>2. Gone(w.st, {i}, u.st) /\ Quiet(u.st, v.st) /\ ~w.st.refused
    BY <1>4, <1>5, <1>7
  <2> QED
    BY <2>1, <2>2, QuietOn DEF Gone
<1> QED
  BY <1>5, <1>6, <1>7 DEF p, q

LEMMA RemoveServerLands ==
    ASSUME NEW x, Settled(x), Running(x), NEW i, DecideRemoveServer(x, i).ok
    PROVE  LET es == DecideRemoveServer(x, i).events IN Landed(x, es, ApplyAll(x, es))
<1> DEFINE c == OnCommand(x)
           T == x.now
           w == Emit(Draft(x), <<Start(Delete(i)), Draining(x, i)>>)
           v == LeaveIfIdle(w, i, T)
           d == DecideRemoveServer(x, i)
           left == Drafted(RecordBackends(v, T))
<1>1. d = Rejected \/ (i \in WithStatus(x, "active") /\ d = left)
  BY DEF DecideRemoveServer, Draining
<1>2. T \in Int /\ Waits(x, T) /\ c.T = T
      /\ \A j \in WithStatus(x, "draining") : HasLoad(x, j, T)
  <2>1. T \in Int /\ Waits(x, T) /\ \A j \in WithStatus(x, "draining") : HasLoad(x, j, T)
    BY DEF Settled, Current
  <2>2. c.T = T
    BY DraftTracked
  <2> QED
    BY <2>1, <2>2
<1>3. d.ok
  OBVIOUS
<1> HIDE DEF d, left
<1>4. d # Rejected
  BY <1>3 DEF Rejected
<1>5. i \in WithStatus(x, "active") /\ d = left
  BY <1>1, <1>4
<1>6. /\ Tracked(c, T, w) /\ Draftlike(w) /\ w.st.now = T
      /\ ~w.st.refused => DrainedTo(x, i, w.st)
  BY <1>5, DrainTracked
<1> DEFINE z == Emit(w, Leave(w.st, i, T) \o <<Succeed(Delete(i), T)>>)
<1>7. (v = w /\ HasLoad(w.st, i, T)) \/ v = z
  BY DEF LeaveIfIdle
<1> HIDE DEF c, w
<1>8. /\ Tracked(c, T, z) /\ z.st.now = T
      /\ ~z.st.refused => /\ ~w.st.refused /\ Quiet(w.st, z.st)
                          /\ DOMAIN z.st.servers = DOMAIN w.st.servers \ {i}
                          /\ \A j \in DOMAIN z.st.servers : z.st.servers[j] = w.st.servers[j]
                          /\ z.st.ops = w.st.ops \ {Delete(i)}
  BY <1>2, <1>6, DrainedLeaves
<1> HIDE DEF v, z
<1>9. Delete(i) # SiteStop /\ Delete(i) \notin x.ops
  BY <1>2, <1>5, DeleteFree, OperationsDiffer DEF Waits
<1>10. ASSUME v = w, HasLoad(w.st, i, T), ~v.st.refused
       PROVE  Nearly(v.st, T)
  <2> DEFINE t == w.st
  <2>1. DrainedTo(x, i, t)
    BY <1>6, <1>10
  <2> HIDE DEF t
  <2>2. Waits(t, T) /\ WithStatus(t, "draining") = WithStatus(x, "draining") \cup {i}
    BY <1>2, <1>5, <2>1, WaitsDrained
  <2>3. Quiet(x, t) /\ (SiteStop \in t.ops <=> SiteStop \in x.ops)
    BY <1>9, <2>1 DEF DrainedTo
  <2>4. \A j, p : UsedCapacity(t, j, p) = UsedCapacity(x, j, p)
    BY <2>3 DEF Quiet, UsedCapacity
  <2>5. HasLoad(t, i, T)
    BY <1>10 DEF t
  <2>6. \A j \in WithStatus(t, "draining") : HasLoad(t, j, T)
    BY <1>2, <2>2, <2>4, <2>5 DEF HasLoad
  <2>7. Nearly(t, T)
    BY <2>2, <2>3, <2>6, QuietNearly
  <2> QED
    BY <1>10, <2>7 DEF t
<1>11. ASSUME v = z, ~v.st.refused
       PROVE  Nearly(v.st, T)
  <2> DEFINE t == z.st
             y == w.st
  <2>1. /\ Quiet(y, t) /\ DOMAIN t.servers = DOMAIN y.servers \ {i}
        /\ \A j \in DOMAIN t.servers : t.servers[j] = y.servers[j]
        /\ t.ops = y.ops \ {Delete(i)} /\ DrainedTo(x, i, y)
    BY <1>6, <1>8, <1>11
  <2> HIDE DEF t, y
  <2>2. /\ DOMAIN t.servers = DOMAIN x.servers \ {i}
        /\ \A j \in DOMAIN t.servers : t.servers[j] = x.servers[j]
    BY <2>1 DEF DrainedTo
  <2>3. t.ops = x.ops
    BY <1>9, <2>1 DEF DrainedTo
  <2>4. Quiet(x, t)
    BY <2>1, QuietOn DEF DrainedTo
  <2>5. Waits(t, T) /\ WithStatus(t, "draining") = WithStatus(x, "draining")
    BY <1>2, <1>5, <2>2, <2>3, WaitsLeft
  <2>6. \A j, p : UsedCapacity(t, j, p) = UsedCapacity(x, j, p)
    BY <2>4 DEF Quiet, UsedCapacity
  <2>7. \A j \in WithStatus(t, "draining") : HasLoad(t, j, T)
    BY <1>2, <2>5, <2>6 DEF HasLoad
  <2>8. Nearly(t, T)
    BY <2>3, <2>4, <2>5, <2>7, QuietNearly
  <2> QED
    BY <1>11, <2>8 DEF t
<1>12. Tracked(c, T, v) /\ v.st.now = T /\ (~v.st.refused => Nearly(v.st, T))
  BY <1>6, <1>7, <1>8, <1>10, <1>11
<1>13. d = Drafted(RecordBackends(v, T))
  BY <1>5 DEF left
<1>14. Landed(x, d.events, ApplyAll(x, d.events))
  BY <1>3, <1>12, <1>13, RecordLands DEF c
<1> QED
  BY <1>14 DEF d
----------------------------------------------------------------------------
(* Commands that are over at once: CreateDatabase, Backup, Restore          *)

\* An event that can be applied.
LEMMA EmitGoes ==
    ASSUME NEW c, c.T \in Int, NEW at \in Int, NEW w, Tracked(c, at, w), w.st.now = c.T,
           ~w.st.refused, NEW e, e.type # "TimeAdvanced",
           Timely(c, at, w.st, e) /\ Still(w.st, e) /\ Routine(e), Handled(w.st, e) # {}
    PROVE  LET v == Emit(w, <<e>>) IN
           /\ Tracked(c, at, v) /\ Draftlike(v) /\ v.st.now = c.T
           /\ ~v.st.refused /\ v.st \in Handled(w.st, e)
<1> DEFINE v == Emit(w, <<e>>)
<1>1. Tracked(c, at, v) /\ Draftlike(v) /\ v.st.now = c.T /\ v.st = Apply(w.st, e)
  BY EmitStep
<1>2. DOMAIN w.st = Fields
  BY DEF Tracked, Tracks, Bears, Draftlike, Tables
<1> HIDE DEF v
<1>3. v.st \in Handled(w.st, e) /\ ~v.st.refused
  BY <1>1, <1>2, Takes
<1> QED
  BY <1>1, <1>3 DEF v

LEMMA EmitFour ==
    ASSUME NEW w, Draftlike(w), NEW a, NEW b, NEW c, NEW d
    PROVE  Emit(w, <<a, b, c, d>>)
             = Emit(Emit(Emit(Emit(w, <<a>>), <<b>>), <<c>>), <<d>>)
<1>1. <<a, b, c, d>> = <<a, b>> \o <<c, d>>
  OBVIOUS
<1>2. Emit(w, <<a, b>> \o <<c, d>>) = Emit(Emit(w, <<a, b>>), <<c, d>>)
  BY ListedLiterals, EmitAppend
<1>3. Emit(w, <<a, b>>) = Emit(Emit(w, <<a>>), <<b>>)
  BY EmitTwo
<1>4. Draftlike(Emit(w, <<a, b>>))
  BY ListedLiterals, EmitFields
<1> DEFINE v == Emit(w, <<a, b>>)
<1> HIDE DEF v
<1>5. Emit(v, <<c, d>>) = Emit(Emit(v, <<c>>), <<d>>)
  BY <1>4, EmitTwo DEF v
<1> QED
  BY <1>1, <1>2, <1>3, <1>5 DEF v

\* What changes only databases and backups leaves the rest as it was.
LEMMA KeptCurrent ==
    ASSUME NEW x, Settled(x), NEW w, Tracked(OnCommand(x), x.now, w), ~w.st.refused,
           Kept(x, w.st, {"dbs", "backups", "ops"}), w.st.ops = x.ops
    PROVE  Current(w.st, x.now)
<1> DEFINE t == w.st
           T == x.now
<1>1. T \in Int /\ Steady(T, x) /\ Current(x, T) /\ Waits(x, T)
  BY DEF Settled, Sound, Current
<1>2. Steady(T, t)
  <2>1. OnCommand(x).T = T
    BY DraftTracked
  <2> QED
    BY <2>1, TrackedSteady
<1> HIDE DEF t
<1>3. /\ t.now = x.now /\ t.cursor = x.cursor /\ t.rules = x.rules
      /\ t.firewallDown = x.firewallDown /\ t.backendDown = x.backendDown
      /\ t.servers = x.servers /\ t.capacity = x.capacity /\ t.used = x.used
      /\ t.indexed = x.indexed /\ t.site = x.site /\ t.conns = x.conns
      /\ t.attacks = x.attacks /\ t.ops = x.ops /\ DOMAIN t = Fields
  BY DEF Kept, Fields, t
<1>4. StarvedPages(t, T) = StarvedPages(x, T)
  <2>1. Placed(x) /\ Placed(t)
    BY <1>1, <1>2 DEF Steady
  <2>2. SameLoad(x, t)
    BY <1>3 DEF SameLoad
  <2> QED
    BY <2>1, <2>2, SameLoadStarved
<1>5. Waits(t, T)
  BY <1>1, <1>3, WaitsSame
<1>6. \A i \in WithStatus(t, "draining") : HasLoad(t, i, T)
  <2>1. \A i \in WithStatus(x, "draining") : HasLoad(x, i, T)
    BY <1>1 DEF Current
  <2> QED
    BY <1>3, <2>1, LoadedSame
<1>7. Current(t, T)
  BY <1>1, <1>3, <1>4, <1>5, <1>6 DEF Current
<1> QED
  BY <1>7 DEF t

LEMMA CreateDatabaseLands ==
    ASSUME NEW x, Settled(x), Running(x), NEW i, DecideCreateDatabase(x, i).ok
    PROVE  LET es == DecideCreateDatabase(x, i).events IN Landed(x, es, ApplyAll(x, es))
<1> DEFINE c == OnCommand(x)
           T == x.now
           u == Draft(x)
           e == [type |-> "DatabaseCreated", db |-> i, at |-> T]
           d == DecideCreateDatabase(x, i)
           v == Emit(u, <<e>>)
<1>1. T \in Int
  BY DEF Settled
<1>2. Draftlike(u) /\ u.st = x /\ Tracked(c, T, u) /\ c.T = T
  BY DraftTracked
<1>3. d = Guarded(/\ i \in WithStatus(x, "active") /\ ~Backend(i) /\ i \notin DOMAIN x.dbs
                  /\ FreeDisk(x, i) > 0, <<e>>)
  BY DEF DecideCreateDatabase
<1>4. d.ok
  OBVIOUS
<1>5. e.type = "DatabaseCreated" /\ e.db = i /\ e.at = T /\ "seq" \notin DOMAIN e
  OBVIOUS
<1> HIDE DEF c, u, d, e
<1>6. /\ i \in WithStatus(x, "active") /\ ~Backend(i) /\ i \notin DOMAIN x.dbs
      /\ d.events = <<e>>
  BY <1>3, <1>4 DEF Guarded, Rejected
<1>7. Handled(x, e) # {}
  BY <1>5, <1>6, DatabaseCreatedEnabled DEF DatabaseCreatedGuard
<1>8. Timely(c, T, x, e) /\ Still(x, e) /\ Routine(e)
  <2>1. Proper(c.T, x, e)
    BY <1>5 DEF Proper, AlikeTypes, KnownTypes, DatabaseTypes, CostTypes
  <2>2. Timely(c, T, x, e)
    BY <1>2, <1>5, <2>1 DEF Timely
  <2> QED
    BY <1>5, <2>2 DEF Still, KeepsMark, Routine, ScheduleTypes, OperationTypes
<1>9. /\ Tracked(c, T, v) /\ ~v.st.refused /\ v.st \in Handled(x, e)
  <2>1. ~x.refused
    BY DEF Settled
  <2> QED
    BY <1>1, <1>2, <1>5, <1>7, <1>8, <2>1, EmitGoes
<1> HIDE DEF v
<1>10. Kept(x, v.st, {"dbs"})
  <2>1. DOMAIN x = Fields
    BY SteadyShape DEF Settled, Sound
  <2> QED
    BY <1>5, <1>9, <2>1, DatabaseCreatedEffect
<1>11. Current(v.st, T)
  <2>1. Kept(x, v.st, {"dbs", "backups", "ops"}) /\ v.st.ops = x.ops
    BY <1>10 DEF Kept, Fields
  <2> QED
    BY <1>9, <2>1, KeptCurrent DEF c
<1> DEFINE es == <<e>>
<1>12. Listed(es) /\ v = Emit(u, es) /\ d.events = es
  BY <1>6, ListedLiterals DEF v
<1> HIDE DEF es
<1>13. Landed(x, es, ApplyAll(x, es))
  BY <1>9, <1>11, <1>12, PlainLands DEF c, u
<1> QED
  BY <1>12, <1>13 DEF d
\* An operation that begins and ends within the command.
CopyTypes == {"DatabaseBackupStarted", "DatabaseBackupCompleted", "DatabaseRestoreStarted",
              "DatabaseRestoreCompleted"}
CopyKept == {"dbs", "backups"}

LEMMA CopyStep ==
    ASSUME NEW x, DOMAIN x = Fields, NEW e, e.type \in CopyTypes, NEW t \in Handled(x, e)
    PROVE  Kept(x, t, CopyKept)
<1>1. CASE e.type = "DatabaseBackupStarted"
  <2>1. Kept(x, t, {"backups"})
    BY <1>1, DatabaseBackupStartedEffect
  <2> QED
    BY <2>1 DEF Kept, CopyKept
<1>2. CASE e.type = "DatabaseBackupCompleted"
  <2>1. Kept(x, t, {"backups"})
    BY <1>2, DatabaseBackupCompletedEffect
  <2> QED
    BY <2>1 DEF Kept, CopyKept
<1>3. CASE e.type = "DatabaseRestoreStarted"
  <2>1. Kept(x, t, {"dbs"})
    BY <1>3, DatabaseRestoreStartedEffect
  <2> QED
    BY <2>1 DEF Kept, CopyKept
<1>4. CASE e.type = "DatabaseRestoreCompleted"
  <2>1. Kept(x, t, {"dbs"})
    BY <1>4, DatabaseRestoreCompletedEffect
  <2> QED
    BY <2>1 DEF Kept, CopyKept
<1> QED
  BY <1>1, <1>2, <1>3, <1>4 DEF CopyTypes

\* What the two events of a copy have to be.
Copying(x, e) ==
  /\ e.type \in CopyTypes /\ e.at = x.now /\ "seq" \notin DOMAIN e
  /\ e.type = "DatabaseBackupStarted" => e.backup \in Int
  /\ e.type = "DatabaseRestoreStarted" => (e.db = x.site.db => x.site.status # "running")

LEMMA CopyTimely ==
    ASSUME NEW x, NEW e, Copying(x, e), NEW y, y.now = x.now, y.site = x.site,
           NEW c, c.T = x.now, NEW at
    PROVE  /\ Timely(c, at, y, e) /\ Still(y, e) /\ Routine(e) /\ e.type # "TimeAdvanced"
<1>1. e.type \in CopyTypes /\ "seq" \notin DOMAIN e
      /\ (e.type = "DatabaseBackupStarted" => e.backup \in Int)
      /\ (e.type = "DatabaseRestoreStarted" => (e.db = y.site.db => y.site.status # "running"))
  BY DEF Copying
<1>2. Proper(c.T, y, e)
  BY <1>1 DEF Proper, CopyTypes, AlikeTypes, KnownTypes, MigrationTypes, CostTypes
<1>3. Timely(c, at, y, e)
  BY <1>1, <1>2 DEF Timely, CopyTypes
<1> QED
  BY <1>1, <1>3 DEF Still, KeepsMark, Routine, CopyTypes, ScheduleTypes, OperationTypes

LEMMA CopyLands ==
    ASSUME NEW x, Settled(x), Running(x), NEW op, op \notin x.ops, op # SiteStop,
           NEW a, Copying(x, a), NEW b, Copying(x, b),
           \A y : Kept(x, y, {"ops"}) => Handled(y, a) # {},
           \A y, z : Kept(x, y, {"ops"}) /\ z \in Handled(y, a) => Handled(z, b) # {}
    PROVE  LET es == <<Start(op), a, b, Succeed(op, x.now)>> IN Landed(x, es, ApplyAll(x, es))
<1> DEFINE c == OnCommand(x)
           T == x.now
           u == Draft(x)
           p == Start(op)
           q == Succeed(op, T)
           v1 == Emit(u, <<p>>)
           v2 == Emit(v1, <<a>>)
           v3 == Emit(v2, <<b>>)
           v4 == Emit(v3, <<q>>)
           y == Apply(x, p)
<1>1. T \in Int /\ ~x.refused
  BY DEF Settled
<1>2. Draftlike(u) /\ u.st = x /\ Tracked(c, T, u) /\ c.T = T
  BY DraftTracked
<1>3. DOMAIN x = Fields /\ DOMAIN x.site = SiteFields
  BY SteadyShape DEF Settled, Sound
<1> HIDE DEF c, u
<1>4. y \in Handled(x, p) /\ ~y.refused /\ Kept(x, y, {"ops"}) /\ y.ops = x.ops \cup {op}
  BY StartTaken
<1>5. Tracked(c, T, v1) /\ Draftlike(v1)
  BY <1>1, <1>2, StartTracked
<1> HIDE DEF p, q, y
<1>6. v1.st = y
  BY <1>2, OneEmitted DEF y
<1> HIDE DEF v1
<1>7. y.now = T /\ y.site = x.site /\ DOMAIN y = Fields
  BY <1>4 DEF Kept, Fields
<1>8. /\ Tracked(c, T, v2) /\ Draftlike(v2) /\ v2.st.now = T
      /\ ~v2.st.refused /\ v2.st \in Handled(y, a)
  <2>1. Timely(c, T, y, a) /\ Still(y, a) /\ Routine(a) /\ a.type # "TimeAdvanced"
    BY <1>2, <1>7, CopyTimely
  <2>2. Handled(y, a) # {}
    BY <1>4
  <2> QED
    BY <1>1, <1>2, <1>4, <1>5, <1>6, <1>7, <2>1, <2>2, EmitGoes
<1> HIDE DEF v2
<1>9. Kept(y, v2.st, CopyKept)
  BY <1>7, <1>8, CopyStep DEF Copying
<1>10. v2.st.site = x.site /\ DOMAIN v2.st = Fields
  BY <1>7, <1>9 DEF Kept, Fields, CopyKept
<1>11. /\ Tracked(c, T, v3) /\ Draftlike(v3) /\ v3.st.now = T
       /\ ~v3.st.refused /\ v3.st \in Handled(v2.st, b)
  <2>1. Timely(c, T, v2.st, b) /\ Still(v2.st, b) /\ Routine(b) /\ b.type # "TimeAdvanced"
    BY <1>2, <1>8, <1>10, CopyTimely
  <2>2. Handled(v2.st, b) # {}
    BY <1>4, <1>8
  <2> QED
    BY <1>1, <1>2, <1>8, <2>1, <2>2, EmitGoes
<1> HIDE DEF v3
<1>12. Kept(v2.st, v3.st, CopyKept)
  BY <1>10, <1>11, CopyStep DEF Copying
<1>13. v3.st.ops = x.ops \cup {op} /\ DOMAIN v3.st = Fields
  BY <1>4, <1>9, <1>12 DEF Kept, Fields, CopyKept
<1>14. q.type = "OperationSucceeded" /\ q.op = op /\ q.at = T /\ "seq" \notin DOMAIN q
  BY DEF q, Succeed
<1>15. /\ Tracked(c, T, v4) /\ ~v4.st.refused /\ v4.st \in Handled(v3.st, q)
  <2>1. Proper(c.T, v3.st, q)
    BY <1>14 DEF Proper, AlikeTypes, KnownTypes, OperationTypes, CostTypes
  <2>2. Timely(c, T, v3.st, q)
    BY <1>2, <1>11, <1>14, <2>1 DEF Timely
  <2>3. Still(v3.st, q) /\ Routine(q)
    BY <1>14 DEF Still, KeepsMark, Routine, ScheduleTypes, OperationTypes
  <2>4. Handled(v3.st, q) # {}
    BY <1>11, <1>13, <1>14, OperationSucceededEnabled DEF OperationSucceededGuard
  <2> QED
    BY <1>1, <1>2, <1>11, <1>14, <2>2, <2>3, <2>4, EmitGoes
<1> HIDE DEF v4
<1>16. Kept(v3.st, v4.st, {"ops"}) /\ v4.st.ops = x.ops
  <2>1. /\ Kept(v3.st, v4.st, {"ops"})
        /\ v4.st.ops = OperationSucceededOps(v3.st, q)
    BY <1>13, <1>14, <1>15, OperationSucceededEffect
  <2> QED
    BY <1>13, <1>14, <2>1 DEF OperationSucceededOps
<1>17. Kept(x, v4.st, {"dbs", "backups", "ops"})
  BY <1>4, <1>9, <1>12, <1>16 DEF Kept, Fields, CopyKept
<1>18. Current(v4.st, T)
  BY <1>15, <1>16, <1>17, KeptCurrent DEF c
<1> DEFINE es == <<p, a, b, q>>
<1>19. Listed(es) /\ v4 = Emit(u, es)
  BY <1>2, ListedLiterals, EmitFour DEF v1, v2, v3, v4
<1> HIDE DEF es
<1>20. Landed(x, es, ApplyAll(x, es))
  BY <1>15, <1>18, <1>19, PlainLands DEF c, u
<1> QED
  BY <1>20 DEF es, p, q

\* No server's operation is a copy.
LEMMA CopyFree ==
    ASSUME NEW x, Settled(x), NEW op, op[1] \in {"backup", "restore"}
    PROVE  op \notin x.ops /\ op # SiteStop
<1>1. Owes(x)
  BY DEF Settled, Current, Waits
<1>2. \A i : op # Create(i) /\ op # Delete(i)
  BY DEF Create, Delete
<1>3. op # SiteStop
  BY DEF SiteStop
<1>4. op \notin Busy(x)
  BY <1>2 DEF Busy
<1>5. x.ops \ {SiteStop} = Busy(x)
  BY <1>1 DEF Owes
<1> HIDE DEF SiteStop
<1> QED
  BY <1>3, <1>4, <1>5
LEMMA BackupStartedRow ==
    ASSUME NEW x, DOMAIN x = Fields, NEW e, e.type = "DatabaseBackupStarted",
           NEW t \in Handled(x, e)
    PROVE  /\ e.backup \in DOMAIN t.backups /\ t.backups[e.backup].status = "creating"
           /\ t.backups[e.backup].db = e.db /\ Kept(x, t, {"backups"})
<1>1. t.backups = DatabaseBackupStartedBackups(x, e) /\ Kept(x, t, {"backups"})
  BY DatabaseBackupStartedEffect
<1> DEFINE row == [status |-> "creating", db |-> e.db, data |-> 0, version |-> 0,
                   rate |-> 0, completed |-> Never, billed |-> 0]
           table == x.backups
           z == t.backups
           k == e.backup
<1>2. z = Put(table, k, row)
  BY <1>1 DEF DatabaseBackupStartedBackups
<1>3. row.status = "creating" /\ row.db = e.db
  OBVIOUS
<1> HIDE DEF row, table, z, k
<1>4. k \in DOMAIN z /\ z[k] = row
  BY <1>2 DEF Put
<1> QED
  BY <1>1, <1>3, <1>4 DEF z, k

LEMMA BackupLands ==
    ASSUME NEW x, Settled(x), Running(x), NEW db, NEW n \in Backups, DecideBackup(x, db, n).ok
    PROVE  LET es == DecideBackup(x, db, n).events IN Landed(x, es, ApplyAll(x, es))
<1> DEFINE op == <<"backup", db>>
           T == x.now
           a == [type |-> "DatabaseBackupStarted", backup |-> n, db |-> db, at |-> T]
           b == [type |-> "DatabaseBackupCompleted", backup |-> n, db |-> db, at |-> T,
                 data |-> x.dbs[db].data, version |-> x.dbs[db].version,
                 rate |-> BackupRate(x.dbs[db].data)]
           es == <<Start(op), a, b, Succeed(op, T)>>
           d == DecideBackup(x, db, n)
<1>1. d = Guarded(/\ db \in DOMAIN x.dbs /\ n \notin DOMAIN x.backups
                  /\ db = x.site.db => x.site.status = "stopped", es)
  BY DEF DecideBackup
<1>2. d.ok /\ n \in Int /\ T \in Nat
  BY CommandsAssumption DEF Settled
<1>3. op \notin x.ops /\ op # SiteStop
  BY CopyFree
<1>4. /\ a.type = "DatabaseBackupStarted" /\ a.backup = n /\ a.db = db /\ a.at = T
      /\ "seq" \notin DOMAIN a
  OBVIOUS
<1>5. /\ b.type = "DatabaseBackupCompleted" /\ b.backup = n /\ b.db = db /\ b.at = T
      /\ b.data = x.dbs[db].data /\ b.version = x.dbs[db].version
      /\ b.rate = BackupRate(x.dbs[db].data) /\ "seq" \notin DOMAIN b
  OBVIOUS
<1> HIDE DEF a, b, d, op
<1>6. d.events = es /\ db \in DOMAIN x.dbs /\ n \notin DOMAIN x.backups
  <2> HIDE DEF es
  <2> QED
    BY <1>1, <1>2 DEF Guarded, Rejected
<1>7. Copying(x, a) /\ Copying(x, b)
  BY <1>2, <1>4, <1>5 DEF Copying, CopyTypes
<1>8. ASSUME NEW y, Kept(x, y, {"ops"})
      PROVE  Handled(y, a) # {}
  <2>1. y.dbs = x.dbs /\ y.backups = x.backups /\ y.now = T
    BY <1>8 DEF Kept, Fields
  <2>2. Fact(y, a.at)
    BY <1>2, <1>4, <2>1 DEF Fact
  <2> QED
    BY <1>4, <1>6, <2>1, <2>2, DatabaseBackupStartedEnabled DEF DatabaseBackupStartedGuard
<1>9. ASSUME NEW y, NEW z, Kept(x, y, {"ops"}) /\ z \in Handled(y, a)
      PROVE  Handled(z, b) # {}
  <2>1. DOMAIN y = Fields /\ y.dbs = x.dbs /\ y.now = T
    BY <1>9 DEF Kept, Fields
  <2>2. /\ n \in DOMAIN z.backups /\ z.backups[n].status = "creating"
        /\ z.backups[n].db = db /\ Kept(y, z, {"backups"})
    BY <1>4, <1>9, <2>1, BackupStartedRow
  <2>3. z.dbs = x.dbs /\ z.now = T
    BY <2>1, <2>2 DEF Kept, Fields
  <2>4. Fact(z, b.at)
    BY <1>2, <1>5, <2>3 DEF Fact
  <2> QED
    BY <1>5, <1>6, <2>2, <2>3, <2>4, DatabaseBackupCompletedEnabled
       DEF DatabaseBackupCompletedGuard
<1>10. Landed(x, es, ApplyAll(x, es))
  BY <1>3, <1>7, <1>8, <1>9, CopyLands
<1> QED
  BY <1>6, <1>10 DEF d

LEMMA RestoreLands ==
    ASSUME NEW x, Settled(x), Running(x), NEW db, NEW n \in Backups, DecideRestore(x, db, n).ok
    PROVE  LET es == DecideRestore(x, db, n).events IN Landed(x, es, ApplyAll(x, es))
<1> DEFINE op == <<"restore", db>>
           T == x.now
           a == [type |-> "DatabaseRestoreStarted", backup |-> n, db |-> db, at |-> T]
           b == [type |-> "DatabaseRestoreCompleted", backup |-> n, db |-> db, at |-> T,
                 data |-> x.backups[n].data, version |-> x.backups[n].version]
           es == <<Start(op), a, b, Succeed(op, T)>>
           d == DecideRestore(x, db, n)
<1>1. d = Guarded(/\ db \in DOMAIN x.dbs /\ n \in DOMAIN x.backups
                  /\ x.backups[n].status = "ready"
                  /\ db = x.site.db => x.site.status = "stopped"
                  /\ Used(x.dbs[db]) = 0
                  /\ x.backups[n].data <= Catalog[db].disk, es)
  BY DEF DecideRestore
<1>2. d.ok /\ T \in Nat
  BY DEF Settled
<1>3. op \notin x.ops /\ op # SiteStop
  BY CopyFree
<1>4. /\ a.type = "DatabaseRestoreStarted" /\ a.backup = n /\ a.db = db /\ a.at = T
      /\ "seq" \notin DOMAIN a
  OBVIOUS
<1>5. /\ b.type = "DatabaseRestoreCompleted" /\ b.backup = n /\ b.db = db /\ b.at = T
      /\ b.data = x.backups[n].data /\ b.version = x.backups[n].version
      /\ "seq" \notin DOMAIN b
  OBVIOUS
<1> HIDE DEF a, b, d, op
<1>6. /\ d.events = es /\ db \in DOMAIN x.dbs /\ n \in DOMAIN x.backups
      /\ x.backups[n].status = "ready" /\ Used(x.dbs[db]) = 0
      /\ db = x.site.db => x.site.status = "stopped"
  <2> HIDE DEF es
  <2> QED
    BY <1>1, <1>2 DEF Guarded, Rejected
<1>7. Copying(x, a) /\ Copying(x, b)
  BY <1>2, <1>4, <1>5, <1>6 DEF Copying, CopyTypes
<1>8. ASSUME NEW y, Kept(x, y, {"ops"})
      PROVE  Handled(y, a) # {}
  <2>1. y.dbs = x.dbs /\ y.backups = x.backups /\ y.now = T
    BY <1>8 DEF Kept, Fields
  <2>2. Fact(y, a.at)
    BY <1>2, <1>4, <2>1 DEF Fact
  <2> QED
    BY <1>4, <1>6, <2>1, <2>2, DatabaseRestoreStartedEnabled DEF DatabaseRestoreStartedGuard
<1>9. ASSUME NEW y, NEW z, Kept(x, y, {"ops"}) /\ z \in Handled(y, a)
      PROVE  Handled(z, b) # {}
  <2>1. DOMAIN y = Fields /\ y.dbs = x.dbs /\ y.backups = x.backups /\ y.now = T
    BY <1>9 DEF Kept, Fields
  <2>2. z.dbs = DatabaseRestoreStartedDbs(y, a) /\ Kept(y, z, {"dbs"})
    BY <1>4, <1>9, <2>1, DatabaseRestoreStartedEffect
  <2>3. z.backups = x.backups /\ z.now = T
    BY <2>1, <2>2 DEF Kept, Fields
  <2>4. db \in DOMAIN z.dbs
    BY <1>4, <1>6, <2>1, <2>2 DEF DatabaseRestoreStartedDbs
  <2>5. Fact(z, b.at)
    BY <1>2, <1>5, <2>3 DEF Fact
  <2> QED
    BY <1>5, <1>6, <2>3, <2>4, <2>5, DatabaseRestoreCompletedEnabled
       DEF DatabaseRestoreCompletedGuard
<1>10. Landed(x, es, ApplyAll(x, es))
  BY <1>3, <1>7, <1>8, <1>9, CopyLands
<1> QED
  BY <1>6, <1>10 DEF d

----------------------------------------------------------------------------
(* The site moves to another database: SetSiteDatabase                      *)

LEMMA SetDatabaseLands ==
    ASSUME NEW x, Settled(x), Running(x), NEW expected, NEW db,
           DecideSetDatabase(x, expected, db).ok
    PROVE  LET es == DecideSetDatabase(x, expected, db).events
           IN  Landed(x, es, ApplyAll(x, es))
<1> DEFINE c == OnCommand(x)
           T == x.now
           u == Draft(x)
           e == [type |-> "SiteDatabaseChanged", previous |-> x.site.db, db |-> db, at |-> T]
           d == DecideSetDatabase(x, expected, db)
           v == Emit(u, <<e>>)
<1>1. T \in Nat /\ Steady(T, x) /\ Current(x, T) /\ Waits(x, T) /\ ~x.refused
  BY DEF Settled, Sound, Current
<1>2. Draftlike(u) /\ u.st = x /\ Tracked(c, T, u) /\ c.T = T
  BY DraftTracked
<1>3. d = Guarded(/\ x.site.status = "stopped" /\ x.site.db = expected
                  /\ db \in DOMAIN x.dbs /\ x.dbs[db].ready
                  /\ x.dbs[db].from = x.site.db
                  /\ x.dbs[db].version >= x.dbs[x.site.db].version, <<e>>)
  BY DEF DecideSetDatabase
<1>4. d.ok
  OBVIOUS
<1>5. /\ e.type = "SiteDatabaseChanged" /\ e.db = db /\ e.previous = x.site.db /\ e.at = T
      /\ "seq" \notin DOMAIN e
  OBVIOUS
<1> HIDE DEF c, u, d, e
<1>6. /\ x.site.status = "stopped" /\ db \in DOMAIN x.dbs /\ x.dbs[db].ready
      /\ d.events = <<e>>
  BY <1>3, <1>4 DEF Guarded, Rejected
<1>7. Handled(x, e) # {}
  <2>1. Fact(x, e.at)
    BY <1>1, <1>5 DEF Fact
  <2> QED
    BY <1>5, <1>6, <2>1, SiteDatabaseChangedEnabled DEF SiteDatabaseChangedGuard
<1>8. Timely(c, T, x, e) /\ Still(x, e) /\ Routine(e)
  <2>1. Proper(c.T, x, e)
    BY <1>5 DEF Proper, AlikeTypes, KnownTypes, MigrationTypes, CostTypes
  <2>2. Timely(c, T, x, e)
    BY <1>2, <1>5, <2>1 DEF Timely
  <2> QED
    BY <1>5, <2>2 DEF Still, KeepsMark, Routine, ScheduleTypes, OperationTypes
<1>9. /\ Tracked(c, T, v) /\ ~v.st.refused /\ v.st \in Handled(x, e)
  BY <1>1, <1>2, <1>5, <1>7, <1>8, EmitGoes
<1> HIDE DEF v
<1>10. Kept(x, v.st, {"site"}) /\ v.st.site = SiteDatabaseChangedSite(x, e)
  <2>1. DOMAIN x = Fields
    BY <1>1, SteadyShape
  <2> QED
    BY <1>5, <1>9, <2>1, SiteDatabaseChangedEffect
<1>11. v.st.site.status = "stopped"
  <2>1. DOMAIN x.site = SiteFields
    BY <1>1, SteadyShape
  <2>2. SiteDatabaseChangedSite(x, e).status = x.site.status
    BY <2>1 DEF SiteDatabaseChangedSite, SiteFields
  <2> QED
    BY <1>6, <1>10, <2>2
<1>12. Current(v.st, T)
  <2> DEFINE t == v.st
  <2>1. /\ t.now = x.now /\ t.cursor = x.cursor /\ t.rules = x.rules
        /\ t.firewallDown = x.firewallDown /\ t.backendDown = x.backendDown
        /\ t.servers = x.servers /\ t.capacity = x.capacity /\ t.used = x.used
        /\ t.indexed = x.indexed /\ t.conns = x.conns
        /\ t.attacks = x.attacks /\ t.ops = x.ops /\ DOMAIN t = Fields
    BY <1>10 DEF Kept, Fields
  <2>2. t.site.status = "stopped"
    BY <1>11
  <2>3. Steady(T, t)
    BY <1>2, <1>9, TrackedSteady
  <2> HIDE DEF t
  <2>4. StarvedPages(t, T) = StarvedPages(x, T)
    <3>1. Placed(x) /\ Placed(t)
      BY <1>1, <2>3 DEF Steady
    <3>2. SameLoad(x, t)
      BY <2>1 DEF SameLoad
    <3> QED
      BY <3>1, <3>2, SameLoadStarved
  <2>5. Waits(t, T)
    BY <1>1, <2>1, WaitsSame
  <2>6. \A i \in WithStatus(t, "draining") : HasLoad(t, i, T)
    <3>1. \A i \in WithStatus(x, "draining") : HasLoad(x, i, T)
      BY <1>1 DEF Current
    <3> QED
      BY <2>1, <3>1, LoadedSame
  <2>7. Current(t, T)
    BY <1>1, <1>6, <2>1, <2>2, <2>4, <2>5, <2>6 DEF Current
  <2> QED
    BY <2>7 DEF t
<1> DEFINE es == <<e>>
<1>13. Listed(es) /\ v = Emit(u, es) /\ d.events = es
  BY <1>6, ListedLiterals DEF v
<1> HIDE DEF es
<1>14. Landed(x, es, ApplyAll(x, es))
  BY <1>9, <1>12, <1>13, PlainLands DEF c, u
<1> QED
  BY <1>13, <1>14 DEF d
----------------------------------------------------------------------------
(* The site stops: StopSite                                                 *)

\* A draft whose stop may have begun without the site, as it does in between.
Borne(c, at, w) ==
  /\ Bears(At(c, w.st), at, w) /\ DOMAIN w = {"st", "out"}
  /\ ~w.st.refused => Marked(w.st)

LEMMA BorneGoes ==
    ASSUME NEW c, c.T \in Int, NEW at \in Int, NEW w, Borne(c, at, w), w.st.now = c.T,
           ~w.st.refused, NEW e, Timely(c, at, w.st, e), KeepsMark(w.st, e),
           e.type \notin ScheduleTypes, "seq" \notin DOMAIN e, Handled(w.st, e) # {}
    PROVE  LET v == Emit(w, <<e>>) IN
           /\ Borne(c, at, v) /\ Draftlike(v) /\ v.st.now = c.T
           /\ ~v.st.refused /\ v.st \in Handled(w.st, e)
<1> DEFINE v == Emit(w, <<e>>)
           d == At(c, w.st)
           f == At(c, v.st)
<1>1. Draftlike(w) /\ DOMAIN w = {"st", "out"} /\ Bears(d, at, w)
  BY DEF Borne, Bears
<1>2. DOMAIN w.st = Fields
  BY <1>1 DEF Draftlike, Tables
<1>3. Proper(c.T, w.st, e) /\ e.type # "TimeAdvanced"
  BY DEF Timely, Proper, AlikeTypes
<1>4. /\ Draftlike(v) /\ v.st = Apply(w.st, e) /\ DOMAIN v = {"st", "out"}
      /\ v.st.now = c.T
  BY <1>1, <1>3, OneEmitted
<1>5. v.st \in Handled(w.st, e) /\ ~v.st.refused
  BY <1>2, <1>4, Takes
<1>6. /\ SameRun(d, f) /\ d.T = c.T /\ Holds(f, v.st)
      /\ d.cursor = w.st.cursor /\ f.cursor = v.st.cursor
  BY AtFields DEF At, SameRun
<1>7. Steady(c.T, w.st) /\ Marked(w.st)
  BY <1>1, <1>6 DEF Bears, Borne
<1> HIDE DEF v, d, f
<1>8. v.st.cursor = w.st.cursor
  BY <1>2, <1>5, ChangedBy DEF ScheduleTypes
<1>9. Occurs(FirstItems(d.cursor), e) = FirstItems(f.cursor)
  BY <1>6, <1>8 DEF Occurs
<1>10. Timely(d, at, w.st, e)
  BY <1>6 DEF Timely
<1>11. Bears(f, at, v)
  <2>1. Holds(f, Apply(w.st, e))
    BY <1>4, <1>6
  <2> QED
    BY <1>1, <1>6, <1>9, <1>10, <2>1, EmitBearsTo DEF v
<1>12. Marked(v.st)
  BY <1>2, <1>3, <1>5, <1>7, MarkedStep DEF Steady
<1> QED
  BY <1>4, <1>5, <1>11, <1>12 DEF Borne, f, v

\* When the site and its stop agree again, the draft tracks the journal.
LEMMA BorneTracked ==
    ASSUME NEW c, c.over = TRUE, NEW at, NEW w, Borne(c, at, w), ~w.st.refused,
           w.st.site.status = "stopping" => w.st.site.op = SiteStop,
           SiteStop \in w.st.ops <=> w.st.site.status = "stopping"
    PROVE  Tracked(c, at, w)
<1> DEFINE d == At(c, w.st)
<1>1. Bears(d, at, w) /\ Marked(w.st) /\ DOMAIN w = {"st", "out"}
  BY DEF Borne
<1>2. d.over = TRUE /\ d.ops = w.st.ops
  BY AtFields
<1> HIDE DEF d
<1>3. Stops(d, w)
  BY <1>2 DEF Stops, StopEnded
<1>4. Tracks(d, at, w)
  BY <1>1, <1>3 DEF Tracks
<1> QED
  BY <1>4 DEF Tracked, d

\* A settled state whose site stops, waits to, or has stopped, is current.
LEMMA StopCurrent ==
    ASSUME NEW x, Settled(x), NEW t, Kept(x, t, {"site", "ops"}), Steady(x.now, t),
           t.ops \ {SiteStop} = x.ops \ {SiteStop},
           t.site.status = "stopping" => t.site.op = SiteStop /\ DOMAIN t.conns # {},
           SiteStop \in t.ops <=> t.site.status = "stopping"
    PROVE  Current(t, x.now)
<1> DEFINE T == x.now
<1>1. T \in Nat /\ Steady(T, x) /\ Current(x, T) /\ Waits(x, T)
  BY DEF Settled, Sound, Current
<1>2. /\ t.now = x.now /\ t.cursor = x.cursor /\ t.rules = x.rules
      /\ t.firewallDown = x.firewallDown /\ t.backendDown = x.backendDown
      /\ t.servers = x.servers /\ t.capacity = x.capacity /\ t.used = x.used
      /\ t.indexed = x.indexed /\ t.conns = x.conns
      /\ t.attacks = x.attacks /\ DOMAIN t = Fields
  BY DEF Kept, Fields
<1>3. StarvedPages(t, T) = StarvedPages(x, T)
  <2>1. Placed(x) /\ Placed(t)
    BY <1>1 DEF Steady
  <2>2. SameLoad(x, t)
    BY <1>2 DEF SameLoad
  <2> QED
    BY <2>1, <2>2, SameLoadStarved
<1>4. Waits(t, T)
  <2>1. Owes(x) /\ \A i \in WithStatus(x, "provisioning") : x.servers[i].ready > T
    BY <1>1 DEF Waits
  <2>2. Owes(t)
    BY <1>2, <2>1, OwesByRoles
  <2>3. WithStatus(t, "provisioning") = WithStatus(x, "provisioning")
    BY <1>2 DEF WithStatus
  <2> QED
    BY <1>2, <2>1, <2>2, <2>3 DEF Waits
<1>5. \A i \in WithStatus(t, "draining") : HasLoad(t, i, T)
  <2>1. \A i \in WithStatus(x, "draining") : HasLoad(x, i, T)
    BY <1>1 DEF Current
  <2> QED
    BY <1>2, <2>1, LoadedSame
<1> QED
  BY <1>1, <1>2, <1>3, <1>4, <1>5 DEF Current
\* The steps a stop takes.
LEMMA StopBegins ==
    ASSUME NEW x, Settled(x), Running(x), SiteStop \notin x.ops
    PROVE  LET v == Emit(Draft(x), <<Start(SiteStop)>>) IN
           /\ Borne(OnCommand(x), x.now, v) /\ Draftlike(v) /\ v.st.now = x.now
           /\ ~v.st.refused /\ Kept(x, v.st, {"ops"}) /\ v.st.ops = x.ops \cup {SiteStop}
<1> DEFINE c == OnCommand(x)
           T == x.now
           u == Draft(x)
           e == Start(SiteStop)
           v == Emit(u, <<e>>)
<1>1. T \in Int /\ ~x.refused
  BY DEF Settled
<1>2. Draftlike(u) /\ u.st = x /\ Tracked(c, T, u) /\ c.T = T /\ DOMAIN u = {"st", "out"}
  BY DraftTracked DEF Draft
<1>3. e.type = "OperationStarted" /\ e.op = SiteStop /\ "seq" \notin DOMAIN e
  BY DEF Start
<1> HIDE DEF c, u, e
<1>4. Borne(c, T, u)
  BY <1>2 DEF Borne, Tracked, Tracks
<1>5. Handled(x, e) # {}
  BY <1>3, OperationStartedEnabled DEF OperationStartedGuard
<1>6. Timely(c, T, x, e) /\ KeepsMark(x, e) /\ e.type \notin ScheduleTypes
  <2>1. Proper(c.T, x, e)
    BY <1>3 DEF Proper, AlikeTypes, KnownTypes, OperationTypes, CostTypes
  <2>2. Timely(c, T, x, e)
    BY <1>2, <1>3, <2>1 DEF Timely
  <2> QED
    BY <1>3, <2>2 DEF KeepsMark, ScheduleTypes
<1>7. /\ Borne(c, T, v) /\ Draftlike(v) /\ v.st.now = T
      /\ ~v.st.refused /\ v.st \in Handled(x, e)
  BY <1>1, <1>2, <1>3, <1>4, <1>5, <1>6, BorneGoes
<1> HIDE DEF v
<1>8. DOMAIN x = Fields
  BY SteadyShape DEF Settled, Sound
<1>9. v.st.ops = OperationStartedOps(x, e) /\ Kept(x, v.st, {"ops"})
  BY <1>3, <1>7, <1>8, OperationStartedEffect
<1>10. v.st.ops = x.ops \cup {SiteStop}
  BY <1>3, <1>9 DEF OperationStartedOps
<1> QED
  BY <1>7, <1>9, <1>10 DEF v, u, e, c

LEMMA StopSucceeds ==
    ASSUME NEW c, c.T \in Int, NEW at \in Int, NEW w, Borne(c, at, w), w.st.now = c.T,
           ~w.st.refused, SiteStop \in w.st.ops, NEW T, T = c.T
    PROVE  LET v == Emit(w, <<Succeed(SiteStop, T)>>) IN
           /\ Borne(c, at, v) /\ Draftlike(v) /\ v.st.now = c.T
           /\ ~v.st.refused /\ Kept(w.st, v.st, {"ops"})
           /\ v.st.ops = w.st.ops \ {SiteStop}
<1> DEFINE e == Succeed(SiteStop, T)
           v == Emit(w, <<e>>)
<1>1. e.type = "OperationSucceeded" /\ e.op = SiteStop /\ e.at = T /\ "seq" \notin DOMAIN e
  BY DEF Succeed
<1> HIDE DEF e
<1>2. Handled(w.st, e) # {}
  BY <1>1, OperationSucceededEnabled DEF OperationSucceededGuard
<1>3. Timely(c, at, w.st, e) /\ KeepsMark(w.st, e) /\ e.type \notin ScheduleTypes
  <2>1. Proper(c.T, w.st, e)
    BY <1>1 DEF Proper, AlikeTypes, KnownTypes, OperationTypes, CostTypes
  <2>2. Timely(c, at, w.st, e)
    BY <1>1, <2>1 DEF Timely
  <2> QED
    BY <1>1, <2>2 DEF KeepsMark, ScheduleTypes
<1>4. /\ Borne(c, at, v) /\ Draftlike(v) /\ v.st.now = c.T
      /\ ~v.st.refused /\ v.st \in Handled(w.st, e)
  BY <1>1, <1>2, <1>3, BorneGoes
<1> HIDE DEF v
<1>5. DOMAIN w.st = Fields
  BY DEF Borne, Bears, Draftlike, Tables
<1>6. v.st.ops = OperationSucceededOps(w.st, e) /\ Kept(w.st, v.st, {"ops"})
  BY <1>1, <1>4, <1>5, OperationSucceededEffect
<1>7. v.st.ops = w.st.ops \ {SiteStop}
  BY <1>1, <1>6 DEF OperationSucceededOps
<1> QED
  BY <1>4, <1>6, <1>7 DEF v, e

Stopping(at) == [type |-> "SiteStopStarted", op |-> SiteStop, at |-> at]
Stopped(at) == [type |-> "SiteStopped", op |-> SiteStop, at |-> at]

LEMMA SiteFacts ==
    ASSUME NEW T
    PROVE  /\ Stopping(T).type = "SiteStopStarted" /\ Stopping(T).op = SiteStop
           /\ Stopping(T).at = T /\ "seq" \notin DOMAIN Stopping(T)
           /\ Stopped(T).type = "SiteStopped" /\ Stopped(T).op = SiteStop
           /\ Stopped(T).at = T /\ "seq" \notin DOMAIN Stopped(T)
BY DEF Stopping, Stopped

LEMMA StopMoves ==
    ASSUME NEW c, c.T \in Nat, NEW at \in Int, NEW w, Borne(c, at, w), w.st.now = c.T,
           ~w.st.refused, NEW T, T = c.T, NEW e,
           \/ e = Stopping(T) /\ w.st.site.status = "running"
           \/ e = Stopped(T) /\ w.st.site.status = "stopping" /\ w.st.site.op = SiteStop
              /\ DOMAIN w.st.conns = {}
    PROVE  LET v == Emit(w, <<e>>) IN
           /\ Borne(c, at, v) /\ Draftlike(v) /\ v.st.now = c.T
           /\ ~v.st.refused /\ Kept(w.st, v.st, {"site"}) /\ v.st.site.op = SiteStop
           /\ v.st.site.status = (IF e = Stopping(T) THEN "stopping" ELSE "stopped")
<1> DEFINE v == Emit(w, <<e>>)
           x == w.st
<1>1. /\ e = Stopping(T) => e.type = "SiteStopStarted"
      /\ e = Stopped(T) => e.type = "SiteStopped"
      /\ e.op = SiteStop /\ e.at = T /\ "seq" \notin DOMAIN e
      /\ e.type \in {"SiteStopStarted", "SiteStopped"}
  BY SiteFacts
<1>2. DOMAIN x = Fields /\ DOMAIN x.site = SiteFields
  <2>1. At(c, w.st).T = c.T
    BY AtFields
  <2>2. Steady(c.T, w.st)
    BY <2>1 DEF Borne, Bears
  <2> QED
    BY <2>2, SteadyShape
<1>3. Handled(x, e) # {}
  <2>1. CASE e = Stopping(T)
    BY <1>1, <2>1, SiteFacts, SiteStopStartedEnabled DEF SiteStopStartedGuard
  <2>2. CASE e = Stopped(T)
    <3>1. Fact(x, e.at)
      BY <1>1 DEF Fact
    <3>2. x.site.status = "stopping" /\ x.site.op = e.op /\ DOMAIN x.conns = {}
      BY <1>1, <2>2, SiteFacts
    <3> QED
      BY <1>1, <2>2, <3>1, <3>2, SiteStoppedEnabled DEF SiteStoppedGuard
  <2> QED
    BY <2>1, <2>2
<1>4. Timely(c, at, x, e) /\ KeepsMark(x, e) /\ e.type \notin ScheduleTypes
  <2>1. Proper(c.T, x, e)
    BY <1>1 DEF Proper, AlikeTypes, KnownTypes, MigrationTypes, CostTypes, Never
  <2>2. Timely(c, at, x, e)
    BY <1>1, <2>1 DEF Timely
  <2> QED
    BY <1>1, <2>2 DEF KeepsMark, ScheduleTypes
<1>5. /\ Borne(c, at, v) /\ Draftlike(v) /\ v.st.now = c.T
      /\ ~v.st.refused /\ v.st \in Handled(x, e)
  BY <1>1, <1>3, <1>4, BorneGoes
<1> HIDE DEF v
<1>6. Kept(x, v.st, {"site"})
  <2>1. CASE e.type = "SiteStopStarted"
    BY <1>2, <1>5, <2>1, SiteStopStartedEffect
  <2>2. CASE e.type = "SiteStopped"
    BY <1>2, <1>5, <2>2, SiteStoppedEffect
  <2> QED
    BY <1>1, <2>1, <2>2
<1>7. SiteChange(x, e, v.st)
  BY <1>2, <1>5, SiteStep
<1>8. CASE e = Stopping(T)
  BY <1>1, <1>5, <1>6, <1>7, <1>8 DEF SiteChange, v
<1>9. CASE e = Stopped(T)
  <2>1. e # Stopping(T) /\ x.site.op = SiteStop
    BY <1>9, SiteFacts
  <2> QED
    BY <1>1, <1>5, <1>6, <1>7, <1>9, <2>1 DEF SiteChange, v
<1> QED
  BY <1>8, <1>9
LEMMA TwoAndTwo ==
    ASSUME NEW a, NEW b, NEW c, NEW d
    PROVE  <<a, b>> \o <<>> = <<a, b>> /\ <<a, b>> \o <<c, d>> = <<a, b, c, d>>
<1>1. <<a, b>> \in Seq({a, b})
  OBVIOUS
<1>2. <<a, b>> \o <<>> = <<a, b>>
  BY <1>1, EmptySeq, ConcatEmptySeq
<1>3. <<a, b, c, d>> = <<a, b>> \o <<c, d>>
  OBVIOUS
<1> QED
  BY <1>2, <1>3

LEMMA StopSiteLands ==
    ASSUME NEW x, Settled(x), Running(x), DecideStopSite(x).ok
    PROVE  LET es == DecideStopSite(x).events IN Landed(x, es, ApplyAll(x, es))
<1> DEFINE c == OnCommand(x)
           T == x.now
           u == Draft(x)
           a == Start(SiteStop)
           b == Stopping(T)
           k == Stopped(T)
           q == Succeed(SiteStop, T)
           d == DecideStopSite(x)
           v1 == Emit(u, <<a>>)
           idle == <<a, q>>
           waits == <<a, b>>
           stops == <<a, b, k, q>>
<1>1. T \in Nat /\ Current(x, T) /\ Placed(x)
  BY DEF Settled, Sound, Current, Steady
<1>2. Draftlike(u) /\ c.T = T /\ c.over = TRUE
  BY DraftTracked
<1>3. x.site.status \in {"running", "stopping", "stopped"}
      /\ (SiteStop \in x.ops <=> x.site.status = "stopping")
  BY <1>1 DEF Placed, Current
<1>4. \/ x.site.status = "stopped" /\ d = Guarded(TRUE, idle)
      \/ x.site.status = "stopping" /\ d = Rejected
      \/ x.site.status = "running" /\ DOMAIN x.conns # {} /\ d = Guarded(TRUE, waits)
      \/ x.site.status = "running" /\ DOMAIN x.conns = {} /\ d = Guarded(TRUE, stops)
  <2>1. <<a, b>> \o <<>> = <<a, b>> /\ <<a, b>> \o <<k, q>> = <<a, b, k, q>>
    BY TwoAndTwo
  <2>2. d = (CASE x.site.status = "stopped" -> Guarded(TRUE, idle)
               [] x.site.status = "stopping" -> Rejected
               [] OTHER -> Guarded(TRUE, <<a, b>> \o (IF DOMAIN x.conns # {} THEN <<>>
                                                      ELSE <<k, q>>)))
    BY DEF DecideStopSite, Stopping, Stopped
  <2> HIDE DEF a, b, k, q, d
  <2> QED
    BY <1>3, <2>1, <2>2
<1>5. d.ok
  OBVIOUS
<1> HIDE DEF d, idle, waits, stops, c, u, a, b, k, q
<1>6. \A es : d = Guarded(TRUE, es) => d.events = es
  BY DEF Guarded
<1>7. d # Rejected
  BY <1>5 DEF Rejected
<1>8. SiteStop \notin x.ops =>
        /\ Borne(c, T, v1) /\ Draftlike(v1) /\ v1.st.now = T
        /\ ~v1.st.refused /\ Kept(x, v1.st, {"ops"}) /\ v1.st.ops = x.ops \cup {SiteStop}
  BY StopBegins DEF c, u, a
<1>9. CASE x.site.status = "stopped" /\ d = Guarded(TRUE, idle)
  <2> DEFINE v == Emit(v1, <<q>>)
  <2>1. SiteStop \notin x.ops
    BY <1>3, <1>9
  <2> HIDE DEF v1
  <2>2. /\ Borne(c, T, v) /\ ~v.st.refused /\ Kept(v1.st, v.st, {"ops"})
        /\ v.st.ops = v1.st.ops \ {SiteStop}
    BY <1>1, <1>2, <1>8, <2>1, StopSucceeds DEF q
  <2>3. v = Emit(u, idle) /\ Listed(idle)
    BY <1>2, EmitTwo, ListedLiterals DEF idle, v1
  <2> HIDE DEF v
  <2>4. Kept(x, v.st, {"ops"}) /\ v.st.ops = x.ops
    BY <1>8, <2>1, <2>2 DEF Kept, Fields
  <2>5. v.st.site.status = "stopped"
    BY <1>9, <2>4 DEF Kept, Fields
  <2>6. Tracked(c, T, v)
    BY <1>2, <2>1, <2>2, <2>4, <2>5, BorneTracked
  <2>7. Current(v.st, T)
    <3>1. Kept(x, v.st, {"dbs", "backups", "ops"})
      BY <2>4 DEF Kept, Fields
    <3> QED
      BY <2>2, <2>4, <2>6, <3>1, KeptCurrent DEF c
  <2>8. Landed(x, idle, ApplyAll(x, idle))
    BY <2>2, <2>3, <2>6, <2>7, PlainLands DEF c, u
  <2> QED
    BY <1>6, <1>9, <2>8 DEF d
<1>10. ASSUME x.site.status = "running"
       PROVE  LET v2 == Emit(v1, <<b>>) IN
              /\ Borne(c, T, v2) /\ Draftlike(v2) /\ v2.st.now = T /\ ~v2.st.refused
              /\ Kept(x, v2.st, {"site", "ops"}) /\ v2.st.ops = x.ops \cup {SiteStop}
              /\ v2.st.site.status = "stopping" /\ v2.st.site.op = SiteStop
              /\ SiteStop \notin x.ops
  <2> DEFINE v2 == Emit(v1, <<b>>)
  <2>1. SiteStop \notin x.ops
    BY <1>3, <1>10
  <2>2. v1.st.site.status = "running"
    BY <1>8, <1>10, <2>1 DEF Kept, Fields
  <2> HIDE DEF v1
  <2>3. /\ Borne(c, T, v2) /\ Draftlike(v2) /\ v2.st.now = T /\ ~v2.st.refused
        /\ Kept(v1.st, v2.st, {"site"}) /\ v2.st.site.op = SiteStop
        /\ v2.st.site.status = "stopping"
    BY <1>1, <1>2, <1>8, <2>1, <2>2, StopMoves DEF b
  <2> HIDE DEF v2
  <2>4. Kept(x, v2.st, {"site", "ops"}) /\ v2.st.ops = x.ops \cup {SiteStop}
    BY <1>8, <2>1, <2>3 DEF Kept, Fields
  <2> QED
    BY <2>1, <2>3, <2>4 DEF v2
<1> DEFINE v2 == Emit(v1, <<b>>)
<1>11. CASE x.site.status = "running" /\ DOMAIN x.conns # {} /\ d = Guarded(TRUE, waits)
  <2>1. /\ Borne(c, T, v2) /\ ~v2.st.refused
        /\ Kept(x, v2.st, {"site", "ops"}) /\ v2.st.ops = x.ops \cup {SiteStop}
        /\ v2.st.site.status = "stopping" /\ v2.st.site.op = SiteStop
    BY <1>10, <1>11
  <2>2. v2 = Emit(u, waits) /\ Listed(waits)
    BY <1>2, EmitTwo, ListedLiterals DEF waits
  <2> HIDE DEF v2
  <2>3. Tracked(c, T, v2)
    BY <1>2, <2>1, BorneTracked
  <2>4. Steady(T, v2.st)
    BY <1>2, <2>1, <2>3, TrackedSteady
  <2>5. DOMAIN v2.st.conns # {}
    BY <1>11, <2>1 DEF Kept, Fields
  <2>6. v2.st.ops \ {SiteStop} = x.ops \ {SiteStop}
    BY <2>1
  <2>7. Current(v2.st, T)
    BY <2>1, <2>4, <2>5, <2>6, StopCurrent
  <2>8. Landed(x, waits, ApplyAll(x, waits))
    BY <2>1, <2>2, <2>3, <2>7, PlainLands DEF c, u
  <2> QED
    BY <1>6, <1>11, <2>8 DEF d
<1>12. CASE x.site.status = "running" /\ DOMAIN x.conns = {} /\ d = Guarded(TRUE, stops)
  <2> DEFINE v3 == Emit(v2, <<k>>)
             v4 == Emit(v3, <<q>>)
  <2>1. /\ Borne(c, T, v2) /\ Draftlike(v2) /\ ~v2.st.refused /\ v2.st.now = T
        /\ Kept(x, v2.st, {"site", "ops"}) /\ v2.st.ops = x.ops \cup {SiteStop}
        /\ v2.st.site.status = "stopping" /\ v2.st.site.op = SiteStop
        /\ SiteStop \notin x.ops
    BY <1>10, <1>12
  <2>2. v4 = Emit(u, stops) /\ Listed(stops)
    BY <1>2, EmitFour, ListedLiterals DEF stops
  <2> HIDE DEF v2
  <2>3. DOMAIN v2.st.conns = {}
    BY <1>12, <2>1 DEF Kept, Fields
  <2>4. k # Stopping(T)
    BY SiteFacts DEF k
  <2>5. /\ Borne(c, T, v3) /\ Draftlike(v3) /\ v3.st.now = T /\ ~v3.st.refused
        /\ Kept(v2.st, v3.st, {"site"}) /\ v3.st.site.status = "stopped"
    BY <1>1, <1>2, <2>1, <2>3, <2>4, StopMoves DEF k
  <2> HIDE DEF v3
  <2>6. v3.st.ops = x.ops \cup {SiteStop}
    BY <2>1, <2>5 DEF Kept, Fields
  <2>7. /\ Borne(c, T, v4) /\ ~v4.st.refused /\ Kept(v3.st, v4.st, {"ops"})
        /\ v4.st.ops = v3.st.ops \ {SiteStop}
    BY <1>1, <1>2, <2>5, <2>6, StopSucceeds DEF q
  <2> HIDE DEF v4
  <2>8. Kept(x, v4.st, {"site", "ops"}) /\ v4.st.site.status = "stopped"
    BY <2>1, <2>5, <2>7 DEF Kept, Fields
  <2>9. v4.st.ops = x.ops
    BY <2>1, <2>6, <2>7
  <2>10. Tracked(c, T, v4)
    BY <1>2, <2>1, <2>7, <2>8, <2>9, BorneTracked
  <2>11. Steady(T, v4.st)
    BY <1>2, <2>7, <2>10, TrackedSteady
  <2>12. Current(v4.st, T)
    BY <2>1, <2>8, <2>9, <2>11, StopCurrent
  <2>13. Landed(x, stops, ApplyAll(x, stops))
    BY <2>2, <2>7, <2>10, <2>12, PlainLands DEF c, u
  <2> QED
    BY <1>6, <1>12, <2>13 DEF d
<1> QED
  BY <1>4, <1>7, <1>9, <1>11, <1>12
----------------------------------------------------------------------------
(* The state a run starts from: the bootstrap events                        *)

LEMMA NoCeil ==
    ASSUME NEW n \in Nat, n >= 1
    PROVE  CeilDiv(0, n) = 0
<1>1. (n - 1) \in 0..(n - 1)
  OBVIOUS
<1>2. (n - 1) \div n = 0
  BY <1>1, SMTT(60)
<1>3. 0 + n - 1 = n - 1
  OBVIOUS
<1> QED
  BY <1>2, <1>3 DEF CeilDiv

LEMMA NewWorldIs ==
           LET w == NewWorld IN
           /\ DOMAIN w = Fields /\ ~w.refused /\ w.status = "running" /\ w.now = 0
           /\ w.cursor = 0 /\ w.indexed = 0
           /\ DOMAIN w.site = SiteFields /\ w.site.status = "running"
           /\ w.site.db = InitialDatabase /\ w.site.since = Never
           /\ DOMAIN w.servers = InitialServers
           /\ \A i \in InitialServers :
                /\ DOMAIN w.servers[i] = ServerFields /\ w.servers[i].status = "active"
                /\ w.servers[i].logs = 0
           /\ DOMAIN w.dbs = {InitialDatabase}
           /\ DOMAIN w.dbs[InitialDatabase] = DatabaseFields
           /\ w.dbs[InitialDatabase].ready = TRUE /\ w.dbs[InitialDatabase].reasons = {}
           /\ w.dbs[InitialDatabase].data = InitialData
           /\ w.dbs[InitialDatabase].logs = InitialLogs
           /\ DOMAIN w.growth = {} /\ DOMAIN w.conns = {} /\ DOMAIN w.capacity = {}
           /\ DOMAIN w.backups = {} /\ DOMAIN w.rules = {} /\ DOMAIN w.attacks = {}
           /\ w.counts = [i \in Servers |-> 0] /\ w.used = [i \in Servers |-> 0]
           /\ w.firewallDown = FALSE /\ w.backendDown = FALSE /\ w.ops = {}
  BY DEF NewWorld, Fields, SiteFields, ServerFields, DatabaseFields

\* The backend either page fits on serves both.
LEMMA NewWorldServes ==
  StarvedPages(NewWorld, 0) = {}
<1> DEFINE w == NewWorld
<1>1. PICK i \in InitialServers : Backend(i) /\ \A p \in Pages : Load[p] <= Catalog[i].capacity
  BY InitialAssumption DEF Backend
<1>2. /\ DOMAIN w.servers = InitialServers /\ w.servers[i].status = "active"
      /\ w.servers[i].logs = 0 /\ DOMAIN w.dbs = {InitialDatabase}
      /\ w.used = [k \in Servers |-> 0] /\ w.indexed = 0 /\ DOMAIN w.attacks = {}
  BY <1>1, NewWorldIs
<1> HIDE DEF w
<1>3. i # InitialDatabase
  BY <1>1, InitialAssumption DEF Backend
<1>4. /\ i \in Servers /\ Catalog[i].disk \in Nat /\ Catalog[i].capacity \in Nat
      /\ \A p \in Pages : Load[p] \in Nat
  BY <1>1, InitialAssumption, ServersAssumption, PagesAssumption
<1>5. i \in ActiveBackends(w)
  BY <1>1, <1>2 DEF ActiveBackends, WithStatus
<1>6. ~DiskFull(w, i)
  BY <1>2, <1>3, <1>4 DEF DiskFull, FreeDisk, Most
<1>7. UsedCapacity(w, i, 0) = 0
  BY <1>2, <1>4 DEF UsedCapacity
<1>8. ASSUME NEW p \in Pages PROVE AttackLoad(w, p, 0) = 0
  <2> DEFINE sharing == {k \in ActiveBackends(w) : ~DiskFull(w, k)}
             those == {a \in DOMAIN w.attacks : /\ w.attacks[a].page = p
                                                /\ ~Denied(w, w.attacks[a].profile, 0)}
  <2>1. those = {}
    BY <1>2
  <2>2. IsFiniteSet({}) /\ \A r \in {} : w.attacks[r].load \in Nat
    BY FS_EmptySet
  <2>3. LoadOf(w.attacks, {}) = 0
    BY <2>2, LoadParts
  <2>4. sharing \subseteq Servers /\ i \in sharing
    <3>1. InitialServers \subseteq Servers
      BY InitialAssumption
    <3> QED
      BY <1>2, <1>5, <1>6, <3>1 DEF ActiveBackends, WithStatus
  <2>5. IsFiniteSet(sharing)
    BY <2>4, ServersAssumption, ServersAssumption, FS_Subset
  <2> HIDE DEF sharing
  <2>6. Cardinality(sharing) \in Nat /\ Cardinality(sharing) # 0
    BY <2>4, <2>5, FS_CardinalityType, FS_EmptySet
  <2>7. CeilDiv(0, Cardinality(sharing)) = 0
    BY <2>6, NoCeil
  <2>8. LoadOf(w.attacks, those) = 0
    BY <2>1, <2>3
  <2> HIDE DEF those
  <2>9. AttackLoad(w, p, 0)
          = IF sharing = {} THEN 0 ELSE CeilDiv(LoadOf(w.attacks, those), Cardinality(sharing))
    BY DEF AttackLoad, sharing, those
  <2> QED
    BY <2>4, <2>7, <2>8, <2>9
<1>9. ASSUME NEW p \in Pages PROVE FreeCapacity(w, i, p, 0) >= Load[p]
  <2>1. FreeCapacity(w, i, p, 0) = Catalog[i].capacity - 0 - 0
    BY <1>5, <1>6, <1>7, <1>8 DEF FreeCapacity
  <2> QED
    BY <1>1, <1>4, <2>1
<1>10. \A p \in Pages : ~(FreeCapacity(w, i, p, 0) < Load[p])
  <2> TAKE p \in Pages
  <2>1. FreeCapacity(w, i, p, 0) = Catalog[i].capacity - 0 - 0
    BY <1>5, <1>6, <1>7, <1>8 DEF FreeCapacity
  <2> QED
    BY <1>1, <1>4, <2>1
<1> QED
  BY <1>5, <1>10 DEF StarvedPages, w

LEMMA NewWorldSettled ==
  Settled(NewWorld)
<1> DEFINE w == NewWorld
<1>1. /\ DOMAIN w = Fields /\ ~w.refused /\ w.status = "running" /\ w.now = 0
      /\ w.cursor = 0 /\ w.indexed = 0
      /\ DOMAIN w.site = SiteFields /\ w.site.status = "running"
      /\ w.site.db = InitialDatabase /\ w.site.since = Never
  BY NewWorldIs
<1>2. /\ DOMAIN w.servers = InitialServers
      /\ \A i \in InitialServers :
           /\ DOMAIN w.servers[i] = ServerFields /\ w.servers[i].status = "active"
           /\ w.servers[i].logs = 0
  BY NewWorldIs
<1>3. /\ DOMAIN w.dbs = {InitialDatabase}
      /\ DOMAIN w.dbs[InitialDatabase] = DatabaseFields
      /\ w.dbs[InitialDatabase].ready = TRUE /\ w.dbs[InitialDatabase].reasons = {}
  BY NewWorldIs
<1>4. /\ DOMAIN w.growth = {} /\ DOMAIN w.conns = {} /\ DOMAIN w.capacity = {}
      /\ DOMAIN w.backups = {} /\ DOMAIN w.rules = {} /\ DOMAIN w.attacks = {}
      /\ w.counts = [i \in Servers |-> 0] /\ w.used = [i \in Servers |-> 0]
      /\ w.firewallDown = FALSE /\ w.backendDown = FALSE /\ w.ops = {}
  BY NewWorldIs
<1>5. StarvedPages(w, 0) = {}
  BY NewWorldServes
<1> HIDE DEF w
<1>6. /\ InitialServers \subseteq Servers /\ InitialDatabase \in InitialServers
      /\ Catalog[InitialDatabase].role = "database"
      /\ IsFiniteSet(Servers)
      /\ \A i \in Servers : Catalog[i].limit \in Nat /\ Catalog[i].capacity \in Nat
      /\ Catalog[InitialDatabase].limit > 0
  <2>1. IsFiniteSet(Servers)
    BY ServersAssumption
  <2>2. \A i \in Servers : Catalog[i].limit \in Nat /\ Catalog[i].capacity \in Nat
    BY ServersAssumption
  <2> QED
    BY <2>1, <2>2, InitialAssumption, ServersAssumption
<1>7. Tables(w)
  <2>1. IsFiniteSet(InitialServers)
    BY <1>6, FS_Subset
  <2>2. IsFiniteSet({})
    BY FS_EmptySet
  <2>3. \A f \in {"servers", "growth", "conns", "capacity", "backups", "rules"} :
          IsFiniteSet(DOMAIN w[f])
    BY <1>2, <1>4, <2>1, <2>2
  <2> QED
    BY <1>1, <1>2, <1>4, <2>3 DEF Tables, Rows
<1>8. Index(0, w)
  <2>1. IsFiniteSet(DOMAIN w.capacity)
    BY <1>4, FS_EmptySet
  <2>2. LoadOf(w.capacity, {}) = 0
    <3>1. IsFiniteSet({}) /\ \A r \in {} : w.capacity[r].load \in Nat
      BY FS_EmptySet
    <3> QED
      BY <3>1, LoadParts
  <2>3. \A i : OnServer(w.capacity, i) = {}
    BY <1>4 DEF OnServer
  <2>4. w.used = [i \in Servers |-> LoadOf(w.capacity, OnServer(w.capacity, i))]
    BY <1>4, <2>2, <2>3
  <2>5. \A i \in Servers : w.used[i] = 0
    BY <1>4
  <2>6. \A i \in Servers : w.used[i] <= Catalog[i].capacity
    BY <1>6, <2>5
  <2> QED
    BY <1>1, <1>4, <2>1, <2>4, <2>6 DEF Index
<1>9. Named(w) /\ Attacked(w) /\ Ruled(w)
  <2>1. Len(Schedule) \in Nat
    BY ScheduleAssumption, LenProperties
  <2> QED
    BY <1>1, <1>4, <2>1, FS_EmptySet DEF Named, Attacked, Ruled
<1>10. Placed(w)
  BY <1>1, <1>2, <1>3, <1>6 DEF Placed, Rows
<1>11. Connected(w)
  <2>1. \A i : ConnectionsOf(w, i) = {}
    BY <1>4 DEF ConnectionsOf
  <2>2. w.counts = [i \in Servers |-> Cardinality(ConnectionsOf(w, i))]
    BY <1>4, <2>1, FS_EmptySet
  <2>3. \A i \in Servers : w.counts[i] = 0
    BY <1>4
  <2> QED
    BY <1>1, <1>4, <1>6, <2>2, <2>3, FS_EmptySet DEF Connected
<1>12. DependenciesUp(w)
  BY <1>1, <1>3, <1>4 DEF DependenciesUp, Available
<1>13. Faulted(w)
  BY <1>1, <1>3, <1>12 DEF Faulted
<1>14. Marked(w)
  BY <1>3, <1>4, <1>6 DEF Marked
<1>15. CursorAt(0, 0)
  <2>1. Len(Schedule) \in Nat /\ DOMAIN Schedule = 1..Len(Schedule)
    BY ScheduleAssumption, LenProperties
  <2>2. \A j \in 1..Len(Schedule) : 0 < Schedule[j].at
    BY <2>1, ScheduleAssumption
  <2> QED
    BY <2>1, <2>2 DEF CursorAt
<1>16. Denying(w.rules, 0) = FALSE
  <2> DEFINE z == [rules |-> w.rules]
  <2>1. z.rules = w.rules
    OBVIOUS
  <2> HIDE DEF z
  <2>2. \A p : Deciding(z, p, 0) = {}
    BY <1>4, <2>1 DEF Deciding, Matching
  <2>3. Blocking(z, 0) = {}
    BY <2>2 DEF Blocking
  <2> QED
    BY <2>3 DEF Denying, z
<1>17. WithStatus(w, "provisioning") = {} /\ WithStatus(w, "draining") = {}
  BY <1>2 DEF WithStatus
<1>18. Waits(w, 0)
  BY <1>2, <1>4, <1>17 DEF Waits, Owes, Busy, Assigned
<1>19. Current(w, 0)
  BY <1>1, <1>4, <1>5, <1>15, <1>16, <1>17, <1>18 DEF Current
<1>20. Sound(0, w)
  BY <1>7, <1>8, <1>9, <1>10, <1>11, <1>13, <1>14 DEF Sound, Steady
<1>21. 0 < EndsAt /\ EndsAt \in Nat
  BY ScheduleAssumption
<1>22. Settled(w)
  BY <1>1, <1>19, <1>20, <1>21 DEF Settled
<1> QED
  BY <1>22 DEF w
----------------------------------------------------------------------------
(* What the two states become                                               *)

MeekList(at, es) == \A k \in 1..Len(es) : Meek(at, es[k])

LEMMA FollowOn ==
    ASSUME NEW x, NEW y, NEW at, NEW t, NEW u, Follow(x, y, at, t, u),
           NEW v, NEW w, Follow(t, u, at, v, w)
    PROVE  Follow(x, y, at, v, w)
  BY DEF Follow

LEMMA TwinAccepts ==
    ASSUME NEW x, NEW y, NEW at, NEW t, NEW u, Follow(x, y, at, t, u), NEW e, Meek(at, e),
           ~Apply(t, e).refused
    PROVE  Follow(x, y, at, Apply(t, e), Apply(u, e))
<1>1. Twins(t, u, at) /\ DOMAIN t = Fields
  BY DEF Follow, Twins
<1>2. ~t.refused /\ Apply(t, e) \in Handled(t, e)
  BY <1>1, Accepted
<1> DEFINE v == Apply(t, e)
           next == Handled(u, e)
<1>3. Brings(t, u, at, v, next)
  BY <1>1, <1>2, TwinStep
<1>4. next # {} /\ \A w \in next : Follow(t, u, at, v, w)
  <2> HIDE DEF v, next
  <2> QED
    BY <1>3 DEF Brings
<1>5. ~u.refused
  BY <1>1, <1>2, TwinFields DEF SameButIndex
<1>6. Apply(u, e) = Outcome(u, next)
  BY DEF Apply, Handled
<1> HIDE DEF v, next
<1>7. Apply(u, e) \in next
  BY <1>4, <1>5, <1>6 DEF Outcome
<1>8. Follow(x, y, at, v, Apply(u, e))
  BY <1>4, <1>7, FollowOn
<1> QED
  BY <1>8 DEF v

LEMMA TwinAll ==
    ASSUME NEW x, NEW y, NEW at, Twins(x, y, at), NEW es, Listed(es), MeekList(at, es),
           ~ApplyAll(x, es).refused
    PROVE  /\ Follow(x, y, at, ApplyAll(x, es), ApplyAll(y, es))
           /\ ApplyAll(x, es).now = x.now
<1>1. PICK g : Follows(g, x, es)
  BY ApplyAllFollows
<1>2. PICK h : Follows(h, y, es)
  BY ApplyAllFollows
<1>3. Len(es) \in Nat
  BY ListedDomain
<1>4. /\ g[0] = x /\ (\A i \in 1..Len(es) : g[i] = Apply(g[i - 1], es[i]))
      /\ ApplyAll(x, es) = g[Len(es)]
  BY <1>1 DEF Follows
<1>5. /\ h[0] = y /\ (\A i \in 1..Len(es) : h[i] = Apply(h[i - 1], es[i]))
      /\ ApplyAll(y, es) = h[Len(es)]
  BY <1>2 DEF Follows
<1>6. DOMAIN x = Fields
  BY DEF Twins
<1>7. Follow(x, y, at, x, y)
  BY DEF Follow
<1> DEFINE Good(k) == /\ DOMAIN g[k] = Fields /\ g[k].now = x.now
                      /\ ~g[k].refused => Follow(x, y, at, g[k], h[k])
           T == {k \in Nat : k <= Len(es) => Good(k)}
<1>8. 0 \in T
  BY <1>4, <1>5, <1>6, <1>7
<1>9. ASSUME NEW k \in Nat, k \in T
      PROVE  k + 1 \in T
  <2> SUFFICES ASSUME k + 1 <= Len(es)
               PROVE  Good(k + 1)
    OBVIOUS
  <2>1. Good(k)
    BY <1>3, <1>9
  <2>2. k + 1 \in 1..Len(es) /\ (k + 1) - 1 = k
    BY <1>3
  <2>3. g[k + 1] = Apply(g[k], es[k + 1]) /\ h[k + 1] = Apply(h[k], es[k + 1])
    BY <1>4, <1>5, <2>2
  <2>4. Meek(at, es[k + 1]) /\ es[k + 1].type # "TimeAdvanced"
    BY <2>2 DEF MeekList, Meek, MeekTypes
  <2>5. /\ DOMAIN Apply(g[k], es[k + 1]) = Fields /\ Apply(g[k], es[k + 1]).now = x.now
        /\ g[k].refused => Apply(g[k], es[k + 1]).refused
    BY <2>1, <2>4, ApplyShape
  <2>6. ASSUME ~Apply(g[k], es[k + 1]).refused
        PROVE  Follow(x, y, at, Apply(g[k], es[k + 1]), Apply(h[k], es[k + 1]))
    <3>1. Follow(x, y, at, g[k], h[k])
      BY <2>1, <2>5, <2>6
    <3> QED
      BY <2>4, <2>6, <3>1, TwinAccepts
  <2> QED
    BY <2>3, <2>5, <2>6
<1>10. Len(es) \in T
  <2> HIDE DEF T
  <2> QED
    BY <1>3, <1>8, <1>9, Events!SetInduction
<1>11. Good(Len(es))
  BY <1>3, <1>10
<1> QED
  BY <1>4, <1>5, <1>11
----------------------------------------------------------------------------
(* A replay, and what a session prunes                                      *)

\* The replay of a settled session: nothing but the index differs, which is in
\* order too, and pruning the replay gives the session.
Replays(x, p) ==
  /\ DOMAIN x = Fields /\ DOMAIN p = Fields
  /\ \A f \in Fields \ IndexFields : x[f] = p[f]
  /\ Index(x.now, p) /\ Prune(p, x.now) = x

LEMMA PruneWhole ==
    ASSUME NEW x, DOMAIN x = Fields, NEW at, ~(at < x.indexed)
    PROVE  /\ DOMAIN Prune(x, at) = Fields
           /\ Prune(x, at) = [f \in Fields |-> Prune(x, at)[f]]
           /\ \A f \in Fields \ IndexFields : Prune(x, at)[f] = x[f]
<1> DEFINE gone == {r \in DOMAIN x.capacity : x.capacity[r].until <= at}
           left == Drop(x.capacity, gone)
           used == [i \in Servers |->
             x.used[i] - LoadOf(x.capacity, {r \in gone : x.capacity[r].server = i})]
<1>1. Prune(x, at) = [x EXCEPT !.capacity = left, !.used = used, !.indexed = at]
  BY DEF Prune
<1> HIDE DEF gone, left, used
<1>2. DOMAIN Prune(x, at) = Fields
  BY <1>1
<1>3. Prune(x, at) = [f \in DOMAIN x |-> Prune(x, at)[f]]
  BY <1>1
<1>4. \A f \in Fields \ IndexFields : Prune(x, at)[f] = x[f]
  BY <1>1 DEF IndexFields
<1> QED
  BY <1>2, <1>3, <1>4

\* What pruning makes of the index depends on the index alone.
LEMMA PruneByIndex ==
    ASSUME NEW x, DOMAIN x = Fields, NEW y, DOMAIN y = Fields, y.capacity = x.capacity,
           y.used = x.used, y.indexed = x.indexed, NEW at, ~(at < x.indexed)
    PROVE  \A f \in IndexFields : Prune(y, at)[f] = Prune(x, at)[f]
<1> DEFINE gone == {r \in DOMAIN x.capacity : x.capacity[r].until <= at}
           left == Drop(x.capacity, gone)
           used == [i \in Servers |->
             x.used[i] - LoadOf(x.capacity, {r \in gone : x.capacity[r].server = i})]
<1>1. Prune(x, at) = [x EXCEPT !.capacity = left, !.used = used, !.indexed = at]
  BY DEF Prune
<1>2. Prune(y, at) = [y EXCEPT !.capacity = left, !.used = used, !.indexed = at]
  BY DEF Prune
<1> HIDE DEF gone, left, used
<1>3. /\ Prune(x, at).capacity = left /\ Prune(x, at).used = used /\ Prune(x, at).indexed = at
  BY <1>1 DEF Fields
<1>4. /\ Prune(y, at).capacity = left /\ Prune(y, at).used = used /\ Prune(y, at).indexed = at
  BY <1>2 DEF Fields
<1> QED
  BY <1>3, <1>4 DEF IndexFields

\* A session that has been pruned already stays as it is.
LEMMA PruneSettled ==
    ASSUME NEW T \in Int, NEW x, Steady(T, x), x.indexed = T, x = [f \in Fields |-> x[f]],
           x.capacity = [r \in DOMAIN x.capacity |-> x.capacity[r]]
    PROVE  Prune(x, T) = x
<1> DEFINE none == {r \in DOMAIN x.capacity : x.capacity[r].until <= T}
           y == Prune(x, T)
<1>1. DOMAIN x = Fields /\ Index(T, x) /\ ~(T < x.indexed)
  BY DEF Steady, Tables
<1>2. y.capacity = Drop(x.capacity, none)
  BY <1>1, PruneParts
<1>3. none = {}
  BY <1>1 DEF Index, Allocation
<1>4. Drop(x.capacity, {}) = x.capacity
  <2>1. Drop(x.capacity, {}) = [r \in DOMAIN x.capacity |-> x.capacity[r]]
    BY DEF Drop
  <2> QED
    BY <2>1
<1>5. y.used = x.used /\ y.indexed = x.indexed
  BY PruneNothing
<1>6. y = [f \in Fields |-> y[f]] /\ \A f \in Fields \ IndexFields : y[f] = x[f]
  BY <1>1, PruneWhole
<1> HIDE DEF y, none
<1>7. \A f \in IndexFields : y[f] = x[f]
  BY <1>2, <1>3, <1>4, <1>5 DEF IndexFields
<1>8. \A f \in Fields : y[f] = x[f]
  BY <1>6, <1>7
<1>9. y = x
  BY <1>6, <1>8
<1> QED
  BY <1>9 DEF y

LEMMA PruneTwice ==
    ASSUME NEW x, NEW p, Replays(x, p), x.now \in Int, Steady(x.now, x)
    PROVE  Prune(x, x.now) = x /\ x.indexed = x.now
<1> DEFINE T == x.now
           gone == {r \in DOMAIN p.capacity : p.capacity[r].until <= T}
<1>1. /\ DOMAIN p = Fields /\ DOMAIN x = Fields /\ Prune(p, T) = x /\ ~(T < p.indexed)
  BY DEF Replays, Index
<1>2. x.capacity = Drop(p.capacity, gone) /\ x.indexed = T
  BY <1>1, PruneParts
<1>3. x.capacity = [r \in DOMAIN x.capacity |-> x.capacity[r]]
  <2> HIDE DEF gone
  <2>1. x.capacity = [r \in DOMAIN p.capacity \ gone |-> p.capacity[r]]
    BY <1>2 DEF Drop
  <2> QED
    BY <2>1
<1>4. x = [f \in Fields |-> x[f]]
  <2>1. Prune(p, T) = [f \in Fields |-> Prune(p, T)[f]]
    BY <1>1, PruneWhole
  <2> QED
    BY <1>1, <2>1
<1> QED
  BY <1>2, <1>3, <1>4, PruneSettled

LEMMA ReplayTwins ==
    ASSUME NEW x, Settled(x), NEW p, Replays(x, p)
    PROVE  Twins(x, p, x.now)
<1> DEFINE T == x.now
<1>1. T \in Int /\ Steady(T, x) /\ DOMAIN p = Fields /\ DOMAIN x = Fields /\ Index(T, p)
      /\ Prune(p, T) = x
  BY DEF Settled, Sound, Replays
<1>2. DOMAIN x.servers \subseteq Servers
  BY <1>1 DEF Steady, Placed
<1>3. \A i \in Servers : UsedCapacity(Prune(p, T), i, T) = UsedCapacity(p, i, T)
  BY <1>1, PruneUse
<1>4. \A i \in Servers : UsedCapacity(x, i, T) = UsedCapacity(p, i, T)
  BY <1>1, <1>3
<1>5. \A f \in Fields \ IndexFields : x[f] = p[f]
  BY DEF Replays
<1> QED
  BY <1>1, <1>2, <1>4, <1>5 DEF Twins

\* Where the first event prunes, the replay is the session from there on.
Pruning(x, e) ==
  \/ e.type = "TimeAdvanced" /\ e.from = x.now
  \/ e.type = "PageRequestStarted" /\ e.at = x.now
LEMMA PruningSame ==
    ASSUME NEW x, Settled(x), NEW p, Replays(x, p), NEW e, Pruning(x, e), ~Apply(x, e).refused
    PROVE  Apply(p, e) = Apply(x, e)
<1>1. x.now \in Int /\ Steady(x.now, x) /\ DOMAIN x = Fields
  BY DEF Settled, Sound, Replays
<1>2. Prune(x, x.now) = x /\ Prune(p, x.now) = x
  BY <1>1, PruneTwice DEF Replays
<1>3. p.now = x.now /\ p.status = x.status /\ p.refused = x.refused
  BY DEF Replays, Fields, IndexFields
<1>4. ~x.refused /\ Apply(x, e) \in Handled(x, e)
  BY <1>1, Accepted
<1>5. CASE e.type = "TimeAdvanced" /\ e.from = x.now
  <2>1. Handled(x, e) = ApplyTime(x, e) /\ Handled(p, e) = ApplyTime(p, e)
    BY <1>5, HandledByGroup DEF TimeTypes
  <2>2. Prune(x, e.from) = x /\ Prune(p, e.from) = x
    BY <1>2, <1>5
  <2>3. ApplyTime(x, e) = ApplyTime(p, e)
    BY <1>3, <1>5, <2>2 DEF ApplyTime, Running
  <2>4. Apply(x, e) \in Handled(p, e)
    BY <1>4, <2>1, <2>3
  <2> QED
    BY <1>3, <1>4, <2>4, ApplyGives
<1>6. CASE e.type = "PageRequestStarted" /\ e.at = x.now
  <2>1. Handled(x, e) = ApplyPages(x, e) /\ Handled(p, e) = ApplyPages(p, e)
    BY <1>6, HandledByGroup DEF PageTypes
  <2>2. Prune(x, e.at) = x /\ Prune(p, e.at) = x
    BY <1>2, <1>6
  <2>3. ApplyPages(x, e) = ApplyPages(p, e)
    BY <1>3, <1>6, <2>2 DEF ApplyPages, Running, Fact
  <2>4. Apply(x, e) \in Handled(p, e)
    BY <1>4, <2>1, <2>3
  <2> QED
    BY <1>3, <1>4, <2>4, ApplyGives
<1> QED
  BY <1>5, <1>6 DEF Pruning

LEMMA PruningAll ==
    ASSUME NEW x, Settled(x), NEW p, Replays(x, p), NEW e, Pruning(x, e), NEW rest, Listed(rest),
           ~ApplyAll(x, <<e>> \o rest).refused
    PROVE  ApplyAll(p, <<e>> \o rest) = ApplyAll(x, <<e>> \o rest)
<1>1. Listed(<<e>>)
  BY ListedLiterals
<1>2. /\ ApplyAll(x, <<e>> \o rest) = ApplyAll(ApplyAll(x, <<e>>), rest)
      /\ ApplyAll(p, <<e>> \o rest) = ApplyAll(ApplyAll(p, <<e>>), rest)
  BY <1>1, ApplyAllAppend
<1>3. ApplyAll(x, <<e>>) = Apply(x, e) /\ ApplyAll(p, <<e>>) = Apply(p, e)
  BY ApplyAllOne
<1>4. DOMAIN Apply(x, e) = Fields
  BY ApplyShape DEF Replays
<1>5. ~Apply(x, e).refused
  BY <1>2, <1>3, <1>4, ShapeKept
<1> QED
  BY <1>2, <1>3, <1>5, PruningSame

\* What a command leaves: either the replay has become the session, ...
LEMMA Redone ==
    ASSUME NEW x, Settled(x), NEW p, Replays(x, p), NEW es, NEW t, Landed(x, es, t),
           ApplyAll(p, es) = t
    PROVE  Replays(Trim(t), ApplyAll(p, es))
<1>1. /\ t.now \in Int /\ Steady(t.now, t) /\ DOMAIN t = Fields /\ t.indexed <= t.now
      /\ Index(t.now, t)
  BY DEF Landed, Sound, Steady, Tables
<1>2. ~(t.now < t.indexed)
  BY <1>1 DEF Index
<1> DEFINE y == Trim(t)
<1>3. y = Prune(t, t.now) /\ y.now = t.now
  BY TrimSettles DEF Trim
<1>4. DOMAIN y = Fields /\ \A f \in Fields \ IndexFields : y[f] = t[f]
  BY <1>1, <1>2, <1>3, PruneWhole
<1> HIDE DEF y
<1> QED
  BY <1>1, <1>3, <1>4 DEF Replays, y

\* ... or its index still has what the session pruned, and the rest is the same.
LEMMA Restored ==
    ASSUME NEW x, Settled(x), NEW p, Replays(x, p), NEW es, NEW t, Landed(x, es, t),
           MeekList(x.now, es)
    PROVE  Replays(Trim(t), ApplyAll(p, es))
<1> DEFINE T == x.now
           u == ApplyAll(p, es)
           y == Trim(t)
<1>1. /\ Listed(es) /\ t = ApplyAll(x, es) /\ ~t.refused /\ Steady(t.now, t)
  BY DEF Landed, Sound
<1>2. Twins(x, p, T)
  BY ReplayTwins
<1>3. Follow(x, p, T, t, u) /\ t.now = T
  BY <1>1, <1>2, TwinAll
<1> HIDE DEF u
<1>4. /\ T \in Int /\ DOMAIN x = Fields /\ DOMAIN p = Fields /\ Index(T, p) /\ Prune(p, T) = x
      /\ Steady(T, x)
  BY DEF Settled, Sound, Replays
<1>5. Prune(x, T) = x /\ x.indexed = T
  BY <1>4, PruneTwice
<1>6. /\ t.capacity = x.capacity /\ t.used = x.used /\ t.indexed = x.indexed
      /\ u.capacity = p.capacity /\ u.used = p.used /\ u.indexed = p.indexed
      /\ DOMAIN t = Fields /\ DOMAIN u = Fields
      /\ \A f \in Fields \ IndexFields : t[f] = u[f]
  BY <1>3 DEF Follow, Twins
<1>7. ~(T < x.indexed) /\ ~(T < p.indexed) /\ ~(T < t.indexed) /\ ~(T < u.indexed)
  BY <1>4, <1>5, <1>6 DEF Index
<1>8. \A f \in IndexFields : Prune(t, T)[f] = x[f]
  <2>1. \A f \in IndexFields : Prune(t, T)[f] = Prune(x, T)[f]
    BY <1>4, <1>6, <1>7, PruneByIndex
  <2> QED
    BY <1>5, <2>1
<1>9. \A f \in IndexFields : Prune(u, T)[f] = x[f]
  <2>1. \A f \in IndexFields : Prune(u, T)[f] = Prune(p, T)[f]
    BY <1>4, <1>6, <1>7, PruneByIndex
  <2> QED
    BY <1>4, <2>1
<1>10. /\ Prune(t, T) = [f \in Fields |-> Prune(t, T)[f]] /\ DOMAIN Prune(t, T) = Fields
       /\ \A f \in Fields \ IndexFields : Prune(t, T)[f] = t[f]
  BY <1>6, <1>7, PruneWhole
<1>11. /\ Prune(u, T) = [f \in Fields |-> Prune(u, T)[f]]
       /\ \A f \in Fields \ IndexFields : Prune(u, T)[f] = u[f]
  BY <1>6, <1>7, PruneWhole
<1>12. \A f \in Fields : Prune(u, T)[f] = Prune(t, T)[f]
  BY <1>6, <1>8, <1>9, <1>10, <1>11
<1>13. Prune(u, T) = Prune(t, T)
  BY <1>10, <1>11, <1>12
<1>14. y = Prune(t, T) /\ y.now = T
  BY <1>3, TrimSettles DEF Trim
<1>15. t.servers = u.servers
  BY <1>6 DEF Fields, IndexFields
<1>16. ASSUME NEW r \in DOMAIN p.capacity, T < p.capacity[r].until
       PROVE  p.capacity[r].server \in DOMAIN t.servers
  <2> DEFINE gone == {q \in DOMAIN p.capacity : p.capacity[q].until <= T}
  <2>1. x.capacity = Drop(p.capacity, gone)
    BY <1>4, <1>7, PruneParts
  <2>2. p.capacity[r].until \in Int
    BY <1>4 DEF Index, Allocation
  <2>3. r \in DOMAIN p.capacity \ gone
    BY <1>4, <1>16, <2>2
  <2> HIDE DEF gone
  <2>4. r \in DOMAIN Drop(p.capacity, gone) /\ Drop(p.capacity, gone)[r] = p.capacity[r]
    BY <2>3, DropDomain
  <2>5. r \in DOMAIN t.capacity /\ t.capacity[r] = p.capacity[r]
    BY <1>6, <2>1, <2>4
  <2>6. Index(T, t)
    BY <1>1, <1>3 DEF Steady
  <2> QED
    BY <1>16, <2>5, <2>6 DEF Index
<1>17. Index(T, u)
  BY <1>4, <1>6, <1>15, <1>16 DEF Index, Allocation
<1> HIDE DEF y
<1> QED
  BY <1>6, <1>10, <1>13, <1>14, <1>17 DEF Replays, u, y
----------------------------------------------------------------------------
(* Commands of the agent whose events leave the index alone                 *)

Meeks(at, w) == Draftlike(w) /\ MeekList(at, w.out)

LEMMA MeekLiterals ==
    ASSUME NEW at
    PROVE  /\ MeekList(at, <<>>)
           /\ \A a : Meek(at, a) => MeekList(at, <<a>>)
           /\ \A a, b : Meek(at, a) /\ Meek(at, b) => MeekList(at, <<a, b>>)
           /\ \A a, b, c, d : Meek(at, a) /\ Meek(at, b) /\ Meek(at, c) /\ Meek(at, d) =>
                MeekList(at, <<a, b, c, d>>)
<1>1. MeekList(at, <<>>)
  BY DEF MeekList
<1>2. ASSUME NEW a, Meek(at, a) PROVE MeekList(at, <<a>>)
  <2>1. Len(<<a>>) = 1 /\ <<a>>[1] = a
    OBVIOUS
  <2> QED
    BY <1>2, <2>1 DEF MeekList
<1>3. ASSUME NEW a, NEW b, Meek(at, a), Meek(at, b) PROVE MeekList(at, <<a, b>>)
  <2>1. Len(<<a, b>>) = 2 /\ <<a, b>>[1] = a /\ <<a, b>>[2] = b
    OBVIOUS
  <2>2. \A k \in 1..2 : k = 1 \/ k = 2
    OBVIOUS
  <2> QED
    BY <1>3, <2>1, <2>2 DEF MeekList
<1>4. ASSUME NEW a, NEW b, NEW c, NEW d, Meek(at, a), Meek(at, b), Meek(at, c), Meek(at, d)
      PROVE  MeekList(at, <<a, b, c, d>>)
  <2> DEFINE es == <<a, b, c, d>>
  <2>1. Len(es) = 4 /\ es[1] = a /\ es[2] = b /\ es[3] = c /\ es[4] = d
    OBVIOUS
  <2>2. \A k \in 1..4 : k = 1 \/ k = 2 \/ k = 3 \/ k = 4
    OBVIOUS
  <2> HIDE DEF es
  <2>3. MeekList(at, es)
    BY <1>4, <2>1, <2>2 DEF MeekList
  <2> QED
    BY <2>3 DEF es
<1> QED
  BY <1>1, <1>2, <1>3, <1>4

LEMMA MeekAppend ==
    ASSUME NEW at, NEW p, NEW q, Listed(p), Listed(q), MeekList(at, p), MeekList(at, q)
    PROVE  MeekList(at, p \o q)
<1>1. /\ Len(p \o q) = Len(p) + Len(q)
      /\ \A i \in 1..Len(p) : (p \o q)[i] = p[i]
      /\ \A i \in 1..Len(q) : (p \o q)[Len(p) + i] = q[i]
      /\ Len(p) \in Nat /\ Len(q) \in Nat
  BY ListedAppend, ListedDomain
<1>2. ASSUME NEW i \in 1..Len(p \o q)
      PROVE  Meek(at, (p \o q)[i])
  <2>1. CASE i \in 1..Len(p)
    BY <1>1, <2>1 DEF MeekList
  <2>2. CASE i \notin 1..Len(p)
    <3>1. i - Len(p) \in 1..Len(q) /\ Len(p) + (i - Len(p)) = i
      BY <1>1, <2>2
    <3> QED
      BY <1>1, <3>1 DEF MeekList
  <2> QED
    BY <2>1, <2>2
<1> QED
  BY <1>2 DEF MeekList

LEMMA MeekEmit ==
    ASSUME NEW at, NEW w, Meeks(at, w), NEW es, Listed(es), MeekList(at, es)
    PROVE  Meeks(at, Emit(w, es))
<1>1. Draftlike(w) /\ Listed(w.out) /\ MeekList(at, w.out)
  BY DEF Meeks, Draftlike
<1>2. Draftlike(Emit(w, es)) /\ Emit(w, es).out = w.out \o es
  BY <1>1, EmitFields
<1> QED
  BY <1>1, <1>2, MeekAppend DEF Meeks

LEMMA MeekBegin ==
    ASSUME NEW x, Settled(x)
    PROVE  Meeks(x.now, Draft(x))
  BY DraftTracked, MeekLiterals DEF Meeks

LEMMA MeekEnd ==
    ASSUME NEW at, NEW w, Meeks(at, w), Drafted(w).ok
    PROVE  MeekList(at, Drafted(w).events)
  BY DEF Meeks, Drafted, Guarded, Rejected

\* A fact about the backends or the firewall.
LEMMA MeekRecord ==
    ASSUME NEW at, NEW w, Meeks(at, w)
    PROVE  /\ Meeks(at, RecordBackends(w, at))
           /\ \A blocking : Meeks(at, RecordBlocking(w, blocking, at))
<1>1. ASSUME NEW e, e.type = "FirewallAvailabilityChanged"
                    \/ (e.type = "BackendAvailabilityChanged" /\ e.at = at)
      PROVE  Meeks(at, Emit(w, <<e>>))
  <2>1. Meek(at, e)
    BY <1>1 DEF Meek, MeekTypes
  <2>2. Listed(<<e>>) /\ MeekList(at, <<e>>)
    BY <2>1, MeekLiterals, ListedLiterals
  <2> QED
    BY <2>2, MeekEmit
<1>2. Meeks(at, RecordBackends(w, at))
  <2> DEFINE pages == StarvedPages(w.st, at)
             e == [type |-> "BackendAvailabilityChanged", up |-> pages = {},
                   pages |-> pages, at |-> at]
  <2>1. RecordBackends(w, at) = w \/ RecordBackends(w, at) = Emit(w, <<e>>)
    BY DEF RecordBackends, RecordStarved
  <2>2. e.type = "BackendAvailabilityChanged" /\ e.at = at
    OBVIOUS
  <2> HIDE DEF e
  <2> QED
    BY <1>1, <2>1, <2>2
<1>3. ASSUME NEW blocking
      PROVE  Meeks(at, RecordBlocking(w, blocking, at))
  <2> DEFINE e == [type |-> "FirewallAvailabilityChanged", up |-> blocking = {},
                   blocking |-> blocking, at |-> at]
  <2>1. RecordBlocking(w, blocking, at) = w \/ RecordBlocking(w, blocking, at) = Emit(w, <<e>>)
    BY DEF RecordBlocking
  <2>2. e.type = "FirewallAvailabilityChanged"
    OBVIOUS
  <2> HIDE DEF e
  <2> QED
    BY <1>1, <2>1, <2>2
<1> QED
  BY <1>2, <1>3

\* Growth that was waiting.
LEMMA MeekGrowth ==
    ASSUME NEW at, NEW w, Meeks(at, w), NEW g, NEW t
    PROVE  Meeks(at, Emit(w, PendingGrowth(w.st, g, t)))
<1> DEFINE es == PendingGrowth(w.st, g, t)
           a == GrowthFact(w.st, g, t)
           b == GrowthUp(w.st, g, t)
<1>1. es = <<>> \/ es = <<a>> \/ es = <<a, b>>
  BY PendingGrowthIs
<1>2. Meek(at, a) /\ Meek(at, b)
  BY DEF GrowthFact, GrowthUp, DatabaseUp, Meek, MeekTypes
<1> HIDE DEF es, a, b
<1>3. Listed(es) /\ MeekList(at, es)
  BY <1>1, <1>2, MeekLiterals, ListedLiterals
<1>4. Meeks(at, Emit(w, es))
  BY <1>3, MeekEmit
<1> QED
  BY <1>4 DEF es

LEMMA MeekGrow ==
    ASSUME NEW at, NEW w, Meeks(at, w), NEW gs, IsFiniteSet(gs), NEW t
    PROVE  Meeks(at, Grow(w, gs, t))
<1> DEFINE d == [T |-> t]
           order == Ascending(gs)
           n == Cardinality(gs)
<1>1. d.T = t
  OBVIOUS
<1>2. n \in Nat
  BY FS_CardinalityType
<1>3. DOMAIN order = 1..n
  BY DEF Ascending, Sorted
<1>4. Grow(w, gs, t) = AllGrow(w, order, t)
  BY DEF Grow, AllGrow
<1> HIDE DEF d, order, n
<1>5. Growths!Folded(d, w, order) = AllGrow(w, order, t)
  BY <1>1, GrowthsFold
<1>6. PICK g : Growths!Unfolds(g, d, w, order, n)
  BY <1>2, <1>3, Growths!Unfolded
<1>7. /\ g[0] = w /\ Growths!Folded(d, w, order) = g[n]
      /\ \A k \in 1..n : g[k] = GrowIn(d, g[k - 1], order[k])
  BY <1>6 DEF Growths!Unfolds
<1> DEFINE S == {k \in Nat : k <= n => Meeks(at, g[k])}
<1>8. 0 \in S
  BY <1>7
<1>9. ASSUME NEW k \in Nat, k \in S
      PROVE  k + 1 \in S
  <2> SUFFICES ASSUME k + 1 <= n
               PROVE  Meeks(at, g[k + 1])
    OBVIOUS
  <2>1. Meeks(at, g[k]) /\ k + 1 \in 1..n /\ (k + 1) - 1 = k
    BY <1>2, <1>9
  <2>2. g[k + 1] = GrowIn(d, g[k], order[k + 1])
    BY <1>7, <2>1
  <2>3. g[k + 1] = Emit(g[k], PendingGrowth(g[k].st, order[k + 1], t))
    BY <1>1, <2>2 DEF GrowIn
  <2> QED
    BY <2>1, <2>3, MeekGrowth
<1> HIDE DEF S
<1>10. n \in S
  BY <1>2, <1>8, <1>9, Events!SetInduction
<1>11. Meeks(at, g[n])
  BY <1>2, <1>10 DEF S
<1> QED
  BY <1>4, <1>5, <1>7, <1>11

\* A drained server leaves.
LEMMA MeekLeave ==
    ASSUME NEW at, NEW w, Meeks(at, w), NEW i
    PROVE  Meeks(at, LeaveIfIdle(w, i, at))
<1> DEFINE p == Leave(w.st, i, at)
           a == DeletedFirst(i, at)
           b == Removed(w.st, i, at)
           c == Succeed(Delete(i), at)
<1>1. LeaveIfIdle(w, i, at) = w \/ LeaveIfIdle(w, i, at) = Emit(w, p \o <<c>>)
  BY DEF LeaveIfIdle
<1>2. Meek(at, a) /\ Meek(at, b) /\ Meek(at, c)
  BY DEF DeletedFirst, Removed, Succeed, Meek, MeekTypes
<1>3. p = <<a, b>> \/ p = <<b>>
  BY LeaveIs
<1> HIDE DEF p, a, b, c
<1>4. Listed(p) /\ MeekList(at, p) /\ Listed(<<c>>) /\ MeekList(at, <<c>>)
  BY <1>2, <1>3, MeekLiterals, ListedLiterals
<1>5. Listed(p \o <<c>>) /\ MeekList(at, p \o <<c>>)
  BY <1>4, ListedAppend, MeekAppend
<1> QED
  BY <1>1, <1>5, MeekEmit
----------------------------------------------------------------------------
(* Which events a command decides                                           *)

\* A fact that a draft emits for each event of a list it is given.
LEMMA MeekFirst ==
    ASSUME NEW x, Settled(x), NEW es, Listed(es), MeekList(x.now, es)
    PROVE  Meeks(x.now, Emit(Draft(x), es))
  BY MeekBegin, MeekEmit

\* What a decision ends with.
LEMMA MeekRecorded ==
    ASSUME NEW at, NEW w, Meeks(at, w), NEW d, d.ok,
           \/ d = Drafted(w) \/ d = Drafted(RecordBackends(w, at))
           \/ d = WithAvailability(w, at)
    PROVE  MeekList(at, d.events)
<1>1. CASE d = Drafted(w)
  BY <1>1, MeekEnd
<1>2. CASE d = Drafted(RecordBackends(w, at))
  <2> DEFINE v == RecordBackends(w, at)
  <2>1. Meeks(at, v) /\ d = Drafted(v)
    BY <1>2, MeekRecord
  <2> HIDE DEF v
  <2> QED
    BY <2>1, MeekEnd
<1>3. CASE d = WithAvailability(w, at)
  <2> DEFINE u == RecordBlocking(w, Blocking(w.st, at), at)
             v == RecordBackends(u, at)
  <2>1. Meeks(at, u)
    BY MeekRecord
  <2>2. d = Drafted(v)
    BY <1>3 DEF WithAvailability
  <2> HIDE DEF u
  <2>3. Meeks(at, v)
    BY <2>1, MeekRecord
  <2> HIDE DEF v
  <2> QED
    BY <2>2, <2>3, MeekEnd
<1> QED
  BY <1>1, <1>2, <1>3

\* A decision that gives its events as they are.
LEMMA MeekPlain ==
    ASSUME NEW at, NEW guard, NEW es, MeekList(at, es), NEW d, d = Guarded(guard, es), d.ok
    PROVE  MeekList(at, d.events)
  BY DEF Guarded, Rejected

LEMMA AddServerMeek ==
    ASSUME NEW x, NEW i \in Servers, DecideAddServer(x, i).ok
    PROVE  MeekList(x.now, DecideAddServer(x, i).events)
<1> DEFINE a == Start(Create(i))
           b == [type |-> "ServerProvisioningStarted", op |-> Create(i), server |-> i,
                 at |-> x.now, ready |-> x.now + Provisioning]
           d == DecideAddServer(x, i)
<1>1. Meek(x.now, a) /\ Meek(x.now, b)
  BY DEF Start, Meek, MeekTypes
<1>2. d = Guarded(i \notin DOMAIN x.servers, <<a, b>>) /\ d.ok
  BY DEF DecideAddServer
<1> HIDE DEF a, b, d
<1>3. MeekList(x.now, <<a, b>>)
  BY <1>1, MeekLiterals
<1>4. MeekList(x.now, d.events)
  BY <1>2, <1>3, MeekPlain
<1> QED
  BY <1>4 DEF d

LEMMA RemoveServerMeek ==
    ASSUME NEW x, Settled(x), NEW i, DecideRemoveServer(x, i).ok
    PROVE  MeekList(x.now, DecideRemoveServer(x, i).events)
<1> DEFINE T == x.now
           a == Start(Delete(i))
           b == [type |-> "ServerDrainingStarted", op |-> Delete(i), server |-> i, at |-> T]
           w == Emit(Draft(x), <<a, b>>)
           v == LeaveIfIdle(w, i, T)
           d == DecideRemoveServer(x, i)
<1>1. Meek(T, a) /\ Meek(T, b)
  BY DEF Start, Meek, MeekTypes
<1>2. (d = Rejected \/ d = Drafted(RecordBackends(v, T))) /\ d.ok
  BY DEF DecideRemoveServer
<1> HIDE DEF a, b, d
<1>3. Listed(<<a, b>>) /\ MeekList(T, <<a, b>>)
  BY <1>1, MeekLiterals, ListedLiterals
<1>4. Meeks(T, w)
  BY <1>3, MeekFirst
<1> HIDE DEF w
<1>5. Meeks(T, v)
  BY <1>4, MeekLeave
<1> HIDE DEF v
<1>6. d = Drafted(RecordBackends(v, T))
  BY <1>2 DEF Rejected
<1>7. MeekList(T, d.events)
  BY <1>2, <1>5, <1>6, MeekRecorded
<1> QED
  BY <1>7 DEF d

LEMMA RuleMeek ==
    ASSUME NEW x, Settled(x), NEW k, NEW body, NEW d, d.ok,
           d = DecideUpsertRule(x, k, body) \/ d = DecideDeleteRule(x, k)
    PROVE  MeekList(x.now, d.events)
<1> DEFINE T == x.now
           a == [type |-> "FirewallRuleUpserted", rule |-> k, body |-> body, at |-> T]
           b == [type |-> "FirewallRuleDeleted", rule |-> k, at |-> T]
<1>1. Meek(T, a) /\ Meek(T, b)
  BY DEF Meek, MeekTypes
<1>2. \/ d = Rejected
      \/ d = WithAvailability(Emit(Draft(x), <<a>>), T)
      \/ d = WithAvailability(Emit(Draft(x), <<b>>), T)
  BY DEF DecideUpsertRule, DecideDeleteRule
<1> HIDE DEF a, b
<1>3. ASSUME NEW e, Meek(T, e), d = WithAvailability(Emit(Draft(x), <<e>>), T)
      PROVE  MeekList(T, d.events)
  <2> DEFINE w == Emit(Draft(x), <<e>>)
  <2>1. Meeks(T, w)
    BY <1>3, MeekLiterals, ListedLiterals, MeekFirst
  <2>2. d = WithAvailability(w, T)
    BY <1>3
  <2> HIDE DEF w
  <2> QED
    BY <2>1, <2>2, MeekRecorded
<1> QED
  BY <1>1, <1>2, <1>3 DEF Rejected

LEMMA CreateDatabaseMeek ==
    ASSUME NEW x, NEW i, DecideCreateDatabase(x, i).ok
    PROVE  MeekList(x.now, DecideCreateDatabase(x, i).events)
<1> DEFINE a == [type |-> "DatabaseCreated", db |-> i, at |-> x.now]
           d == DecideCreateDatabase(x, i)
<1>1. Meek(x.now, a)
  BY DEF Meek, MeekTypes
<1>2. (\E guard : d = Guarded(guard, <<a>>)) /\ d.ok
  BY DEF DecideCreateDatabase
<1> HIDE DEF a, d
<1>3. MeekList(x.now, <<a>>)
  BY <1>1, MeekLiterals
<1>4. MeekList(x.now, d.events)
  BY <1>2, <1>3, MeekPlain
<1> QED
  BY <1>4 DEF d

LEMMA CleanupMeek ==
    ASSUME NEW x, Settled(x), NEW i, DecideCleanup(x, i).ok
    PROVE  MeekList(x.now, DecideCleanup(x, i).events)
<1> DEFINE T == x.now
           logs == x.servers[i].logs + (IF i \in DOMAIN x.dbs THEN x.dbs[i].logs ELSE 0)
           e == [type |-> "DiskLogsCleaned", server |-> i, freed |-> logs, at |-> T]
           gs == {g \in DOMAIN x.growth : /\ i \in DOMAIN x.dbs /\ x.growth[g].blocked
                                          /\ x.growth[g].db = i}
           w == Emit(Draft(x), <<e>>)
           v == Grow(w, gs, T)
           d == DecideCleanup(x, i)
<1>1. Meek(T, e)
  BY DEF Meek, MeekTypes
<1>2. (d = Rejected \/ d = Drafted(RecordBackends(v, T))) /\ d.ok
  BY DEF DecideCleanup
<1>3. IsFiniteSet(gs)
  <2>1. IsFiniteSet(DOMAIN x.growth)
    BY DEF Settled, Sound, Steady, Tables
  <2> QED
    BY <2>1, FS_Subset
<1> HIDE DEF e, gs, d
<1>4. Listed(<<e>>) /\ MeekList(T, <<e>>)
  BY <1>1, MeekLiterals, ListedLiterals
<1>5. Meeks(T, w)
  BY <1>4, MeekFirst
<1> HIDE DEF w
<1>6. Meeks(T, v)
  BY <1>3, <1>5, MeekGrow
<1> HIDE DEF v
<1>7. d = Drafted(RecordBackends(v, T))
  BY <1>2 DEF Rejected
<1>8. MeekList(T, d.events)
  BY <1>2, <1>6, <1>7, MeekRecorded
<1> QED
  BY <1>8 DEF d

LEMMA CopyMeek ==
    ASSUME NEW x, NEW i, NEW b, NEW d, d = DecideBackup(x, i, b) \/ d = DecideRestore(x, i, b), d.ok
    PROVE  MeekList(x.now, d.events)
<1> DEFINE T == x.now
<1>1. ASSUME d = DecideBackup(x, i, b)
      PROVE  \E guard, e, f, g, h : /\ Meek(T, e) /\ Meek(T, f) /\ Meek(T, g) /\ Meek(T, h)
                                    /\ d = Guarded(guard, <<e, f, g, h>>)
  <2> DEFINE e == Start(<<"backup", i>>)
             f == [type |-> "DatabaseBackupStarted", backup |-> b, db |-> i, at |-> T]
             g == [type |-> "DatabaseBackupCompleted", backup |-> b, db |-> i, at |-> T,
                   data |-> x.dbs[i].data, version |-> x.dbs[i].version,
                   rate |-> BackupRate(x.dbs[i].data)]
             h == Succeed(<<"backup", i>>, T)
  <2>1. Meek(T, e) /\ Meek(T, f) /\ Meek(T, g) /\ Meek(T, h)
    BY DEF Start, Succeed, Meek, MeekTypes
  <2>2. \E guard : d = Guarded(guard, <<e, f, g, h>>)
    BY <1>1 DEF DecideBackup
  <2> HIDE DEF e, f, g, h
  <2> QED
    BY <2>1, <2>2
<1>2. ASSUME d = DecideRestore(x, i, b)
      PROVE  \E guard, e, f, g, h : /\ Meek(T, e) /\ Meek(T, f) /\ Meek(T, g) /\ Meek(T, h)
                                    /\ d = Guarded(guard, <<e, f, g, h>>)
  <2> DEFINE e == Start(<<"restore", i>>)
             f == [type |-> "DatabaseRestoreStarted", backup |-> b, db |-> i, at |-> T]
             g == [type |-> "DatabaseRestoreCompleted", backup |-> b, db |-> i, at |-> T,
                   data |-> x.backups[b].data, version |-> x.backups[b].version]
             h == Succeed(<<"restore", i>>, T)
  <2>1. Meek(T, e) /\ Meek(T, f) /\ Meek(T, g) /\ Meek(T, h)
    BY DEF Start, Succeed, Meek, MeekTypes
  <2>2. \E guard : d = Guarded(guard, <<e, f, g, h>>)
    BY <1>2 DEF DecideRestore
  <2> HIDE DEF e, f, g, h
  <2> QED
    BY <2>1, <2>2
<1>3. PICK guard, e, f, g, h : /\ Meek(T, e) /\ Meek(T, f) /\ Meek(T, g) /\ Meek(T, h)
                               /\ d = Guarded(guard, <<e, f, g, h>>)
  BY <1>1, <1>2
<1>4. MeekList(T, <<e, f, g, h>>)
  BY <1>3, MeekLiterals
<1> QED
  BY <1>3, <1>4, MeekPlain

LEMMA StopSiteMeek ==
    ASSUME NEW x, DecideStopSite(x).ok
    PROVE  MeekList(x.now, DecideStopSite(x).events)
<1> DEFINE T == x.now
           a == Start(SiteStop)
           b == [type |-> "SiteStopStarted", op |-> SiteStop, at |-> T]
           c == [type |-> "SiteStopped", op |-> SiteStop, at |-> T]
           f == Succeed(SiteStop, T)
           rest == IF DOMAIN x.conns # {} THEN <<>> ELSE <<c, f>>
           d == DecideStopSite(x)
<1>1. Meek(T, a) /\ Meek(T, b) /\ Meek(T, c) /\ Meek(T, f)
  BY DEF Start, Succeed, Meek, MeekTypes
<1>2. /\ d = Guarded(TRUE, <<a, f>>) \/ d = Rejected \/ d = Guarded(TRUE, <<a, b>> \o rest)
      /\ d.ok
  BY DEF DecideStopSite
<1> HIDE DEF a, b, c, f, d
<1>3. MeekList(T, <<a, f>>) /\ Listed(<<a, b>>) /\ MeekList(T, <<a, b>>)
  BY <1>1, MeekLiterals, ListedLiterals
<1>4. Listed(rest) /\ MeekList(T, rest)
  BY <1>1, MeekLiterals, ListedLiterals
<1> HIDE DEF rest
<1>5. MeekList(T, <<a, b>> \o rest)
  BY <1>3, <1>4, MeekAppend
<1>6. d # Rejected
  BY <1>2 DEF Rejected
<1>7. MeekList(T, d.events)
  BY <1>2, <1>3, <1>5, <1>6, MeekPlain
<1> QED
  BY <1>7 DEF d

LEMMA StartSiteMeek ==
    ASSUME NEW x, Settled(x), DecideStartSite(x).ok
    PROVE  MeekList(x.now, DecideStartSite(x).events)
<1> DEFINE T == x.now
           e == [type |-> "SiteStarted", db |-> x.site.db, at |-> T]
           gs == {g \in DOMAIN x.growth : ~x.growth[g].blocked}
           w == Emit(Draft(x), <<e>>)
           v == Grow(w, gs, T)
           d == DecideStartSite(x)
<1>1. Meek(T, e)
  BY DEF Meek, MeekTypes
<1>2. (d = Guarded(TRUE, <<>>) \/ d = Rejected \/ d = Drafted(v)) /\ d.ok
  BY DEF DecideStartSite
<1>3. IsFiniteSet(gs)
  <2>1. IsFiniteSet(DOMAIN x.growth)
    BY DEF Settled, Sound, Steady, Tables
  <2> QED
    BY <2>1, FS_Subset
<1> HIDE DEF e, gs, d
<1>4. Listed(<<e>>) /\ MeekList(T, <<e>>) /\ MeekList(T, <<>>)
  BY <1>1, MeekLiterals, ListedLiterals
<1>5. Meeks(T, w)
  BY <1>4, MeekFirst
<1> HIDE DEF w
<1>6. Meeks(T, v)
  BY <1>3, <1>5, MeekGrow
<1> HIDE DEF v
<1>7. ASSUME d = Guarded(TRUE, <<>>)
      PROVE  MeekList(T, d.events)
  BY <1>2, <1>4, <1>7, MeekPlain
<1>8. ASSUME d = Drafted(v)
      PROVE  MeekList(T, d.events)
  BY <1>2, <1>6, <1>8, MeekRecorded
<1>9. d # Rejected
  BY <1>2 DEF Rejected
<1>10. MeekList(T, d.events)
  BY <1>2, <1>7, <1>8, <1>9
<1> QED
  BY <1>10 DEF d

LEMMA SetDatabaseMeek ==
    ASSUME NEW x, NEW i, NEW j, DecideSetDatabase(x, i, j).ok
    PROVE  MeekList(x.now, DecideSetDatabase(x, i, j).events)
<1> DEFINE a == [type |-> "SiteDatabaseChanged", previous |-> x.site.db, db |-> j,
                 at |-> x.now]
           d == DecideSetDatabase(x, i, j)
<1>1. Meek(x.now, a)
  BY DEF Meek, MeekTypes
<1>2. (\E guard : d = Guarded(guard, <<a>>)) /\ d.ok
  BY DEF DecideSetDatabase
<1> HIDE DEF a, d
<1>3. MeekList(x.now, <<a>>)
  BY <1>1, MeekLiterals
<1>4. MeekList(x.now, d.events)
  BY <1>2, <1>3, MeekPlain
<1> QED
  BY <1>4 DEF d
----------------------------------------------------------------------------
(* What a step of the run commits                                           *)

\* What a session and a replay of its journal both become from these events.
Replayable(x, es) ==
  \/ MeekList(x.now, es)
  \/ \E e, rest : Pruning(x, e) /\ Listed(rest) /\ es = <<e>> \o rest

LEMMA ProbeStarts ==
    ASSUME NEW x, Settled(x), NEW q, NEW page \in Pages, NEW profile,
           DecideProbe(x, q, page, profile).ok
    PROVE  Replayable(x, DecideProbe(x, q, page, profile).events)
<1> DEFINE T == x.now
           u == Draft(x)
           a == Asked(x, q, page)
           es == OpenPage(x, q, page, profile)
           w == Emit(u, es)
           v == RecordBackends(w, T)
           d == DecideProbe(x, q, page, profile)
           f == [type |-> "BackendAvailabilityChanged", up |-> StarvedPages(w.st, T) = {},
                 pages |-> StarvedPages(w.st, T), at |-> T]
<1>1. Draftlike(u) /\ u.out = <<>>
  BY DraftTracked
<1>2. d = Drafted(v) /\ d.ok
  BY DEF DecideProbe
<1>3. PICK rest : es = <<a>> \o rest /\ Listed(rest)
  <2>1. es = PageList(x, q, page, Obstacle(x, page, profile))
    BY PageEventsIs DEF OpenPage
  <2>2. \E rest : es = <<a>> \o rest /\ MildList(rest)
    BY <2>1, PageListMild
  <2> QED
    BY <2>2 DEF MildList
<1>4. v = w \/ v = Emit(w, <<f>>)
  BY DEF RecordBackends, RecordStarved
<1>5. Pruning(x, a)
  BY DEF Pruning, Asked
<1> HIDE DEF u, a, es, d, f
<1>6. Listed(<<a>>) /\ Listed(<<f>>) /\ Listed(rest \o <<f>>) /\ Listed(es)
  BY <1>3, ListedLiterals, ListedAppend
<1>7. Draftlike(w) /\ w.out = es
  <2>1. Draftlike(w) /\ w.out = <<>> \o es
    BY <1>1, <1>6, EmitFields
  <2>2. <<>> \o es = es
    <3>1. PICK S : es \in Seq(S)
      BY <1>6 DEF Listed
    <3> QED
      BY <3>1
  <2> QED
    BY <2>1, <2>2
<1> HIDE DEF w
<1>8. v.out = <<a>> \o rest \/ v.out = <<a>> \o (rest \o <<f>>)
  <2>1. Emit(w, <<f>>).out = es \o <<f>>
    BY <1>6, <1>7, EmitFields
  <2>2. es \o <<f>> = <<a>> \o (rest \o <<f>>)
    BY <1>3, <1>6, ConcatAssociates
  <2> QED
    BY <1>3, <1>4, <1>7, <2>1, <2>2
<1> HIDE DEF v
<1>9. d.events = v.out
  BY <1>2 DEF Drafted, Guarded, Rejected
<1>10. Replayable(x, d.events)
  BY <1>3, <1>5, <1>6, <1>8, <1>9 DEF Replayable
<1> QED
  BY <1>10 DEF d

LEMMA AdvanceStarts ==
    ASSUME NEW x, Settled(x), Running(x), NEW duration \in Nat \ {0}, NEW stop, NEW filter,
           DecideAdvance(x, duration, stop, filter).ok
    PROVE  Replayable(x, DecideAdvance(x, duration, stop, filter).events)
<1> DEFINE es == DecideAdvance(x, duration, stop, filter).events
<1>1. PICK T, rest : Listed(rest) /\ es = <<TimeAdvanced(x.now, T)>> \o rest
  BY AdvanceLands
<1> HIDE DEF es
<1>2. Pruning(x, TimeAdvanced(x.now, T))
  BY DEF Pruning, TimeAdvanced
<1>3. Replayable(x, es)
  BY <1>1, <1>2 DEF Replayable
<1> QED
  BY <1>3 DEF es

\* A step that changes the world commits the events of a decision, which land
\* and can be replayed.
Commits ==
  \E es : Landed(s, es, ApplyAll(s, es)) /\ Replayable(s, es) /\ Commit(es)

LEMMA Committed ==
    ASSUME NEW kind, NEW d, Command(kind, d),
           d.ok => Landed(s, d.events, ApplyAll(s, d.events)) /\ Replayable(s, d.events)
    PROVE  Commits
  BY DEF Command, Commits

LEMMA AdvanceCommits ==
    ASSUME Settled(s), Advance
    PROVE  Commits \/ UNCHANGED <<s, fired, replayed>>
<1>1. Running(s)
  BY DEF Advance
<1>2. PICK duration \in Durations, stop \in BOOLEAN, filter \in Filters :
        \E d \in {DecideAdvance(s, duration, stop, filter)} :
          IF d.ok THEN Commit(d.events) /\ stuck' = FALSE
          ELSE /\ stuck' = TRUE
               /\ UNCHANGED <<s, summary, replayed, fired, copies, closed, outage>>
  BY DEF Advance
<1> DEFINE d == DecideAdvance(s, duration, stop, filter)
<1>3. duration \in Nat \ {0}
  BY CommandsAssumption
<1>4. IF d.ok THEN Commit(d.events) /\ stuck' = FALSE
      ELSE /\ stuck' = TRUE
           /\ UNCHANGED <<s, summary, replayed, fired, copies, closed, outage>>
  BY <1>2
<1>5. d.ok => Landed(s, d.events, ApplyAll(s, d.events)) /\ Replayable(s, d.events)
  BY <1>1, <1>3, AdvanceLands, AdvanceStarts
<1> HIDE DEF d
<1> QED
  BY <1>4, <1>5 DEF Commits

LEMMA StepCommits ==
    ASSUME Settled(s), Next
    PROVE  Commits \/ UNCHANGED <<s, fired, replayed>>
<1>1. Settled(s)
  OBVIOUS
<1>2. CASE Advance
  BY <1>2, AdvanceCommits
<1>3. CASE Probe
  <2>1. PICK page \in Pages, v \in Probes :
          /\ <<v, page>> \notin DOMAIN s.conns \cup DOMAIN s.capacity
          /\ Command("probe", DecideProbe(s, <<v, page>>, page, ProbeProfile))
    BY <1>3 DEF Probe
  <2> DEFINE d == DecideProbe(s, <<v, page>>, page, ProbeProfile)
  <2>2. Command("probe", d)
    BY <2>1
  <2>3. Running(s)
    BY <2>2 DEF Command
  <2>4. d.ok => Landed(s, d.events, ApplyAll(s, d.events)) /\ Replayable(s, d.events)
    BY <1>1, <2>1, <2>3, ProbeLands, ProbeStarts DEF Replayable
  <2> HIDE DEF d
  <2> QED
    BY <2>2, <2>4, Committed
<1>4. CASE AddServer
  <2>1. PICK i \in Servers : Command("server.create", DecideAddServer(s, i))
    BY <1>4 DEF AddServer
  <2> DEFINE d == DecideAddServer(s, i)
  <2>2. Command("server.create", d)
    BY <2>1
  <2>3. Running(s)
    BY <2>2 DEF Command
  <2>4. d.ok => Landed(s, d.events, ApplyAll(s, d.events)) /\ Replayable(s, d.events)
    BY <1>1, <2>1, <2>3, AddServerLands, AddServerMeek DEF Replayable
  <2> HIDE DEF d
  <2> QED
    BY <2>2, <2>4, Committed
<1>5. CASE RemoveServer
  <2>1. PICK i \in Servers : Command("server.delete", DecideRemoveServer(s, i))
    BY <1>5 DEF RemoveServer
  <2> DEFINE d == DecideRemoveServer(s, i)
  <2>2. Command("server.delete", d)
    BY <2>1
  <2>3. Running(s)
    BY <2>2 DEF Command
  <2>4. d.ok => Landed(s, d.events, ApplyAll(s, d.events)) /\ Replayable(s, d.events)
    BY <1>1, <2>1, <2>3, RemoveServerLands, RemoveServerMeek DEF Replayable
  <2> HIDE DEF d
  <2> QED
    BY <2>2, <2>4, Committed
<1>6. CASE UpsertRule
  <2>1. PICK k \in RuleIds, body \in RuleBodies : Command("firewall.rules.upsert", DecideUpsertRule(s, k, body))
    BY <1>6 DEF UpsertRule
  <2> DEFINE d == DecideUpsertRule(s, k, body)
  <2>2. Command("firewall.rules.upsert", d)
    BY <2>1
  <2>3. Running(s)
    BY <2>2 DEF Command
  <2>4. d.ok => Landed(s, d.events, ApplyAll(s, d.events)) /\ Replayable(s, d.events)
    BY <1>1, <2>1, <2>3, UpsertRuleLands, RuleMeek DEF Replayable
  <2> HIDE DEF d
  <2> QED
    BY <2>2, <2>4, Committed
<1>7. CASE DeleteRule
  <2>1. PICK k \in RuleIds : Command("firewall.rules.delete", DecideDeleteRule(s, k))
    BY <1>7 DEF DeleteRule
  <2> DEFINE d == DecideDeleteRule(s, k)
  <2>2. Command("firewall.rules.delete", d)
    BY <2>1
  <2>3. Running(s)
    BY <2>2 DEF Command
  <2>4. d.ok => Landed(s, d.events, ApplyAll(s, d.events)) /\ Replayable(s, d.events)
    BY <1>1, <2>1, <2>3, DeleteRuleLands, RuleMeek DEF Replayable
  <2> HIDE DEF d
  <2> QED
    BY <2>2, <2>4, Committed
<1>8. CASE CreateDatabase
  <2>1. PICK i \in Servers : Command("database.create", DecideCreateDatabase(s, i))
    BY <1>8 DEF CreateDatabase
  <2> DEFINE d == DecideCreateDatabase(s, i)
  <2>2. Command("database.create", d)
    BY <2>1
  <2>3. Running(s)
    BY <2>2 DEF Command
  <2>4. d.ok => Landed(s, d.events, ApplyAll(s, d.events)) /\ Replayable(s, d.events)
    BY <1>1, <2>1, <2>3, CreateDatabaseLands, CreateDatabaseMeek DEF Replayable
  <2> HIDE DEF d
  <2> QED
    BY <2>2, <2>4, Committed
<1>9. CASE CleanupLogs
  <2>1. PICK i \in Servers : Command("disk.cleanup", DecideCleanup(s, i))
    BY <1>9 DEF CleanupLogs
  <2> DEFINE d == DecideCleanup(s, i)
  <2>2. Command("disk.cleanup", d)
    BY <2>1
  <2>3. Running(s)
    BY <2>2 DEF Command
  <2>4. d.ok => Landed(s, d.events, ApplyAll(s, d.events)) /\ Replayable(s, d.events)
    BY <1>1, <2>1, <2>3, CleanupLands, CleanupMeek DEF Replayable
  <2> HIDE DEF d
  <2> QED
    BY <2>2, <2>4, Committed
<1>10. CASE Backup
  <2>1. PICK i \in Servers, b \in Backups : Command("database.backup", DecideBackup(s, i, b))
    BY <1>10 DEF Backup
  <2> DEFINE d == DecideBackup(s, i, b)
  <2>2. Command("database.backup", d)
    BY <2>1
  <2>3. Running(s)
    BY <2>2 DEF Command
  <2>4. d.ok => Landed(s, d.events, ApplyAll(s, d.events)) /\ Replayable(s, d.events)
    BY <1>1, <2>1, <2>3, BackupLands, CopyMeek DEF Replayable
  <2> HIDE DEF d
  <2> QED
    BY <2>2, <2>4, Committed
<1>11. CASE Restore
  <2>1. PICK i \in Servers, b \in Backups : Command("database.restore", DecideRestore(s, i, b))
    BY <1>11 DEF Restore
  <2> DEFINE d == DecideRestore(s, i, b)
  <2>2. Command("database.restore", d)
    BY <2>1
  <2>3. Running(s)
    BY <2>2 DEF Command
  <2>4. d.ok => Landed(s, d.events, ApplyAll(s, d.events)) /\ Replayable(s, d.events)
    BY <1>1, <2>1, <2>3, RestoreLands, CopyMeek DEF Replayable
  <2> HIDE DEF d
  <2> QED
    BY <2>2, <2>4, Committed
<1>12. CASE StopSite
  <2> DEFINE d == DecideStopSite(s)
  <2>2. Command("site.stop", d)
    BY <1>12 DEF StopSite
  <2>3. Running(s)
    BY <2>2 DEF Command
  <2>4. d.ok => Landed(s, d.events, ApplyAll(s, d.events)) /\ Replayable(s, d.events)
    BY <1>1, <2>3, StopSiteLands, StopSiteMeek DEF Replayable
  <2> HIDE DEF d
  <2> QED
    BY <2>2, <2>4, Committed
<1>13. CASE StartSite
  <2> DEFINE d == DecideStartSite(s)
  <2>2. Command("site.start", d)
    BY <1>13 DEF StartSite
  <2>3. Running(s)
    BY <2>2 DEF Command
  <2>4. d.ok => Landed(s, d.events, ApplyAll(s, d.events)) /\ Replayable(s, d.events)
    BY <1>1, <2>3, StartSiteLands, StartSiteMeek DEF Replayable
  <2> HIDE DEF d
  <2> QED
    BY <2>2, <2>4, Committed
<1>14. CASE SetDatabase
  <2>1. PICK i, j \in Servers : Command("site.database.set", DecideSetDatabase(s, i, j))
    BY <1>14 DEF SetDatabase
  <2> DEFINE d == DecideSetDatabase(s, i, j)
  <2>2. Command("site.database.set", d)
    BY <2>1
  <2>3. Running(s)
    BY <2>2 DEF Command
  <2>4. d.ok => Landed(s, d.events, ApplyAll(s, d.events)) /\ Replayable(s, d.events)
    BY <1>1, <2>1, <2>3, SetDatabaseLands, SetDatabaseMeek DEF Replayable
  <2> HIDE DEF d
  <2> QED
    BY <2>2, <2>4, Committed
<1> QED
  BY <1>2, <1>3, <1>4, <1>5, <1>6, <1>7, <1>8, <1>9, <1>10, <1>11, <1>12, <1>13, <1>14 DEF Next
----------------------------------------------------------------------------
(***************************************************************************)
(* The run.  Its inductive invariant: between two commands the aggregate is *)
(* settled, and what has happened is the schedule up to its cursor.         *)
(***************************************************************************)
RunInv == Settled(s) /\ fired = FirstItems(s.cursor)

LEMMA RunBegins ==
    ASSUME Init
    PROVE  RunInv
<1>1. s = NewWorld /\ fired = <<>>
  BY DEF Init
<1>2. Settled(s)
  BY <1>1, NewWorldSettled
<1>3. s.cursor = 0
  BY <1>1, NewWorldIs
<1>4. FirstItems(0) = <<>>
  BY DEF FirstItems
<1> QED
  BY <1>1, <1>2, <1>3, <1>4 DEF RunInv

\* A command that lands leaves the run as it should be.
LEMMA CommitKeeps ==
    ASSUME RunInv, NEW es, Landed(s, es, ApplyAll(s, es)), Commit(es)
    PROVE  RunInv'
<1> DEFINE t == ApplyAll(s, es)
<1>1. s' = Trim(t) /\ fired' = FoldLeft(Occurs, fired, es)
  BY DEF Commit
<1>2. fired = FirstItems(s.cursor)
  BY DEF RunInv
<1>3. FoldLeft(Occurs, FirstItems(s.cursor), es) = FirstItems(t.cursor)
  BY DEF Landed
<1>4. Landed(s, es, t)
  OBVIOUS
<1> HIDE DEF t
<1>5. Settled(Trim(t)) /\ Trim(t).cursor = t.cursor
  BY <1>4, TrimSettles
<1>6. FoldLeft(Occurs, fired, es) = FoldLeft(Occurs, FirstItems(s.cursor), es)
  BY <1>2
<1>7. fired' = FirstItems(t.cursor)
  BY <1>1, <1>3, <1>6
<1>8. s'.cursor = t.cursor /\ Settled(s')
  BY <1>1, <1>5
<1> QED
  BY <1>7, <1>8 DEF RunInv

LEMMA RunStep ==
    ASSUME RunInv, [Next]_vars
    PROVE  RunInv'
<1>1. Settled(s)
  BY DEF RunInv
<1>2. CASE Commits
  BY <1>2, CommitKeeps DEF Commits
<1>3. CASE UNCHANGED <<s, fired, replayed>>
  BY <1>3 DEF RunInv
<1>4. CASE UNCHANGED vars
  BY <1>4 DEF RunInv, vars
<1> QED
  BY <1>1, <1>2, <1>3, <1>4, StepCommits

\* Between two commands the aggregate is settled: its tables agree with each
\* other, its cached verdicts are those of the present moment, whatever was due
\* has been done, and the schedule has happened exactly up to the cursor, for
\* every catalog, schedule and sequence of commands (RunSession.Execute).
THEOREM RunStaysSettled == Spec => []RunInv
<1>1. Init => RunInv
  BY RunBegins
<1>2. RunInv /\ [Next]_vars => RunInv'
  BY RunStep
<1> QED
  BY <1>1, <1>2, PTL DEF Spec
----------------------------------------------------------------------------
(* What the invariant says                                                  *)

\* The index that pruneExpiredCapacity maintains is the sum of the allocations
\* that live, each on a server that is there, and no backend is overloaded.
THEOREM CapacityHolds == Spec => []CapacityConserved
<1>1. ASSUME RunInv PROVE CapacityConserved
  <2>1. Index(s.now, s) /\ s.indexed = s.now /\ s.now \in Int
    BY <1>1 DEF RunInv, Settled, Sound, Steady
  <2>2. \A r \in DOMAIN s.capacity :
          s.capacity[r].until > s.now /\ s.capacity[r].server \in DOMAIN s.servers
    BY <2>1 DEF Index, Allocation
  <2>3. \A i \in Servers :
          /\ s.used[i] = LoadOf(s.capacity, OnServer(s.capacity, i))
          /\ s.used[i] <= Catalog[i].capacity
    BY <2>1 DEF Index
  <2>4. \A i \in Servers : OnServer(s.capacity, i)
                             = {r \in DOMAIN s.capacity : s.capacity[r].server = i}
    BY DEF OnServer
  <2> QED
    BY <2>1, <2>2, <2>3, <2>4 DEF CapacityConserved
<1> QED
  BY <1>1, RunStaysSettled, PTL

\* The connection counters that State.Apply keeps beside the table are what
\* counting the table gives, and a database is marked full exactly at its limit.
THEOREM ConnectionsHold == Spec => []ConnectionsCounted
<1>1. ASSUME RunInv PROVE ConnectionsCounted
  <2>1. Connected(s) /\ Marked(s) /\ Placed(s)
    BY <1>1 DEF RunInv, Settled, Sound, Steady
  <2>2. \A i \in DOMAIN s.dbs : i \in Servers
    BY <2>1 DEF Placed
  <2>3. \A i \in Servers : ConnectionsOf(s, i) = {r \in DOMAIN s.conns : s.conns[r].db = i}
    BY DEF ConnectionsOf
  <2>4. \A i \in Servers : /\ s.counts[i] = Cardinality(ConnectionsOf(s, i))
                           /\ s.counts[i] <= Catalog[i].limit
    BY <2>1 DEF Connected
  <2>5. s.site.status = "stopped" => DOMAIN s.conns = {}
    BY <2>1 DEF Connected
  <2>6. \A i \in DOMAIN s.dbs :
          ("connection_limit" \in s.dbs[i].reasons) <=> (s.counts[i] = Catalog[i].limit)
    BY <2>1 DEF Marked
  <2> QED
    BY <2>2, <2>3, <2>4, <2>5, <2>6 DEF ConnectionsCounted
<1> QED
  BY <1>1, RunStaysSettled, PTL

LEMMA DenyingBlocks ==
    ASSUME NEW x, NEW at
    PROVE  Denying(x.rules, at) = (Blocking(x, at) # {})
<1> DEFINE y == [rules |-> x.rules]
<1>1. y.rules = x.rules
  OBVIOUS
<1> HIDE DEF y
<1>2. \A p : Matching(y, p, at) = Matching(x, p, at)
  BY <1>1 DEF Matching
<1>3. \A p : Deciding(y, p, at) = Deciding(x, p, at)
  BY <1>1, <1>2 DEF Deciding
<1>4. Blocking(y, at) = Blocking(x, at)
  BY <1>1, <1>3 DEF Blocking
<1> QED
  BY <1>4 DEF Denying, y

\* firewallDown and backendDown, set by events alone, are what evaluating rules
\* and capacity at the present moment gives, and an outage is open exactly then.
THEOREM AvailabilityHolds == Spec => []AvailabilityCurrent
<1>1. ASSUME RunInv PROVE AvailabilityCurrent
  <2>1. Current(s, s.now) /\ Faulted(s)
    BY <1>1 DEF RunInv, Settled, Sound, Steady
  <2>2. s.firewallDown = (Blocking(s, s.now) # {})
    BY <2>1, DenyingBlocks DEF Current
  <2>3. s.backendDown = (StarvedPages(s, s.now) # {})
    BY <2>1 DEF Current
  <2>4. s.site.since # Never <=> s.site.status # "running" \/ ~DependenciesUp(s)
    BY <2>1 DEF Faulted
  <2> QED
    BY <2>2, <2>3, <2>4 DEF AvailabilityCurrent
<1> QED
  BY <1>1, RunStaysSettled, PTL

\* However decideAdvanceTime is sliced, what pendingScheduledEvents has picked
\* is every item of the schedule whose time has come, each once and in order.
THEOREM WorldHolds == Spec => []WorldHappensOnTime
<1>1. ASSUME RunInv PROVE WorldHappensOnTime
  <2> DEFINE n == s.cursor
             past == {j \in DOMAIN Schedule : Schedule[j].at <= s.now}
  <2>1. CursorAt(n, s.now) /\ s.now \in Nat /\ fired = FirstItems(n)
    BY <1>1 DEF RunInv, Settled, Current
  <2>2. Len(Schedule) \in Nat /\ DOMAIN Schedule = 1..Len(Schedule)
    BY ScheduleAssumption, LenProperties
  <2>3. \A j \in DOMAIN Schedule : Schedule[j].at \in Nat
    BY ScheduleAssumption
  <2>4. n \in 0..Len(Schedule) /\ (\A j \in 1..n : Schedule[j].at <= s.now)
        /\ (\A j \in (n + 1)..Len(Schedule) : s.now < Schedule[j].at)
    BY <2>1 DEF CursorAt
  <2> HIDE DEF n
  <2>5. past = 1..n
    BY <2>1, <2>2, <2>3, <2>4
  <2>6. Cardinality(1..n) = n
    BY <2>4, <2>2, FS_Interval
  <2> HIDE DEF past
  <2>7. fired = [k \in 1..Cardinality(past) |-> k] /\ Cardinality(past) = n
    BY <2>1, <2>5, <2>6 DEF FirstItems
  <2>8. Len(fired) = n
    <3>1. n \in Nat /\ fired = [k \in 1..n |-> k]
      BY <2>1, <2>2, <2>4 DEF FirstItems
    <3>2. fired \in Seq(Nat)
      BY <3>1
    <3> QED
      BY <3>1, <3>2, LenProperties
  <2> QED
    BY <2>7, <2>8 DEF WorldHappensOnTime, past, n
<1> QED
  BY <1>1, RunStaysSettled, PTL

\* The operations under way are those of the servers that are not ready yet, of
\* those that still serve, and of a site that still has connections.
THEOREM OperationsHold == Spec => []OperationsSettle
<1>1. ASSUME RunInv PROVE OperationsSettle
  <2>1. Current(s, s.now)
    BY <1>1 DEF RunInv, Settled
  <2>2. /\ Assigned(s) /\ s.ops \ {SiteStop} = Busy(s)
        /\ \A i \in WithStatus(s, "provisioning") : s.servers[i].ready > s.now
        /\ \A i \in WithStatus(s, "draining") : HasLoad(s, i, s.now)
        /\ s.site.status = "stopping" => s.site.op = SiteStop /\ DOMAIN s.conns # {}
        /\ SiteStop \in s.ops <=> s.site.status = "stopping"
    BY <2>1 DEF Current, Waits, Owes
  <2>3. {i \in WithStatus(s, "provisioning") : s.servers[i].ready > s.now}
          = WithStatus(s, "provisioning")
    BY <2>2
  <2>4. {i \in WithStatus(s, "draining") : HasLoad(s, i, s.now)} = WithStatus(s, "draining")
    BY <2>2
  <2>5. \A i \in WithStatus(s, "provisioning") : s.servers[i].op = Create(i)
    BY <2>2 DEF Assigned, WithStatus
  <2>6. \A i \in WithStatus(s, "draining") : s.servers[i].op = Delete(i)
    BY <2>2 DEF Assigned, WithStatus
  <2>7. Busy(s) = {s.servers[i].op : i \in WithStatus(s, "provisioning")}
                  \cup {s.servers[i].op : i \in WithStatus(s, "draining")}
    <3>1. {Create(i) : i \in WithStatus(s, "provisioning")}
            = {s.servers[i].op : i \in WithStatus(s, "provisioning")}
      BY <2>5
    <3>2. {Delete(i) : i \in WithStatus(s, "draining")}
            = {s.servers[i].op : i \in WithStatus(s, "draining")}
      BY <2>6
    <3> QED
      BY <3>1, <3>2 DEF Busy
  <2> DEFINE last == IF s.site.status = "stopping" /\ DOMAIN s.conns # {} THEN {s.site.op} ELSE {}
             busy == {s.servers[i].op : i \in WithStatus(s, "provisioning")}
                     \cup {s.servers[i].op : i \in WithStatus(s, "draining")}
  <2>8. last = IF SiteStop \in s.ops THEN {SiteStop} ELSE {}
    BY <2>2
  <2>9. s.ops \ {SiteStop} = busy
    BY <2>2, <2>7
  <2> HIDE DEF last, busy
  <2>10. s.ops = busy \cup last
    <3>1. CASE SiteStop \in s.ops
      BY <2>8, <2>9, <3>1
    <3>2. CASE SiteStop \notin s.ops
      BY <2>8, <2>9, <3>2
    <3> QED
      BY <3>1, <3>2
  <2> QED
    BY <2>3, <2>4, <2>10 DEF OperationsSettle, last, busy
<1> QED
  BY <1>1, RunStaysSettled, PTL
----------------------------------------------------------------------------
(* The journal and the session                                              *)

ReplayInv == RunInv /\ Replays(s, replayed)

LEMMA ReplayBegins ==
    ASSUME Init
    PROVE  Replays(s, replayed)
<1> DEFINE w == NewWorld
<1>1. s = w /\ replayed = w
  BY DEF Init
<1>2. Settled(w)
  BY NewWorldSettled
<1>3. DOMAIN w = Fields /\ w.now = 0 /\ w.indexed = 0
  BY NewWorldIs
<1>4. Steady(0, w)
  BY <1>2, <1>3 DEF Settled, Sound
<1>5. w = [f \in Fields |-> w[f]]
  <2>1. w = [f \in DOMAIN w |-> w[f]]
    BY DEF NewWorld
  <2> HIDE DEF w
  <2> QED
    BY <1>3, <2>1
<1>6. w.capacity = [r \in DOMAIN w.capacity |-> w.capacity[r]]
  <2>1. w.capacity = <<>>
    BY DEF NewWorld
  <2> HIDE DEF w
  <2> QED
    BY <2>1
<1> HIDE DEF w
<1>7. Prune(w, 0) = w
  BY <1>3, <1>4, <1>5, <1>6, PruneSettled
<1>8. Index(0, w)
  BY <1>4 DEF Steady
<1> QED
  BY <1>1, <1>3, <1>7, <1>8 DEF Replays

LEMMA CommitReplays ==
    ASSUME Settled(s), Replays(s, replayed), NEW es, Landed(s, es, ApplyAll(s, es)),
           Replayable(s, es), Commit(es)
    PROVE  Replays(s', replayed')
<1> DEFINE t == ApplyAll(s, es)
           u == ApplyAll(replayed, es)
<1>1. s' = Trim(t) /\ replayed' = u
  BY DEF Commit
<1>2. Landed(s, es, t) /\ ~t.refused
  BY DEF Landed
<1>3. Replays(Trim(t), u)
  <2>1. CASE MeekList(s.now, es)
    <3> HIDE DEF t
    <3> QED
      BY <1>2, <2>1, Restored
  <2>2. CASE \E e, rest : Pruning(s, e) /\ Listed(rest) /\ es = <<e>> \o rest
    <3>1. PICK e, rest : Pruning(s, e) /\ Listed(rest) /\ es = <<e>> \o rest
      BY <2>2
    <3>2. u = t
      BY <1>2, <3>1, PruningAll
    <3> HIDE DEF t
    <3> QED
      BY <1>2, <3>2, Redone
  <2> QED
    BY <2>1, <2>2 DEF Replayable
<1> QED
  BY <1>1, <1>3

LEMMA ReplayStep ==
    ASSUME ReplayInv, [Next]_vars
    PROVE  ReplayInv'
<1>1. RunInv /\ Settled(s) /\ Replays(s, replayed) /\ RunInv'
  BY RunStep DEF ReplayInv, RunInv
<1>2. ASSUME UNCHANGED <<s, replayed>>
      PROVE  Replays(s, replayed)'
  BY <1>1, <1>2
<1>3. ASSUME Commits
      PROVE  Replays(s, replayed)'
  BY <1>1, <1>3, CommitReplays DEF Commits
<1>4. Replays(s, replayed)'
  BY <1>1, <1>2, <1>3, StepCommits DEF vars
<1> QED
  BY <1>1, <1>4 DEF ReplayInv

\* Whatever is decided and appended, State.Apply accepts, in the session and in
\* every replay of the journal ("apply durably appended event", session.go).
THEOREM DecidedEventsAlwaysApply == Spec => []DecidedEventsApply
<1>1. Init => ReplayInv
  BY RunBegins, ReplayBegins DEF ReplayInv
<1>2. ReplayInv /\ [Next]_vars => ReplayInv'
  BY ReplayStep
<1>3. ReplayInv => DecidedEventsApply
  <2> SUFFICES ASSUME ReplayInv
               PROVE  DecidedEventsApply
    OBVIOUS
  <2>1. ~s.refused /\ replayed.refused = s.refused
    BY DEF ReplayInv, RunInv, Settled, Replays, Fields, IndexFields
  <2> QED
    BY <2>1 DEF DecidedEventsApply
<1> QED
  BY <1>1, <1>2, <1>3, PTL DEF Spec

\* A session that is rebuilt from the journal decides from exactly the state
\* the live one had, for any schedule and sequence of commands, though the live
\* one was pruned after each (OpenRunSession, pruneDerivedState).
THEOREM ReplayAlwaysRestores == Spec => []ReplayRestoresSession
<1>1. Init => ReplayInv
  BY RunBegins, ReplayBegins DEF ReplayInv
<1>2. ReplayInv /\ [Next]_vars => ReplayInv'
  BY ReplayStep
<1>3. ReplayInv => ReplayRestoresSession
  <2> SUFFICES ASSUME ReplayInv
               PROVE  ReplayRestoresSession
    OBVIOUS
  <2>1. Prune(replayed, s.now) = s /\ s.now = replayed.now
    BY DEF ReplayInv, Replays, Fields, IndexFields
  <2> QED
    BY <2>1 DEF ReplayRestoresSession
<1> QED
  BY <1>1, <1>2, <1>3, PTL DEF Spec
=============================================================================
