-------------------------- MODULE SimulationAdvance --------------------------
(***************************************************************************)
(* What AdvanceTime does to a world: page opens, agents under way, growth, *)
(* schedule items, costs and the ends of operations, and the pruning that  *)
(* a session does afterwards; and how the draft of any other command       *)
(* begins.                                                                 *)
(***************************************************************************)
EXTENDS SimulationFacts
----------------------------------------------------------------------------
(* Page opens                                                               *)

\* The connection is opened, and marks its database if it is the last it takes.
JoinedTo(w, x, request) ==
  IF Fills(x) THEN Emit(Emit(w, <<Joined(x, request)>>), <<Filled(x)>>)
  ELSE Emit(w, <<Joined(x, request)>>)

LEMMA JoinedTracks ==
    ASSUME NEW c, NEW at, NEW x, NEW request, NEW w,
           c.T \in Int, at \in Int, at <= c.T, x.now = at, Tracks(c, at, w),
           ~w.st.refused => /\ Seen(w.st, request) /\ x.site.status = "running"
                            /\ w.st.site = x.site /\ w.st.dbs = x.dbs /\ w.st.counts = x.counts
    PROVE  /\ Tracks(c, at, JoinedTo(w, x, request)) /\ Draftlike(JoinedTo(w, x, request))
           /\ ~JoinedTo(w, x, request).st.refused =>
                /\ ~w.st.refused
                /\ JoinedTo(w, x, request).st.capacity = w.st.capacity
                /\ JoinedTo(w, x, request).st.cursor = w.st.cursor
<1> DEFINE db == x.site.db
           e == Joined(x, request)
           a == Filled(x)
           v == Emit(w, <<e>>)
           u == JoinedTo(w, x, request)
<1>1. /\ e.type = "DatabaseConnectionOpened" /\ e.at = at /\ "seq" \notin DOMAIN e
      /\ e.request = request /\ e.db = db
  BY DEF Joined
<1>2. /\ a.type = "DatabaseAvailabilityChanged" /\ a.at = at /\ "seq" \notin DOMAIN a
      /\ a.db = db /\ a.reasons = x.dbs[db].reasons \cup {"connection_limit"}
  BY DEF Filled, DatabaseUp
<1>3. Draftlike(w) /\ DOMAIN w.st = Fields
  BY DEF Tracks, Bears, Draftlike, Tables
<1> HIDE DEF e, a
<1>4. /\ Draftlike(v) /\ DOMAIN v = DOMAIN w /\ DOMAIN v.st = Fields
      /\ \A f \in DOMAIN w \ {"st", "out"} : v[f] = w[f]
      /\ ~v.st.refused => ~w.st.refused /\ v.st \in Handled(w.st, e)
  <2>1. /\ Draftlike(v) /\ DOMAIN v = DOMAIN w
        /\ \A f \in DOMAIN w \ {"st", "out"} : v[f] = w[f]
        /\ ~v.st.refused => ~w.st.refused /\ v.st \in Handled(w.st, e)
    BY <1>3, OneEmitted
  <2>2. DOMAIN v.st = Fields
    BY <2>1 DEF Draftlike, Tables
  <2> QED
    BY <2>1, <2>2
<1>5. Bears(c, at, v)
  <2>1. ASSUME ~Apply(w.st, e).refused
        PROVE  Fine(c, at, w.st, e)
    <3>1. ~w.st.refused
      BY <1>3, <2>1, Accepted
    <3>2. e.db = w.st.site.db /\ w.st.site.status # "stopped" /\ Seen(w.st, e.request)
      BY <1>1, <3>1
    <3> QED
      BY <1>1, <3>2 DEF Fine, Proper, AlikeTypes, KnownTypes, DatabaseTypes, CostTypes,
         FactTypes, Timely, ContextTypes
  <2> QED
    BY <2>1, EmitBears DEF Tracks
<1> HIDE DEF v
<1>6. /\ Fills(x) => u = Emit(v, <<a>>)
      /\ ~Fills(x) => u = v
  BY DEF JoinedTo, v, e, a
<1>7. Bears(c, at, u) /\ Draftlike(u)
  <2>1. Fine(c, at, v.st, a)
    BY <1>2 DEF Fine, Proper, AlikeTypes, KnownTypes, DatabaseTypes, CostTypes,
       FactTypes, Timely, ContextTypes
  <2>2. Bears(c, at, Emit(v, <<a>>)) /\ Draftlike(Emit(v, <<a>>))
    BY <1>4, <1>5, <2>1, EmitBears, OneEmitted
  <2> QED
    BY <1>4, <1>5, <1>6, <2>2
<1> HIDE DEF u
<1>10. DOMAIN u = DOMAIN w /\ \A f \in DOMAIN w \ {"st", "out"} : u[f] = w[f]
  <2>1. DOMAIN Emit(v, <<a>>) = DOMAIN v
        /\ \A f \in DOMAIN v \ {"st", "out"} : Emit(v, <<a>>)[f] = v[f]
    BY <1>4, OneEmitted
  <2> QED
    BY <1>4, <1>6, <2>1
<1>8. ASSUME ~u.st.refused
      PROVE  /\ Marked(u.st) /\ Stops(c, u) /\ ~w.st.refused
             /\ u.st.capacity = w.st.capacity /\ u.st.cursor = w.st.cursor
             /\ "cursor" \in DOMAIN u => u.cursor = c.passed
  <2>99. ~w.st.refused
    BY <1>4, <1>6, <1>8, OneEmitted
  <2>0. "cursor" \in DOMAIN u => u["cursor"] = c.passed
    <3>1. "cursor" \in DOMAIN w => w["cursor"] = c.passed
      BY <2>99 DEF Tracks
    <3>2. "cursor" \in DOMAIN w => u["cursor"] = w["cursor"]
      BY <1>10
    <3> QED
      BY <1>10, <3>1, <3>2
  <2>1. ~v.st.refused /\ (Fills(x) => u.st \in Handled(v.st, a))
    BY <1>4, <1>6, <1>8, OneEmitted
  <2>2. /\ v.st \in Handled(w.st, e) /\ ~w.st.refused /\ Steady(c.T, w.st) /\ Marked(w.st)
        /\ Stops(c, w) /\ Steady(c.T, v.st)
    BY <1>4, <1>5, <2>1 DEF Tracks, Bears
  <2>3. /\ Placed(w.st) /\ Connected(w.st) /\ Placed(v.st)
        /\ DOMAIN w.st.site = SiteFields /\ DOMAIN v.st.site = SiteFields
    BY <2>2 DEF Steady, Placed
  <2>4. /\ w.st.site = x.site /\ w.st.dbs = x.dbs /\ w.st.counts = x.counts
        /\ x.site.status = "running" /\ Seen(w.st, request)
    BY <2>2
  <2>5. Proper(c.T, w.st, e)
    BY <1>1, <2>4 DEF Proper, AlikeTypes, KnownTypes, DatabaseTypes, CostTypes
  <2>6. /\ v.st.counts = [w.st.counts EXCEPT ![e.db] = @ + 1] /\ w.st.counts[e.db] \in Nat
    BY <1>1, <1>3, <2>2, <2>3, <2>5, ConnectedOpened
  <2>7. /\ v.st.dbs = x.dbs /\ v.st.capacity = w.st.capacity /\ v.st.cursor = w.st.cursor
    BY <1>1, <1>3, <2>2, <2>4, ChangedBy
  <2>8. w.st.counts[db] < Catalog[db].limit
    BY <1>1, <1>3, <2>2, DatabaseConnectionOpenedEffect DEF DatabaseConnectionOpenedGuard
  <2>9. Stops(c, v)
    BY <1>1, <1>3, <1>4, <2>2, <2>3, StopsStep
  <2>10. db \in DOMAIN x.dbs /\ DOMAIN x.dbs \subseteq Servers
    BY <2>3, <2>4 DEF Placed
  <2>11. DOMAIN x.counts = Servers
    BY <2>3, <2>4 DEF Connected
  <2>12. /\ v.st.counts[db] = x.counts[db] + 1 /\ x.counts[db] \in Nat
         /\ \A i \in DOMAIN x.dbs \ {db} : v.st.counts[i] = x.counts[i]
    BY <1>1, <2>4, <2>6, <2>10, <2>11
  <2>13. Catalog[db].limit \in Nat
    BY <2>10, ServersAssumption
  <2>14. "connection_limit" \notin x.dbs[db].reasons
    BY <2>2, <2>4, <2>8, <2>10, <2>12, <2>13 DEF Marked
  <2>15. \A i \in DOMAIN x.dbs :
           ("connection_limit" \in x.dbs[i].reasons) <=> (x.counts[i] = Catalog[i].limit)
    BY <2>2, <2>4 DEF Marked
  <2>16. CASE Fills(x)
    <3>1. u.st \in Handled(v.st, a) /\ u = Emit(v, <<a>>)
      BY <1>6, <2>1, <2>16
    <3>2. DatabasesChange(v.st, a, u.st)
      BY <1>4, <2>3, <3>1, DatabasesStep DEF Placed
    <3>3. /\ DOMAIN u.st.dbs = DOMAIN x.dbs
          /\ u.st.dbs[db].reasons = x.dbs[db].reasons \cup {"connection_limit"}
          /\ \A i \in DOMAIN x.dbs \ {db} : u.st.dbs[i].reasons = x.dbs[i].reasons
      BY <1>2, <2>7, <3>2 DEF DatabasesChange
    <3>4. /\ u.st.counts = v.st.counts /\ u.st.capacity = v.st.capacity
          /\ u.st.cursor = v.st.cursor
      BY <1>2, <1>4, <3>1, ChangedBy
    <3>5. v.st.counts[db] = Catalog[db].limit
      BY <2>12, <2>16 DEF Fills
    <3>6. Marked(u.st)
      BY <2>12, <2>15, <3>3, <3>4, <3>5 DEF Marked
    <3>7. DOMAIN u = DOMAIN v /\ \A f \in DOMAIN v \ {"st", "out"} : u[f] = v[f]
      BY <1>4, <3>1, OneEmitted
    <3>8. Stops(c, u)
      BY <1>2, <1>4, <2>3, <2>9, <3>1, <3>7, StopsStep
    <3> QED
      BY <2>0, <2>2, <2>7, <3>4, <3>6, <3>8
  <2>17. CASE ~Fills(x)
    <3>1. u = v
      BY <1>6, <2>17
    <3>2. v.st.counts[db] # Catalog[db].limit
      BY <2>12, <2>17 DEF Fills
    <3>3. Marked(v.st)
      BY <2>7, <2>12, <2>14, <2>15, <3>2 DEF Marked
    <3> QED
      BY <2>0, <2>2, <2>7, <2>9, <3>1, <3>3
  <2> QED
    BY <2>16, <2>17
<1>9. Tracks(c, at, u)
  BY <1>7, <1>8 DEF Tracks
<1> QED
  BY <1>7, <1>8, <1>9 DEF u

LEMMA OpenPageTracks ==
    ASSUME NEW c, NEW at, NEW w, NEW request, NEW page, Requested(c, at, w, request, page),
           NEW profile
    PROVE  LET v == Emit(w, OpenPage(w.st, request, page, profile)) IN
           Tracks(c, at, v) /\ (~v.st.refused => ~w.st.refused /\ Opened(w, v, request))
<1> DEFINE x == w.st
           o == Obstacle(x, page, profile)
           a == Asked(x, request, page)
           b == Served(x, request, page)
           j == Joined(x, request)
           f == Filled(x)
           d == Completed(x, request)
           k == Crowded(x, request)
           r == TurnedAway(x, request, o)
           w1 == AskedTo(w, request, page)
           w2 == ServedTo(w1, x, request, page)
           w3 == JoinedTo(w2, x, request)
           v == Emit(w, OpenPage(w.st, request, page, profile))
<1>1. /\ c.T \in Int /\ at \in Int /\ at <= c.T /\ page \in Pages /\ x.now = at
      /\ Tracks(c, at, w) /\ Seen(x, request) /\ request \notin DOMAIN x.capacity
      /\ Draftlike(w)
  BY DEF Requested, Tracks, Bears
<1>2. OpenPage(w.st, request, page, profile) = PageList(x, request, page, o)
  BY PageEventsIs DEF OpenPage
<1>3. /\ d.type = "PageRequestCompleted" /\ d.at = at /\ "seq" \notin DOMAIN d
      /\ k.type = "DatabaseConnectionRejected" /\ k.at = at /\ "seq" \notin DOMAIN k
      /\ r.type = "PageRequestRejected" /\ r.at = at /\ "seq" \notin DOMAIN r
  BY <1>1 DEF Completed, Crowded, TurnedAway
<1>4. /\ PageList(x, request, page, o) =
           IF o = "none"
           THEN IF Fills(x) THEN <<a>> \o ((<<b, j>> \o <<f>>) \o <<d>>)
                ELSE <<a>> \o ((<<b, j>> \o <<>>) \o <<d>>)
           ELSE IF o = "DB_CONNECTION_LIMIT" THEN <<a>> \o <<k, r>> ELSE <<a>> \o <<r>>
  BY DEF PageList
<1>5. o = "none" => x.site.status = "running"
  BY DEF Obstacle
<1>6. /\ Tracks(c, at, w1) /\ Draftlike(w1)
      /\ ~w1.st.refused =>
           /\ ~x.refused /\ w1.st.indexed = at
           /\ DOMAIN w1.st.capacity \subseteq DOMAIN x.capacity
           /\ w1.st.cursor = x.cursor /\ w1.st.site = x.site /\ w1.st.dbs = x.dbs
           /\ w1.st.conns = x.conns /\ w1.st.counts = x.counts
  BY AskedTracks
<1>12. w1 = Emit(w, <<a>>)
  BY DEF AskedTo
<1> HIDE DEF a, d, k, r, o, w1
<1>7. ~w1.st.refused => Seen(w1.st, request) /\ request \notin DOMAIN w1.st.capacity
  BY <1>1, <1>6 DEF Seen
<1>8. /\ Tracks(c, at, w2) /\ Draftlike(w2)
      /\ ~w2.st.refused =>
           /\ ~w1.st.refused
           /\ DOMAIN w2.st.capacity = DOMAIN w1.st.capacity \cup {request}
           /\ w2.st.cursor = w1.st.cursor /\ w2.st.site = w1.st.site /\ w2.st.dbs = w1.st.dbs
           /\ w2.st.conns = w1.st.conns /\ w2.st.counts = w1.st.counts
  BY <1>1, <1>6, <1>7, ServedTracks
<1>13. w2 = Emit(w1, <<b>>)
  BY DEF ServedTo
<1> HIDE DEF b, w2
<1>9. CASE o = "none"
  <2>1. ~w2.st.refused => /\ Seen(w2.st, request) /\ x.site.status = "running"
                          /\ w2.st.site = x.site /\ w2.st.dbs = x.dbs
                          /\ w2.st.counts = x.counts
    BY <1>5, <1>6, <1>7, <1>8, <1>9 DEF Seen
  <2>2. /\ Tracks(c, at, w3) /\ Draftlike(w3)
        /\ ~w3.st.refused => /\ ~w2.st.refused /\ w3.st.capacity = w2.st.capacity
                             /\ w3.st.cursor = w2.st.cursor
    BY <1>1, <1>8, <2>1, JoinedTracks
  <2>3. v = Emit(w3, <<d>>)
    <3>1. CASE Fills(x)
      <4>1. v = Emit(w, <<a>> \o ((<<b, j>> \o <<f>>) \o <<d>>))
        BY <1>2, <1>4, <1>9, <3>1
      <4>2. w3 = Emit(Emit(w2, <<j>>), <<f>>)
        BY <3>1 DEF JoinedTo
      <4> HIDE DEF j, f, v, w3
      <4> QED
        BY <1>1, <4>1, <4>2, <1>12, <1>13, PageEmitted
    <3>2. CASE ~Fills(x)
      <4>1. v = Emit(w, <<a>> \o ((<<b, j>> \o <<>>) \o <<d>>))
        BY <1>2, <1>4, <1>9, <3>2
      <4>2. w3 = Emit(w2, <<j>>)
        BY <3>2 DEF JoinedTo
      <4> HIDE DEF j, f, v, w3
      <4> QED
        BY <1>1, <4>1, <4>2, <1>12, <1>13, PageEmitted
    <3> QED
      BY <3>1, <3>2
  <2> HIDE DEF w3, v
  <2>4. /\ Tracks(c, at, v)
        /\ ~v.st.refused => /\ ~w3.st.refused /\ v.st.capacity = w3.st.capacity
                            /\ v.st.cursor = w3.st.cursor
    BY <1>1, <1>3, <2>2, <2>3, PageTracks
  <2>5. ~v.st.refused => ~x.refused /\ Opened(w, v, request)
    BY <1>6, <1>8, <2>2, <2>4 DEF Opened
  <2> QED
    BY <2>4, <2>5 DEF v
<1>10. CASE o = "DB_CONNECTION_LIMIT"
  <2> DEFINE u == Emit(w1, <<k>>)
  <2>1. v = Emit(u, <<r>>)
    <3>1. v = Emit(w, <<a>> \o <<k, r>>)
      BY <1>2, <1>4, <1>10
    <3> HIDE DEF v
    <3> QED
      BY <1>1, <3>1, <1>12, PageEmitted
  <2> HIDE DEF v
  <2>2. /\ Tracks(c, at, u)
        /\ ~u.st.refused => /\ ~w1.st.refused /\ u.st.capacity = w1.st.capacity
                            /\ u.st.cursor = w1.st.cursor
    BY <1>1, <1>3, <1>6, PageTracks
  <2> HIDE DEF u
  <2>3. /\ Tracks(c, at, v)
        /\ ~v.st.refused => /\ ~u.st.refused /\ v.st.capacity = u.st.capacity
                            /\ v.st.cursor = u.st.cursor
    BY <1>1, <1>3, <2>1, <2>2, PageTracks
  <2>4. ~v.st.refused => ~x.refused /\ Opened(w, v, request)
    BY <1>6, <2>2, <2>3 DEF Opened
  <2> QED
    BY <2>3, <2>4 DEF v
<1>11. CASE o # "none" /\ o # "DB_CONNECTION_LIMIT"
  <2>1. v = Emit(w1, <<r>>)
    <3>1. v = Emit(w, <<a>> \o <<r>>)
      BY <1>2, <1>4, <1>11
    <3>2. Emit(w, <<a>> \o <<r>>) = Emit(Emit(w, <<a>>), <<r>>)
      <4> DEFINE p == <<a>>
                 q == <<r>>
      <4>1. Listed(p) /\ Listed(q)
        BY ListedLiterals
      <4> HIDE DEF p, q
      <4>2. Emit(w, p \o q) = Emit(Emit(w, p), q)
        BY <1>1, <4>1, EmitAppend
      <4> QED
        BY <4>2 DEF p, q
    <3> QED
      BY <1>12, <3>1, <3>2
  <2> HIDE DEF v
  <2>2. /\ Tracks(c, at, v)
        /\ ~v.st.refused => /\ ~w1.st.refused /\ v.st.capacity = w1.st.capacity
                            /\ v.st.cursor = w1.st.cursor
    BY <1>1, <1>3, <1>6, <2>1, PageTracks
  <2>3. ~v.st.refused => ~x.refused /\ Opened(w, v, request)
    BY <1>6, <2>2 DEF Opened
  <2> QED
    BY <2>2, <2>3 DEF v
<1> QED
  BY <1>9, <1>10, <1>11
----------------------------------------------------------------------------
(* A visitor's journey: decideVisitorMutableContext                         *)

\* A draft that its availability fact has been added to.
LEMMA RecordBackendsKeeps ==
    ASSUME NEW w, Draftlike(w), NEW t, ~RecordBackends(w, t).st.refused
    PROVE  /\ ~w.st.refused
           /\ Kept(w.st, RecordBackends(w, t).st, {"backendDown", "site"})
           /\ RecordBackends(w, t).st.backendDown = (StarvedPages(w.st, t) # {})
<1> DEFINE pages == StarvedPages(w.st, t)
           e == [type |-> "BackendAvailabilityChanged", up |-> pages = {},
                 pages |-> pages, at |-> t]
           v == RecordBackends(w, t)
<1>1. DOMAIN w.st = Fields
  BY DEF Draftlike, Tables
<1>2. CASE (pages # {}) = w.st.backendDown
  <2>1. v = w
    BY <1>2 DEF RecordBackends, RecordStarved
  <2> QED
    BY <1>1, <1>2, <2>1 DEF Kept
<1>3. CASE ~((pages # {}) = w.st.backendDown)
  <2>1. v = Emit(w, <<e>>)
    BY <1>3 DEF RecordBackends, RecordStarved
  <2>2. e.type = "BackendAvailabilityChanged" /\ e.up = (pages = {}) /\ e.at = t
    OBVIOUS
  <2> HIDE DEF e
  <2>3. ~w.st.refused /\ v.st \in Handled(w.st, e)
    BY <2>1, OneEmitted
  <2>4. v.st.backendDown = ~e.up /\ Kept(w.st, v.st, {"backendDown", "site"})
    BY <1>1, <2>2, <2>3, BackendAvailabilityChangedEffect
  <2> QED
    BY <2>2, <2>3, <2>4
<1> QED
  BY <1>2, <1>3

LEMMA AnswerMoves ==
    ASSUME NEW w, NEW codes
    PROVE  Moves(w, Answer(w, codes))
<1> DEFINE v == [w EXCEPT !.failed = TRUE, !.codes = @ \cup codes]
<1>1. Answer(w, codes) = RecordBackends(w, w.st.now) \/ Answer(w, codes) = v
  BY DEF Answer
<1>2. ASSUME Draftlike(w)
      PROVE  v = [f \in DOMAIN v |-> v[f]] /\ DOMAIN v = DOMAIN w
             /\ \A f \in DOMAIN w \ {"codes", "failed"} : v[f] = w[f]
  BY <1>2 DEF Draftlike
<1> HIDE DEF v
<1>3. Moves(w, v)
  BY <1>2, EditLeads DEF Leads, Moves
<1> QED
  BY <1>1, <1>3, RecordBackendsLeads

LEMMA AnswerTracks ==
    ASSUME NEW c, c.T \in Int, NEW at \in Int, at <= c.T, NEW w, Tracks(c, at, w),
           w.st.now = at, NEW codes
    PROVE  /\ Tracks(c, at, Answer(w, codes))
           /\ ~Answer(w, codes).st.refused =>
                /\ ~w.st.refused
                /\ Answer(w, codes).st.capacity = w.st.capacity
                /\ Answer(w, codes).st.cursor = w.st.cursor
<1> DEFINE v == [w EXCEPT !.failed = TRUE, !.codes = @ \cup codes]
           u == RecordBackends(w, w.st.now)
<1>1. Answer(w, codes) = u \/ Answer(w, codes) = v
  BY DEF Answer
<1>2. Draftlike(w)
  BY DEF Tracks, Bears
<1>3. v = [f \in DOMAIN v |-> v[f]] /\ DOMAIN v = DOMAIN w
      /\ \A f \in DOMAIN w \ {"codes", "failed"} : v[f] = w[f]
  BY <1>2 DEF Draftlike
<1>4. v.st = w.st
  BY <1>2 DEF Draftlike
<1> HIDE DEF v
<1>5. Tracks(c, at, v)
  BY <1>3, EditLeads DEF Leads
<1>6. Tracks(c, at, u)
  BY RecordBackendsLeads DEF Leads
<1>7. ~u.st.refused => /\ ~w.st.refused /\ u.st.capacity = w.st.capacity
                       /\ u.st.cursor = w.st.cursor
  BY <1>2, RecordBackendsKeeps DEF Kept, Fields
<1> QED
  BY <1>1, <1>4, <1>5, <1>6, <1>7

LEMMA VisitMoves ==
    ASSUME NEW w, NEW request, NEW page, NEW profile
    PROVE  Moves(w, Visit(w, request, page, profile))
<1> DEFINE es == OpenPage(w.st, request, page, profile)
<1>1. Moves(w, Emit(w, es)) /\ Moves(Emit(w, es), Answer(Emit(w, es), RejectedCodes(es)))
  BY OpenPageMoves, AnswerMoves
<1> QED
  BY <1>1, MovesOn DEF Visit, Show

LEMMA VisitTracks ==
    ASSUME NEW c, NEW at, NEW w, NEW request, NEW page, Requested(c, at, w, request, page),
           NEW profile
    PROVE  /\ Tracks(c, at, Visit(w, request, page, profile))
           /\ ~Visit(w, request, page, profile).st.refused =>
                ~w.st.refused /\ Opened(w, Visit(w, request, page, profile), request)
<1> DEFINE es == OpenPage(w.st, request, page, profile)
           v == Emit(w, es)
           u == Answer(v, RejectedCodes(es))
<1>1. u = Visit(w, request, page, profile)
  BY DEF Visit, Show
<1>2. /\ c.T \in Int /\ at \in Int /\ at <= c.T /\ w.st.now = at /\ Draftlike(w)
  BY DEF Requested, Tracks, Bears
<1>3. Tracks(c, at, v) /\ (~v.st.refused => ~w.st.refused /\ Opened(w, v, request))
  BY OpenPageTracks
<1>4. v.st.now = at
  BY <1>2, OpenPageMoves DEF Moves, Goes
<1> HIDE DEF v
<1>5. /\ Tracks(c, at, u)
      /\ ~u.st.refused => /\ ~v.st.refused /\ u.st.capacity = v.st.capacity
                          /\ u.st.cursor = v.st.cursor
  BY <1>2, <1>3, <1>4, AnswerTracks
<1> HIDE DEF u
<1>6. ~u.st.refused => Opened(w, u, request)
  BY <1>3, <1>5 DEF Opened
<1> QED
  BY <1>1, <1>3, <1>5, <1>6

\* A draft whose clock is set is as good a draft.
ClockSet(w, v, t) ==
  /\ v = [f \in DOMAIN v |-> v[f]] /\ DOMAIN v = DOMAIN w
  /\ v.st = [w.st EXCEPT !.now = t]
  /\ \A f \in DOMAIN w \ {"st", "codes", "failed"} : v[f] = w[f]

LEMMA SteadyClock ==
    ASSUME NEW x, DOMAIN x = Fields, NEW t
    PROVE  LET y == [x EXCEPT !.now = t] IN
           /\ DOMAIN y = Fields /\ y.now = t /\ \A f \in Fields \ {"now"} : y[f] = x[f]
           /\ Tables(x) => Tables(y)
           /\ \A T : Steady(T, x) => Steady(T, y)
           /\ Marked(x) => Marked(y)
           /\ \A z : Alike(x, z) => Alike(y, z)
<1> DEFINE y == [x EXCEPT !.now = t]
<1>1. DOMAIN y = Fields /\ y.now = t /\ \A f \in Fields \ {"now"} : y[f] = x[f]
  BY DEF Fields
<1> HIDE DEF y
<1>2. /\ y.refused = x.refused /\ y.cursor = x.cursor /\ y.site = x.site
      /\ y.servers = x.servers /\ y.dbs = x.dbs /\ y.growth = x.growth /\ y.conns = x.conns
      /\ y.counts = x.counts /\ y.capacity = x.capacity /\ y.used = x.used
      /\ y.indexed = x.indexed /\ y.backups = x.backups /\ y.rules = x.rules
      /\ y.attacks = x.attacks /\ y.firewallDown = x.firewallDown
      /\ y.backendDown = x.backendDown
  BY <1>1 DEF Fields
<1>3. Tables(x) => Tables(y)
  BY <1>1 DEF Tables, Fields
<1>4. ASSUME NEW T, Steady(T, x)
      PROVE  Steady(T, y)
  <2>1. Tables(y)
    BY <1>3, <1>4 DEF Steady
  <2>2. Index(T, y)
    BY <1>2, <1>4 DEF Steady, Index, Allocation
  <2>3. Named(y)
    BY <1>2, <1>4 DEF Steady, Named, Seen
  <2>4. Attacked(y) /\ Ruled(y) /\ Placed(y)
    BY <1>2, <1>4 DEF Steady, Attacked, Ruled, Placed
  <2>5. Connected(y)
    BY <1>2, <1>4 DEF Steady, Connected, ConnectionsOf
  <2>6. Faulted(y)
    BY <1>2, <1>4 DEF Steady, Faulted, DependenciesUp
  <2> QED
    BY <2>1, <2>2, <2>3, <2>4, <2>5, <2>6 DEF Steady
<1>5. Marked(x) => Marked(y)
  BY <1>2 DEF Marked
<1>6. ASSUME NEW z, Alike(x, z)
      PROVE  Alike(y, z)
  <2>1. \A f \in Fields \ ButBilled : y[f] = x[f]
    BY <1>1 DEF ButBilled
  <2> QED
    BY <1>1, <1>2, <1>6, <2>1 DEF Alike
<1> QED
  BY <1>1, <1>3, <1>4, <1>5, <1>6 DEF y

LEMMA ClockDraftlike ==
    ASSUME NEW w, Draftlike(w), NEW v, NEW t, ClockSet(w, v, t)
    PROVE  /\ Draftlike(v) /\ v.out = w.out /\ v.st.now = t
           /\ \A f \in Fields \ {"now"} : v.st[f] = w.st[f]
           /\ "stopOp" \in DOMAIN w => v.stopOp = w.stopOp
           /\ "cursor" \in DOMAIN w => v.cursor = w.cursor
<1> DEFINE y == [w.st EXCEPT !.now = t]
<1>1. DOMAIN w.st = Fields /\ Tables(w.st) /\ Listed(w.out) /\ {"st", "out"} \subseteq DOMAIN w
  BY DEF Draftlike, Tables
<1>2. v.st = y /\ v["out"] = w["out"]
  BY <1>1 DEF ClockSet
<1>3. /\ Tables(y) /\ y.now = t /\ \A f \in Fields \ {"now"} : y[f] = w.st[f]
  BY <1>1, SteadyClock
<1> HIDE DEF y
<1>4. /\ "stopOp" \in DOMAIN w => v["stopOp"] = w["stopOp"]
      /\ "cursor" \in DOMAIN w => v["cursor"] = w["cursor"]
  BY DEF ClockSet
<1> QED
  BY <1>1, <1>2, <1>3, <1>4 DEF ClockSet, Draftlike

LEMMA ClockTracks ==
    ASSUME NEW c, NEW at, NEW w, Tracks(c, at, w), NEW v, NEW t, ClockSet(w, v, t)
    PROVE  Tracks(c, at, v)
<1> DEFINE y == [w.st EXCEPT !.now = t]
<1>1. Draftlike(w) /\ DOMAIN w.st = Fields
  BY DEF Tracks, Bears, Draftlike, Tables
<1>2. /\ Draftlike(v) /\ v.out = w.out
      /\ \A f \in Fields \ {"now"} : v.st[f] = w.st[f]
      /\ "stopOp" \in DOMAIN w => v.stopOp = w.stopOp
      /\ "cursor" \in DOMAIN w => v.cursor = w.cursor
  BY <1>1, ClockDraftlike
<1>3. v.st = y /\ DOMAIN v = DOMAIN w
  BY DEF ClockSet
<1>4. /\ \A T : Steady(T, w.st) => Steady(T, y)
      /\ Marked(w.st) => Marked(y)
      /\ \A z : Alike(w.st, z) => Alike(y, z)
  BY <1>1, SteadyClock
<1> HIDE DEF y
<1>5. /\ v.st.refused = w.st.refused /\ v.st.indexed = w.st.indexed /\ v.st.ops = w.st.ops
      /\ v.st.cursor = w.st.cursor /\ v.st.site = w.st.site /\ v.st.rules = w.st.rules
      /\ v.st.firewallDown = w.st.firewallDown /\ v.st.servers = w.st.servers
  BY <1>2 DEF Fields
<1>6. Bears(c, at, v)
  BY <1>2, <1>3, <1>4, <1>5 DEF Tracks, Bears, Holds
<1>7. Stops(c, w) => Stops(c, v)
  BY <1>2, <1>3, <1>5 DEF Stops, StopEnded
<1> QED
  BY <1>2, <1>3, <1>4, <1>5, <1>6, <1>7 DEF Tracks
JourneyBegun(w, e) == [w EXCEPT !.st.now = e.at, !.failed = FALSE]
FirstPage(w, e) ==
  Visit(JourneyBegun(w, e), <<e.visitor, "product_list">>, "product_list", e.profile)
JourneyEnded(w, e) == GoOn(FirstPage(w, e), e)

LEMMA JourneyIs ==
    ASSUME NEW w, Draftlike(w), NEW e, Draftlike(JourneyEnded(w, e))
    PROVE  /\ ClockSet(w, JourneyBegun(w, e), e.at)
           /\ ClockSet(JourneyEnded(w, e), Journey(w, e), w.st.now)
<1> DEFINE b == JourneyBegun(w, e)
           u == JourneyEnded(w, e)
           v == [u EXCEPT !.st.now = w.st.now]
<1>1. w = [f \in DOMAIN w |-> w[f]] /\ {"st", "out"} \subseteq DOMAIN w
  BY DEF Draftlike
<1>2. /\ b = [f \in DOMAIN b |-> b[f]] /\ DOMAIN b = DOMAIN w
      /\ \A f \in DOMAIN w \ {"st", "failed"} : b[f] = w[f]
  BY <1>1 DEF JourneyBegun
<1>3. b.st = [w.st EXCEPT !.now = e.at]
  BY <1>1 DEF JourneyBegun
<1>4. ClockSet(w, b, e.at)
  BY <1>2, <1>3 DEF ClockSet
<1>5. u = [f \in DOMAIN u |-> u[f]] /\ {"st", "out"} \subseteq DOMAIN u
  BY DEF Draftlike
<1>6. Journey(w, e) = v
  BY DEF Journey, JourneyEnded, FirstPage, JourneyBegun
<1> HIDE DEF u
<1>7. /\ v = [f \in DOMAIN v |-> v[f]] /\ DOMAIN v = DOMAIN u
      /\ \A f \in DOMAIN u \ {"st"} : v[f] = u[f]
      /\ v.st = [u.st EXCEPT !.now = w.st.now]
  BY <1>5
<1> HIDE DEF v
<1>8. ClockSet(u, v, w.st.now)
  BY <1>7 DEF ClockSet
<1> QED
  BY <1>4, <1>6, <1>8 DEF u

LEMMA JourneyGoes ==
    ASSUME NEW w, Draftlike(w), NEW e
    PROVE  /\ Draftlike(JourneyBegun(w, e)) /\ JourneyBegun(w, e).st.now = e.at
           /\ Moves(JourneyBegun(w, e), FirstPage(w, e))
           /\ Moves(FirstPage(w, e), JourneyEnded(w, e))
           /\ Draftlike(JourneyEnded(w, e))
<1> DEFINE b == JourneyBegun(w, e)
           f1 == FirstPage(w, e)
           u == JourneyEnded(w, e)
<1>1. w = [f \in DOMAIN w |-> w[f]] /\ {"st", "out"} \subseteq DOMAIN w
  BY DEF Draftlike
<1>2. ClockSet(w, b, e.at)
  <2>1. /\ b = [f \in DOMAIN b |-> b[f]] /\ DOMAIN b = DOMAIN w
        /\ \A f \in DOMAIN w \ {"st", "failed"} : b[f] = w[f]
    BY <1>1 DEF JourneyBegun
  <2>2. b.st = [w.st EXCEPT !.now = e.at]
    BY <1>1 DEF JourneyBegun
  <2> QED
    BY <2>1, <2>2 DEF ClockSet
<1>3. Draftlike(b) /\ b.st.now = e.at
  BY <1>2, ClockDraftlike
<1>4. Moves(b, f1)
  BY VisitMoves DEF FirstPage
<1>5. Moves(f1, u)
  BY VisitMoves, LeadsStill DEF JourneyEnded, GoOn
<1>6. Draftlike(u)
  BY <1>3, <1>4, <1>5 DEF Moves
<1> QED
  BY <1>3, <1>4, <1>5, <1>6

LEMMA JourneyMoves ==
    ASSUME NEW w, NEW e
    PROVE  Moves(w, Journey(w, e))
<1> SUFFICES ASSUME Draftlike(w)
             PROVE  Draftlike(Journey(w, e)) /\ Goes(w, Journey(w, e))
  BY DEF Moves
<1> DEFINE b == JourneyBegun(w, e)
           u == JourneyEnded(w, e)
           v == Journey(w, e)
<1>1. Draftlike(b) /\ Moves(b, u) /\ Draftlike(u)
  BY JourneyGoes, MovesOn
<1>2. ClockSet(w, b, e.at) /\ ClockSet(u, v, w.st.now)
  BY <1>1, JourneyIs
<1> HIDE DEF b, u, v
<1>3. Goes(b, u)
  BY <1>1 DEF Moves
<1>4. Draftlike(v) /\ v.st.now = w.st.now /\ v.st.refused = u.st.refused
  BY <1>1, <1>2, ClockDraftlike DEF Fields
<1>5. b.st.refused = w.st.refused
  BY <1>2, ClockDraftlike DEF Fields
<1>6. DOMAIN v = DOMAIN w /\ DOMAIN b = DOMAIN w /\ DOMAIN u = DOMAIN w
  BY <1>2, <1>3 DEF ClockSet, Goes
<1>7. ASSUME NEW f \in DOMAIN w \ {"st", "out", "cursor", "stopOp", "codes", "failed"}
      PROVE  v[f] = w[f]
  BY <1>2, <1>3, <1>6 DEF ClockSet, Goes
<1>8. w.st.refused => v.st.refused
  BY <1>3, <1>4, <1>5 DEF Goes
<1> QED
  BY <1>4, <1>6, <1>7, <1>8 DEF v, Goes

\* A visitor who has just come has asked for no page yet.
JustCome(x, visitor) ==
  /\ visitor \in Nat
  /\ \E j \in 1..x.cursor : /\ Schedule[j].type = "VisitorArrived"
                            /\ Schedule[j].visitor = visitor
  /\ \A r \in DOMAIN x.capacity : r[1] # visitor

LEMMA JourneyTracks ==
    ASSUME NEW c, NEW e, c.T \in Int, e.at \in Int, e.at <= c.T, NEW w, Tracks(c, e.at, w),
           ~w.st.refused => JustCome(w.st, e.visitor)
    PROVE  Tracks(c, e.at, Journey(w, e))
<1> DEFINE b == JourneyBegun(w, e)
           f1 == FirstPage(w, e)
           u == JourneyEnded(w, e)
           v == Journey(w, e)
           list == <<e.visitor, "product_list">>
           product == <<e.visitor, "product_page">>
           at == e.at
<1>1. Draftlike(w) /\ DOMAIN w.st = Fields
  BY DEF Tracks, Bears, Draftlike, Tables
<1>2. /\ Draftlike(b) /\ b.st.now = at /\ Moves(b, f1) /\ Moves(f1, u) /\ Draftlike(u)
  BY <1>1, JourneyGoes
<1>3. ClockSet(w, b, at) /\ ClockSet(u, v, w.st.now)
  BY <1>1, <1>2, JourneyIs
<1>4. Tracks(c, at, b)
  BY <1>3, ClockTracks
<1>5. b.st.refused = w.st.refused /\ b.st.cursor = w.st.cursor
      /\ b.st.capacity = w.st.capacity
  BY <1>1, <1>3, ClockDraftlike DEF Fields
<1>6. f1 = Visit(b, list, "product_list", e.profile)
  BY DEF FirstPage
<1>7. u = f1 \/ u = Visit(f1, product, "product_page", e.profile)
  BY DEF JourneyEnded, GoOn
<1>8. Moves(b, u)
  BY <1>2, MovesOn
<1> HIDE DEF b, f1, u, v
<1>9. CASE w.st.refused
  <2>1. Goes(b, u) /\ u.st.refused
    BY <1>2, <1>5, <1>8, <1>9 DEF Moves, Goes
  <2>2. Draftlike(v) /\ v.st.refused = u.st.refused
    BY <1>2, <1>3, ClockDraftlike DEF Fields
  <2> QED
    BY <2>1, <2>2 DEF Tracks, Bears, v
<1>10. CASE ~w.st.refused
  <2>1. /\ JustCome(w.st, e.visitor)
    BY <1>10
  <2>2. /\ \A page \in Pages : Seen(b.st, <<e.visitor, page>>)
        /\ \A page \in Pages : <<e.visitor, page>> \notin DOMAIN b.st.capacity
    BY <1>5, <2>1 DEF JustCome, Seen
  <2>3. "product_list" \in Pages /\ "product_page" \in Pages
    BY DEF Pages
  <2>4. Requested(c, at, b, list, "product_list")
    BY <1>2, <1>4, <2>2, <2>3 DEF Requested
  <2>5. Tracks(c, at, f1) /\ (~f1.st.refused => Opened(b, f1, list))
    BY <1>6, <2>4, VisitTracks
  <2>6. f1.st.now = at
    BY <1>2 DEF Moves, Goes
  <2>7. Tracks(c, at, u)
    <3>1. CASE u = f1
      BY <2>5, <3>1
    <3>2. CASE u = Visit(f1, product, "product_page", e.profile) /\ ~f1.st.refused
      <4>1. Opened(b, f1, list)
        BY <2>5, <3>2
      <4>2. list # product
        OBVIOUS
      <4>3. /\ Seen(f1.st, product) /\ product \notin DOMAIN f1.st.capacity
        BY <2>2, <2>3, <4>1, <4>2 DEF Opened, Seen
      <4>4. Requested(c, at, f1, product, "product_page")
        BY <2>3, <2>5, <2>6, <4>3 DEF Requested
      <4> QED
        BY <3>2, <4>4, VisitTracks
    <3>3. CASE f1.st.refused
      <4>1. Draftlike(f1) /\ u.st.refused
        BY <1>2, <3>3 DEF Moves, Goes
      <4> QED
        BY <1>2, <4>1 DEF Tracks, Bears
    <3> QED
      BY <1>7, <3>1, <3>2, <3>3
  <2>8. Tracks(c, at, v)
    BY <1>3, <2>7, ClockTracks
  <2> QED
    BY <2>8 DEF v
<1> QED
  BY <1>9, <1>10
----------------------------------------------------------------------------
(* Growth: decidePendingGrowth, decideDiskLogsGrowth                        *)

GrowthDatabase(x, g) == IF x.growth[g].db = None THEN x.site.db ELSE x.growth[g].db
GrowthFits(x, g) ==
  ~(x.growth[g].data + x.growth[g].logs
      > Catalog[GrowthDatabase(x, g)].disk - Used(x.dbs[GrowthDatabase(x, g)]))
GrowthFact(x, g, t) ==
  IF GrowthFits(x, g)
  THEN [type |-> "DatabaseStorageIncreased", growth |-> g, db |-> GrowthDatabase(x, g),
        data |-> x.growth[g].data, logs |-> x.growth[g].logs, at |-> t,
        version |-> IF x.growth[g].data > 0 THEN x.dbs[GrowthDatabase(x, g)].version + 1
                    ELSE x.dbs[GrowthDatabase(x, g)].version]
  ELSE [type |-> "DatabaseGrowthBlocked", growth |-> g, db |-> GrowthDatabase(x, g), at |-> t]
GrowthUp(x, g, t) ==
  DatabaseUp(GrowthDatabase(x, g),
             IF GrowthFits(x, g) THEN x.dbs[GrowthDatabase(x, g)].reasons \ {"disk_full"}
             ELSE x.dbs[GrowthDatabase(x, g)].reasons \cup {"disk_full"}, t)

LEMMA PendingGrowthIs ==
    ASSUME NEW x, NEW g, NEW t
    PROVE  \/ PendingGrowth(x, g, t) = <<>>
           \/ PendingGrowth(x, g, t) = <<GrowthFact(x, g, t)>>
           \/ PendingGrowth(x, g, t) = <<GrowthFact(x, g, t), GrowthUp(x, g, t)>>
<1> DEFINE a == GrowthFact(x, g, t)
           u == GrowthUp(x, g, t)
           full == "disk_full" \in x.dbs[GrowthDatabase(x, g)].reasons
           P == PendingGrowth(x, g, t)
<1>1. <<a>> \o <<>> = <<a>> /\ <<a>> \o <<u>> = <<a, u>>
  BY LiteralConcat
<1>2. CASE g \notin DOMAIN x.growth \/ GrowthDatabase(x, g) \notin DOMAIN x.dbs
  BY <1>2 DEF PendingGrowth, GrowthDatabase
<1>3. CASE g \in DOMAIN x.growth /\ GrowthDatabase(x, g) \in DOMAIN x.dbs /\ GrowthFits(x, g)
  <2>1. P = <<a>> \o IF full THEN <<u>> ELSE <<>>
    BY <1>3 DEF PendingGrowth, GrowthDatabase, GrowthFits, GrowthFact, GrowthUp
  <2> HIDE DEF a, u, P
  <2> QED
    BY <1>1, <2>1 DEF a, u, P
<1>4. CASE g \in DOMAIN x.growth /\ GrowthDatabase(x, g) \in DOMAIN x.dbs /\ ~GrowthFits(x, g)
  <2>1. P = <<a>> \o IF full THEN <<>> ELSE <<u>>
    BY <1>4 DEF PendingGrowth, GrowthDatabase, GrowthFits, GrowthFact, GrowthUp
  <2> HIDE DEF a, u, P
  <2> QED
    BY <1>1, <2>1 DEF a, u, P
<1> QED
  BY <1>2, <1>3, <1>4

LEMMA GrowthLeads ==
    ASSUME NEW w, NEW g, NEW t
    PROVE  /\ Moves(w, Emit(w, PendingGrowth(w.st, g, t)))
           /\ \A c, at : c.T \in Int /\ at \in Int /\ t \in Int /\ t <= c.T =>
                Leads(c, at, w, Emit(w, PendingGrowth(w.st, g, t)))
<1> DEFINE x == w.st
           a == GrowthFact(x, g, t)
           u == GrowthUp(x, g, t)
           v == Emit(w, PendingGrowth(x, g, t))
<1>1. /\ a.type \in {"DatabaseStorageIncreased", "DatabaseGrowthBlocked"} /\ a.at = t
      /\ "seq" \notin DOMAIN a
  BY DEF GrowthFact
<1>2. /\ u.type = "DatabaseAvailabilityChanged" /\ u.at = t /\ "seq" \notin DOMAIN u
      /\ u.db = GrowthDatabase(x, g)
      /\ "connection_limit" \in u.reasons
           <=> "connection_limit" \in x.dbs[GrowthDatabase(x, g)].reasons
  BY DEF GrowthUp, DatabaseUp
<1> DEFINE v1 == Emit(w, <<a>>)
           v2 == Emit(v1, <<u>>)
<1>3. Draftlike(w) => \/ v = w
                      \/ v = v1
                      \/ v = v2
  <2> SUFFICES ASSUME Draftlike(w) PROVE v = w \/ v = v1 \/ v = v2
    OBVIOUS
  <2> DEFINE P == PendingGrowth(x, g, t)
  <2>1. P = <<>> \/ P = <<a>> \/ P = <<a, u>>
    BY PendingGrowthIs
  <2>2. Emit(w, <<a, u>>) = v2 /\ Emit(w, <<>>) = w
    <3> HIDE DEF a, u
    <3> QED
      BY EmitTwo, EmitNone
  <2> HIDE DEF a, u, P, v2
  <2> QED
    BY <2>1, <2>2 DEF P
<1> HIDE DEF a, u
<1>4. /\ \A z : Moves(z, Emit(z, <<a>>))
      /\ \A z : Moves(z, Emit(z, <<u>>))
  <2>1. a.type # "TimeAdvanced" /\ u.type # "TimeAdvanced"
    BY <1>1, <1>2
  <2> QED
    BY <2>1, OneEmitted DEF Moves, Goes
<1>7. Moves(w, v1)
  BY <1>4
<1>8. Moves(v1, v2)
  <2> HIDE DEF v1
  <2> QED
    BY <1>4
<1> HIDE DEF v
<1>5. Moves(w, v)
  <2> HIDE DEF v1, v2
  <2>1. Moves(w, v2)
    BY <1>7, <1>8, MovesOn
  <2> QED
    BY <1>3, <1>7, <2>1, LeadsStill DEF Moves
<1>6. ASSUME NEW c, NEW at, c.T \in Int, at \in Int, t \in Int, t <= c.T
      PROVE  Leads(c, at, w, v)
  <2>1. Fine(c, at, x, a) /\ Still(x, a)
    BY <1>1, <1>6 DEF Fine, Timely, Still, Proper, KeepsMark, AlikeTypes, KnownTypes,
       StorageTypes, CostTypes, FactTypes, ContextTypes
  <2>2. Leads(c, at, w, v1)
    BY <1>1, <1>6, <2>1, EmitLeads
  <2>3. ASSUME Tracks(c, at, w)
        PROVE  Leads(c, at, v1, v2)
    <3>1. Draftlike(w) /\ Tracks(c, at, v1) /\ Draftlike(v1)
      BY <2>2, <2>3 DEF Leads, Tracks, Bears
    <3>2. ASSUME ~Apply(v1.st, u).refused
          PROVE  Fine(c, at, v1.st, u) /\ Still(v1.st, u)
      <4>1. ~v1.st.refused
        BY <3>1, <3>2, Accepted DEF Draftlike, Tables
      <4>2. v1.st \in Handled(x, a) /\ ~x.refused
        BY <3>1, <4>1, OneEmitted
      <4>3. DOMAIN x = Fields /\ Rows(x.dbs, DatabaseFields)
        BY <2>3, <4>2 DEF Tracks, Bears, Steady, Placed, Tables
      <4>4. DatabasesChange(x, a, v1.st)
        BY <4>2, <4>3, DatabasesStep
      <4>6. DOMAIN v1.st.dbs = DOMAIN x.dbs
            /\ \A i \in DOMAIN x.dbs : v1.st.dbs[i].reasons = x.dbs[i].reasons
        BY <1>1, <4>4 DEF DatabasesChange
      <4>7. u.db \in DOMAIN v1.st.dbs
        <5>1. Apply(v1.st, u) \in Handled(v1.st, u) /\ DOMAIN v1.st = Fields
          BY <3>1, <3>2, Accepted DEF Draftlike, Tables
        <5> QED
          BY <1>2, <5>1, DatabaseAvailabilityChangedEffect DEF DatabaseAvailabilityChangedGuard
      <4>8. Still(v1.st, u)
        BY <1>2, <4>6, <4>7 DEF Still, KeepsMark
      <4> QED
        BY <1>2, <1>6, <4>8 DEF Fine, Timely, Proper, AlikeTypes, KnownTypes,
           DatabaseTypes, CostTypes, FactTypes, ContextTypes
    <3>3. Tracks(c, at, v2)
      BY <1>6, <3>1, <3>2, EmitTracks
    <3> QED
      BY <1>8, <3>3 DEF Leads
  <2> HIDE DEF v1, v2
  <2>4. Leads(c, at, w, v)
    <3>1. ASSUME Tracks(c, at, w) PROVE Tracks(c, at, v)
      BY <1>3, <2>2, <2>3, <3>1 DEF Leads, Tracks, Bears
    <3> QED
      BY <1>5, <3>1 DEF Leads
  <2> QED
    BY <2>4
<1> QED
  BY <1>5, <1>6 DEF v

LEMMA DiskLogsLeads ==
    ASSUME NEW w, NEW e
    PROVE  /\ Moves(w, Emit(w, <<DiskLogs(w.st, e)>>))
           /\ \A c, at : c.T \in Int /\ at \in Int /\ e.at \in Int /\ e.at <= c.T =>
                Leads(c, at, w, Emit(w, <<DiskLogs(w.st, e)>>))
<1> DEFINE a == DiskLogs(w.st, e)
<1>1. /\ a.type \in {"DiskLogsGrowthBlocked", "DiskLogsIncreased"} /\ a.at = e.at
      /\ "seq" \notin DOMAIN a
  BY DEF DiskLogs
<1> HIDE DEF a
<1>2. Moves(w, Emit(w, <<a>>))
  BY <1>1, OneEmitted DEF Moves, Goes
<1>3. ASSUME NEW c, NEW at, c.T \in Int, at \in Int, e.at \in Int, e.at <= c.T
      PROVE  Leads(c, at, w, Emit(w, <<a>>))
  <2>1. Fine(c, at, w.st, a) /\ Still(w.st, a)
    BY <1>1, <1>3 DEF Fine, Timely, Still, Proper, KeepsMark, AlikeTypes, KnownTypes,
       StorageTypes, CostTypes, FactTypes, ContextTypes
  <2> QED
    BY <1>1, <1>3, <2>1, EmitLeads
<1> QED
  BY <1>2, <1>3 DEF a

\* What an item causes is one of four things.
LEMMA CauseIs ==
    ASSUME NEW w, NEW e
    PROVE  \/ Cause(w, e) = w
           \/ Cause(w, e) = Journey(w, e) /\ e.type = "VisitorArrived" /\ ~w.st.refused
           \/ Cause(w, e) = Emit(w, PendingGrowth(w.st, e.growth, e.at))
           \/ Cause(w, e) = Emit(w, <<DiskLogs(w.st, e)>>)
BY DEF Cause

LEMMA CauseMoves ==
    ASSUME NEW w, NEW e
    PROVE  Moves(w, Cause(w, e))
BY CauseIs, JourneyMoves, GrowthLeads, DiskLogsLeads, LeadsStill

LEMMA CauseTracks ==
    ASSUME NEW c, NEW e, c.T \in Int, e.at \in Int, e.at <= c.T, NEW w, Tracks(c, e.at, w),
           ~w.st.refused /\ e.type = "VisitorArrived" => JustCome(w.st, e.visitor)
    PROVE  Tracks(c, e.at, Cause(w, e))
<1>1. CASE Cause(w, e) = Journey(w, e) /\ e.type = "VisitorArrived" /\ ~w.st.refused
  BY <1>1, JourneyTracks
<1>2. CASE Cause(w, e) = Emit(w, PendingGrowth(w.st, e.growth, e.at))
  BY <1>2, GrowthLeads DEF Leads
<1>3. CASE Cause(w, e) = Emit(w, <<DiskLogs(w.st, e)>>)
  BY <1>3, DiskLogsLeads DEF Leads
<1> QED
  BY <1>1, <1>2, <1>3, CauseIs
----------------------------------------------------------------------------
(* An item of the schedule: pendingScheduledEvents, decideAdvance's loop     *)

\* The index that has not passed a moment has not passed a later one.
LEMMA TracksLater ==
    ASSUME NEW c, NEW at \in Int, NEW t \in Int, at <= t, NEW w, Tracks(c, at, w)
    PROVE  Tracks(c, t, w)
<1>1. ~w.st.refused => w.st.indexed \in Int /\ w.st.indexed <= at
  BY DEF Tracks, Bears, Steady, Index
<1>2. ~w.st.refused => w.st.indexed <= t
  BY <1>1
<1> QED
  BY <1>2 DEF Tracks, Bears

\* What is known of the items.
ItemAt(k) == Schedule[k]
LEMMA ItemFacts ==
    ASSUME NEW k \in DOMAIN Schedule
    PROVE  /\ ItemAt(k).at \in Nat /\ ItemAt(k).type \in ScheduleTypes
           /\ "seq" \in DOMAIN ItemAt(k) /\ ItemAt(k).seq = k
           /\ ItemAt(k).type = "TrafficAttackStarted" => ItemAt(k).load \in Nat
           /\ ItemAt(k).type = "VisitorArrived" => ItemAt(k).visitor \in Nat \ Probes
BY ScheduleAssumption, CommandsAssumption DEF ItemAt, ScheduleTypes

LEMMA FirstItemsNext ==
    ASSUME NEW n \in Nat, NEW e, "seq" \in DOMAIN e, e.seq = n + 1
    PROVE  Occurs(FirstItems(n), e) = FirstItems(n + 1)
<1>1. FirstItems(n) \in Seq(Int) /\ Len(FirstItems(n)) = n /\ FirstItems(n + 1) \in Seq(Int)
      /\ Len(FirstItems(n + 1)) = n + 1
  BY DEF FirstItems
<1>2. Occurs(FirstItems(n), e) = Append(FirstItems(n), n + 1)
  BY DEF Occurs
<1>3. \A i \in 1..(n + 1) : Append(FirstItems(n), n + 1)[i] = FirstItems(n + 1)[i]
  <2> TAKE i \in 1..(n + 1)
  <2>1. CASE i = n + 1
    BY <1>1, <2>1 DEF FirstItems
  <2>2. CASE i # n + 1
    <3>1. i \in 1..n
      BY <2>2
    <3> QED
      BY <1>1, <3>1 DEF FirstItems
  <2> QED
    BY <2>1, <2>2
<1>4. Append(FirstItems(n), n + 1) \in Seq(Int) /\ Len(Append(FirstItems(n), n + 1)) = n + 1
  BY <1>1
<1> QED
  BY <1>1, <1>2, <1>3, <1>4, SeqEqual

\* The item itself: it passes the cursor, and changes nothing else a context
\* tells of.
LEMMA ItemHolds ==
    ASSUME NEW c, NEW x, DOMAIN x = Fields, Holds(c, x), c.cursor \in Nat,
           c.cursor + 1 \in DOMAIN Schedule, NEW t \in Handled(x, ItemAt(c.cursor + 1))
    PROVE  Holds(Reaching(c, c.cursor + 1), t)
<1> DEFINE e == ItemAt(c.cursor + 1)
<1>1. e.type \in ScheduleTypes /\ e.seq = c.cursor + 1
  BY ItemFacts
<1>2. c.cursor < Len(Schedule)
  BY ScheduleAssumption
<1> HIDE DEF e
<1>3. NextCursor(x, e) = c.cursor + 1
  BY <1>1, <1>2 DEF NextCursor, Holds
<1>4. t \in Handled(x, e)
  BY DEF e
<1>5. t.cursor = NextCursor(x, e)
  <2>1. CASE e.type = "VisitorArrived"
    BY <1>4, <2>1, VisitorArrivedEffect
  <2>2. CASE e.type = "TrafficAttackStarted"
    BY <1>4, <2>2, TrafficAttackStartedEffect
  <2>3. CASE e.type = "TrafficAttackEnded"
    BY <1>4, <2>3, TrafficAttackEndedEffect
  <2>4. CASE e.type = "DatabaseGrowthRequested"
    BY <1>4, <2>4, DatabaseGrowthRequestedEffect
  <2>5. CASE e.type = "DiskLogsGrowthRequested"
    BY <1>4, <2>5, DiskLogsGrowthRequestedEffect
  <2> QED
    BY <1>1, <2>1, <2>2, <2>3, <2>4, <2>5 DEF ScheduleTypes
<1>6. t.rules = x.rules /\ t.firewallDown = x.firewallDown /\ t.ops = x.ops
      /\ t.servers = x.servers
  BY <1>1, <1>4, ChangedBy DEF ScheduleTypes
<1> QED
  BY <1>3, <1>5, <1>6 DEF Holds, Reaching

LEMMA ItemTracks ==
    ASSUME NEW c, c.T \in Int, c.cursor \in Nat, c.cursor + 1 \in DOMAIN Schedule,
           ItemAt(c.cursor + 1).at <= c.T, NEW w,
           Tracks(c, ItemAt(c.cursor + 1).at, w)
    PROVE  LET e == ItemAt(c.cursor + 1)
               v == Emit(w, <<e>>)
           IN  /\ Tracks(Reaching(c, c.cursor + 1), e.at, v)
               /\ ~v.st.refused /\ e.type = "VisitorArrived" => JustCome(v.st, e.visitor)
<1> DEFINE e == ItemAt(c.cursor + 1)
           at == e.at
           v == Emit(w, <<e>>)
           d == Reaching(c, c.cursor + 1)
<1>1. /\ at \in Nat /\ e.type \in ScheduleTypes /\ "seq" \in DOMAIN e /\ e.seq = c.cursor + 1
      /\ e.type = "TrafficAttackStarted" => e.load \in Nat
      /\ e.type = "VisitorArrived" => e.visitor \in Nat \ Probes
  BY ItemFacts
<1>2. at <= c.T
  OBVIOUS
<1>3. /\ SameRun(c, d) /\ d.passed = c.passed /\ d.ops = c.ops /\ d.cursor = c.cursor + 1
  BY DEF Reaching, SameRun
<1>4. Draftlike(w) /\ DOMAIN w.st = Fields
  BY DEF Tracks, Bears, Draftlike, Tables
<1>5. Tracks(c, at, w)
  OBVIOUS
<1>6. Occurs(FirstItems(c.cursor), e) = FirstItems(c.cursor + 1)
  BY <1>1, FirstItemsNext
<1>7. ASSUME ~Apply(w.st, e).refused
      PROVE  /\ Timely(c, at, w.st, e) /\ Holds(d, Apply(w.st, e)) /\ Still(w.st, e)
  <2>1. Apply(w.st, e) \in Handled(w.st, e) /\ ~w.st.refused
    BY <1>4, <1>7, Accepted
  <2>2. Holds(c, w.st)
    BY <1>5, <2>1 DEF Tracks, Bears
  <2>3. Holds(d, Apply(w.st, e))
    BY <1>4, <2>1, <2>2, ItemHolds
  <2> HIDE DEF e, d
  <2>4. Timely(c, at, w.st, e) /\ Still(w.st, e)
    BY <1>1, <1>2 DEF Timely, Still, Proper, KeepsMark, AlikeTypes, KnownTypes,
       TrafficTypes, StorageTypes, CostTypes, FactTypes, ScheduleTypes
  <2> QED
    BY <2>3, <2>4
<1> HIDE DEF e, d
<1>8. Tracks(d, at, v)
  BY <1>1, <1>3, <1>5, <1>6, <1>7, EmitTracksTo
<1>9. ASSUME ~v.st.refused, e.type = "VisitorArrived"
      PROVE  JustCome(v.st, e.visitor)
  <2>1. v.st = Apply(w.st, e) /\ v.st \in Handled(w.st, e) /\ ~w.st.refused
    BY <1>4, <1>9, OneEmitted
  <2>2. Steady(c.T, w.st) /\ w.st.indexed <= at /\ w.st.cursor = c.cursor
    BY <1>5, <2>1 DEF Tracks, Bears, Holds
  <2>3. v.st.cursor = c.cursor + 1
    <3>1. Holds(d, v.st)
      BY <1>7, <1>9, <2>1
    <3> QED
      BY <1>3, <3>1 DEF Holds
  <2>4. DOMAIN v.st.capacity \subseteq DOMAIN w.st.capacity
    <3>1. Proper(c.T, w.st, e)
      BY <1>7, <1>9, <2>1 DEF Timely
    <3> QED
      BY <1>1, <1>4, <1>9, <2>1, <2>2, <3>1, IndexedStep DEF Steady
  <2>5. ASSUME NEW r \in DOMAIN w.st.capacity
        PROVE  r[1] # e.visitor
    <3>1. Seen(w.st, r)
      BY <2>2, <2>5 DEF Steady, Named
    <3>2. CASE r[1] \in Probes
      BY <1>1, <1>9, <3>2
    <3>3. CASE \E j \in 1..c.cursor : /\ Schedule[j].type = "VisitorArrived"
                                      /\ Schedule[j].visitor = r[1]
      <4>1. PICK j \in 1..c.cursor : /\ Schedule[j].type = "VisitorArrived"
                                     /\ Schedule[j].visitor = r[1]
        BY <3>3
      <4>2. j \in 1..((c.cursor + 1) - 1) /\ c.cursor + 1 \in DOMAIN Schedule
        BY <4>1
      <4>3. Schedule[c.cursor + 1].type = "VisitorArrived"
        BY <1>9 DEF e, ItemAt
      <4>4. Schedule[j].visitor # Schedule[c.cursor + 1].visitor
        BY <4>1, <4>2, <4>3, ScheduleAssumption
      <4> QED
        BY <4>1, <4>4 DEF e, ItemAt
    <3> QED
      BY <2>2, <3>1, <3>2, <3>3 DEF Seen
  <2>6. \E j \in 1..v.st.cursor : /\ Schedule[j].type = "VisitorArrived"
                                  /\ Schedule[j].visitor = e.visitor
    <3>1. c.cursor + 1 \in 1..v.st.cursor
      BY <2>3
    <3>2. Schedule[c.cursor + 1].type = "VisitorArrived"
          /\ Schedule[c.cursor + 1].visitor = e.visitor
      BY <1>9 DEF e, ItemAt
    <3> QED
      BY <3>1, <3>2
  <2> QED
    BY <1>1, <1>9, <2>4, <2>5, <2>6 DEF JustCome
<1> QED
  BY <1>8, <1>9 DEF e, d

\* One item: what came due before it, the item, what it causes.
After(c, e) == Reaching(Passing(c, Most(c.passed, e.at)), c.cursor + 1)
DueBefore(w, e) == ReleaseConnections(PassBoundaries(w, e.at), e.at)
LEMMA HappenIs ==
    ASSUME NEW w, NEW e
    PROVE  Happen(w, e) = RecordBackends(Cause(Emit(DueBefore(w, e), <<e>>), e), e.at)
BY DEF Happen, DueBefore

LEMMA HappenMoves ==
    ASSUME NEW w, NEW e, e.type # "TimeAdvanced"
    PROVE  Moves(w, Happen(w, e))
<1> DEFINE w1 == PassBoundaries(w, e.at)
           w2 == ReleaseConnections(w1, e.at)
           w3 == Emit(w2, <<e>>)
           w4 == Cause(w3, e)
           w5 == RecordBackends(w4, e.at)
<1>1. Moves(w, w1)
  BY PassBoundariesMoves
<1>2. Moves(w1, w2)
  BY ReleaseConnectionsMoves
<1>3. Moves(w2, w3)
  <2> HIDE DEF w2
  <2> QED
    BY OneEmitted DEF Moves, Goes
<1>4. Moves(w3, w4)
  BY CauseMoves
<1>5. Moves(w4, w5)
  BY RecordBackendsLeads
<1>6. w5 = Happen(w, e)
  BY HappenIs DEF DueBefore
<1> HIDE DEF w1, w2, w3, w4, w5
<1> QED
  BY <1>1, <1>2, <1>3, <1>4, <1>5, <1>6, MovesOn

LEMMA HappenTracks ==
    ASSUME NEW c, c.T \in Int, c.T <= EndsAt, c.passed \in Nat, c.over = FALSE,
           c.down = Denying(c.rules, c.passed), c.cursor \in Nat,
           c.cursor + 1 \in DOMAIN Schedule, NEW at \in Int,
           at <= ItemAt(c.cursor + 1).at, ItemAt(c.cursor + 1).at <= c.T, NEW w,
           "cursor" \in DOMAIN w, "stopOp" \in DOMAIN w, Tracks(c, at, w)
    PROVE  Tracks(After(c, ItemAt(c.cursor + 1)), ItemAt(c.cursor + 1).at,
                  Happen(w, ItemAt(c.cursor + 1)))
<1> DEFINE e == ItemAt(c.cursor + 1)
           p == Passing(c, Most(c.passed, e.at))
           d == After(c, e)
           w1 == PassBoundaries(w, e.at)
           w2 == ReleaseConnections(w1, e.at)
           w3 == Emit(w2, <<e>>)
           w4 == Cause(w3, e)
<1>1. e.at \in Nat /\ e.type \in ScheduleTypes
  BY ItemFacts
<1>2. e.at <= c.T /\ at <= e.at
  OBVIOUS
<1>3. /\ p.T = c.T /\ p.cursor = c.cursor /\ p.over = FALSE
      /\ d = Reaching(p, p.cursor + 1) /\ d.T = c.T
  BY DEF Passing, After, Reaching
<1>4. Happen(w, e) = RecordBackends(w4, e.at)
  BY HappenIs DEF DueBefore
<1>5. c.T \in Int /\ e = ItemAt(p.cursor + 1) /\ p.cursor \in Nat
      /\ p.cursor + 1 \in DOMAIN Schedule
  BY <1>3
<1> HIDE DEF e, d, p
<1>6. Tracks(p, at, w1)
  BY <1>1, <1>2, PassBoundariesTracks DEF p
<1>7. "stopOp" \in DOMAIN w1
  BY PassBoundariesMoves DEF Moves, Goes, Tracks, Bears
<1> HIDE DEF w1
<1>8. Tracks(p, at, w2)
  <2>1. p.T \in Int /\ e.at \in Int /\ e.at <= p.T /\ p.over = FALSE
    BY <1>1, <1>2, <1>3, <1>5
  <2>2. Leads(p, at, w1, w2)
    BY <1>7, <2>1, ReleaseConnectionsLeads
  <2> QED
    BY <1>6, <2>2 DEF Leads
<1> HIDE DEF w2
<1>9. Tracks(p, e.at, w2)
  BY <1>1, <1>2, <1>8, TracksLater
<1>10. /\ Tracks(d, e.at, w3)
       /\ ~w3.st.refused /\ e.type = "VisitorArrived" => JustCome(w3.st, e.visitor)
  BY <1>1, <1>2, <1>3, <1>5, <1>9, ItemTracks
<1> HIDE DEF w3
<1>11. Tracks(d, e.at, w4)
  BY <1>1, <1>2, <1>3, <1>5, <1>10, CauseTracks
<1> HIDE DEF w4
<1>12. Tracks(d, e.at, RecordBackends(w4, e.at))
  BY <1>1, <1>2, <1>3, <1>5, <1>11, RecordBackendsLeads DEF Leads
<1> QED
  BY <1>4, <1>12 DEF e, d
----------------------------------------------------------------------------
(* How far the schedule is passed                                           *)

\* The first k items are those that are due at t.
CursorAt(k, t) ==
  /\ k \in 0..Len(Schedule)
  /\ \A j \in 1..k : Schedule[j].at <= t
  /\ \A j \in (k + 1)..Len(Schedule) : t < Schedule[j].at

LEMMA ScheduleLen ==
    /\ Len(Schedule) \in Nat /\ DOMAIN Schedule = 1..Len(Schedule)
    /\ \A j \in 1..Len(Schedule) : Schedule[j].at \in Nat
    /\ \A j, k \in 1..Len(Schedule) : j <= k => Schedule[j].at <= Schedule[k].at
<1>1. Len(Schedule) \in Nat /\ DOMAIN Schedule = 1..Len(Schedule)
  BY ScheduleAssumption
<1>2. \A j \in 1..Len(Schedule) : Schedule[j].at \in Nat
  BY <1>1, ScheduleAssumption
<1>3. ASSUME NEW j \in 1..Len(Schedule), NEW k \in 1..Len(Schedule), j <= k
      PROVE  Schedule[j].at <= Schedule[k].at
  <2>1. CASE j = k
    BY <1>2, <2>1
  <2>2. CASE j # k
    <3>1. j < k
      BY <1>3, <2>2
    <3> QED
      BY <1>1, <3>1, ScheduleAssumption
  <2> QED
    BY <2>1, <2>2
<1> QED
  BY <1>1, <1>2, <1>3

LEMMA PassedByIs ==
    ASSUME NEW from \in 0..Len(Schedule), NEW t \in Int,
           \A j \in 1..from : Schedule[j].at <= t
    PROVE  /\ PassedBy(from, t) \in from..Len(Schedule)
           /\ CursorAt(PassedBy(from, t), t)
<1> DEFINE S == {k \in from .. Len(Schedule) : k < Len(Schedule) => t < Schedule[k + 1].at}
           p == PassedBy(from, t)
<1>1. Len(Schedule) \in S /\ S \in SUBSET Nat
  BY ScheduleLen
<1>2. \E n \in S : \A m \in S : n <= m
  BY <1>1, Events!LeastMember
<1>3. p \in S /\ \A m \in S : p <= m
  BY <1>2 DEF PassedBy, Min
<1>4. ASSUME NEW j \in 1..p
      PROVE  Schedule[j].at <= t
  <2>1. CASE j <= from
    BY <2>1
  <2>2. CASE ~(j <= from)
    <3>1. j - 1 \in from..Len(Schedule) /\ j - 1 < p /\ j - 1 < Len(Schedule)
      BY <1>3, <2>2, ScheduleLen
    <3>2. j - 1 \notin S
      BY <1>3, <3>1
    <3>3. ~(t < Schedule[(j - 1) + 1].at)
      BY <3>1, <3>2
    <3>4. (j - 1) + 1 = j /\ j \in 1..Len(Schedule)
      BY <1>3, ScheduleLen
    <3> QED
      BY <3>3, <3>4, ScheduleLen
  <2> QED
    BY <2>1, <2>2
<1>5. ASSUME NEW j \in (p + 1)..Len(Schedule)
      PROVE  t < Schedule[j].at
  <2>1. p < Len(Schedule) /\ p + 1 \in 1..Len(Schedule) /\ j \in 1..Len(Schedule)
    BY <1>3, ScheduleLen
  <2>2. t < Schedule[p + 1].at
    BY <1>3, <2>1
  <2>3. Schedule[p + 1].at <= Schedule[j].at
    BY <2>1, ScheduleLen
  <2> QED
    BY <2>1, <2>2, <2>3, ScheduleLen
<1> HIDE DEF p
<1> QED
  BY <1>1, <1>3, <1>4, <1>5, ScheduleLen DEF CursorAt, p

LEMMA CursorAtUnique ==
    ASSUME NEW t \in Int, NEW j, NEW k, CursorAt(j, t), CursorAt(k, t)
    PROVE  j = k
<1>1. ASSUME NEW a, NEW b, CursorAt(a, t), CursorAt(b, t), a < b
      PROVE  FALSE
  <2>1. b \in 1..b /\ b \in (a + 1)..Len(Schedule) /\ b \in 1..Len(Schedule)
    BY <1>1, ScheduleLen DEF CursorAt
  <2>2. Schedule[b].at <= t /\ t < Schedule[b].at /\ Schedule[b].at \in Nat
    BY <1>1, <2>1, ScheduleLen DEF CursorAt
  <2> QED
    BY <2>2
<1> QED
  BY <1>1, ScheduleLen DEF CursorAt

\* What an advance from x to bound finds pending.
LEMMA PendingIs ==
    ASSUME NEW x, x.now \in Int, CursorAt(x.cursor, x.now), NEW bound \in Int, x.now <= bound
    PROVE  LET n == PassedBy(x.cursor, bound) - x.cursor IN
           /\ n \in Nat /\ CursorAt(x.cursor + n, bound)
           /\ Listed(Pending(x, bound)) /\ Len(Pending(x, bound)) = n
           /\ DOMAIN Pending(x, bound) = 1..n
           /\ \A k \in 1..n : Pending(x, bound)[k] = ItemAt(x.cursor + k)
<1> DEFINE n == PassedBy(x.cursor, bound) - x.cursor
           q == PassedBy(x.cursor, bound)
<1>1. x.cursor \in 0..Len(Schedule) /\ \A j \in 1..x.cursor : Schedule[j].at <= x.now
  BY DEF CursorAt
<1>2. PassedBy(x.cursor, x.now) = x.cursor
  BY <1>1, PassedByIs, CursorAtUnique
<1>3. ASSUME NEW j \in 1..x.cursor
      PROVE  Schedule[j].at <= bound
  <2>1. Schedule[j].at <= x.now /\ Schedule[j].at \in Nat
    BY <1>1, ScheduleLen
  <2> QED
    BY <2>1
<1>4. q \in x.cursor..Len(Schedule) /\ CursorAt(q, bound)
  BY <1>1, <1>3, PassedByIs
<1>5. Pending(x, bound) = SubSeq(Schedule, x.cursor + 1, q)
  BY <1>2 DEF Pending
<1> HIDE DEF q
<1>6. n \in Nat /\ x.cursor + n = q
  BY <1>1, <1>4, ScheduleLen DEF q
<1>7. PICK S : Schedule \in Seq(S)
  BY ScheduleAssumption
<1>8. /\ SubSeq(Schedule, x.cursor + 1, q) \in Seq(S)
      /\ Len(SubSeq(Schedule, x.cursor + 1, q)) = n
      /\ \A k \in 1..n : SubSeq(Schedule, x.cursor + 1, q)[k] = Schedule[x.cursor + k]
  <2> HIDE DEF n
  <2>0. Len(Schedule) \in Nat /\ DOMAIN Schedule = 1..Len(Schedule)
    BY ScheduleLen
  <2>1. x.cursor \in Nat /\ x.cursor <= q /\ q \in Nat /\ q <= Len(Schedule)
    BY <1>1, <1>4, <2>0
  <2>2. ASSUME NEW i \in (x.cursor + 1)..q
        PROVE  Schedule[i] \in S
    <3>1. i \in 1..Len(Schedule)
      BY <2>0, <2>1
    <3> QED
      BY <1>7, <3>1, ElementOfSeq
  <2>3. /\ SubSeq(Schedule, x.cursor + 1, q) \in Seq(S)
        /\ Len(SubSeq(Schedule, x.cursor + 1, q))
             = IF x.cursor + 1 <= q THEN q - (x.cursor + 1) + 1 ELSE 0
        /\ \A i \in 1..(q - (x.cursor + 1) + 1) :
             SubSeq(Schedule, x.cursor + 1, q)[i] = Schedule[(x.cursor + 1) + i - 1]
    <3>1. x.cursor + 1 \in Int /\ q \in Int
      BY <2>1
    <3> QED
      BY <2>2, <3>1, SubSeqProperties
  <2>4. q - (x.cursor + 1) + 1 = n /\ (IF x.cursor + 1 <= q THEN q - (x.cursor + 1) + 1 ELSE 0) = n
    BY <1>6, <2>1
  <2>5. \A i \in 1..n : (x.cursor + 1) + i - 1 = x.cursor + i
    BY <1>6, <2>1
  <2> QED
    BY <2>3, <2>4, <2>5
<1> HIDE DEF n
<1>9. Listed(Pending(x, bound)) /\ Len(Pending(x, bound)) = n
  BY <1>5, <1>8 DEF Listed
<1> QED
  BY <1>4, <1>5, <1>6, <1>8, <1>9, ListedDomain DEF n, q, ItemAt

----------------------------------------------------------------------------
(* The items of an advance, one after the other                             *)

\* The journal when an advance from x to T has noted the time and its cost.
Journalled(x, T) ==
  ApplyAll(x, <<TimeAdvanced(x.now, T)>> \o ServerCosts(x, T) \o BackupCosts(x, T))
\* The moment of the k-th item, and the context after it.
Reached(x, k) == IF k = 0 THEN x.now ELSE ItemAt(x.cursor + k).at
Course(x, T, k) ==
  [y |-> Journalled(x, T), T |-> T, fired |-> FirstItems(x.cursor), over |-> FALSE,
   cursor |-> x.cursor + k, rules |-> x.rules, down |-> Denying(x.rules, Reached(x, k)),
   ops |-> x.ops, roles |-> Roles(x.servers), passed |-> Reached(x, k)]

LEMMA AfterCourse ==
    ASSUME NEW x, x.now \in Nat, x.cursor \in Nat, NEW T, NEW k \in Nat,
           x.cursor + (k + 1) \in DOMAIN Schedule,
           Reached(x, k) \in Int, Reached(x, k) <= Reached(x, k + 1),
           NEW at, NEW w, Tracks(After(Course(x, T, k), ItemAt(x.cursor + (k + 1))), at, w)
    PROVE  Tracks(Course(x, T, k + 1), at, w)
<1> DEFINE a == After(Course(x, T, k), ItemAt(x.cursor + (k + 1)))
           b == Course(x, T, k + 1)
<1>1. Reached(x, k + 1) = ItemAt(x.cursor + (k + 1)).at /\ Reached(x, k + 1) \in Nat
  BY ItemFacts DEF Reached
<1>2. Most(Reached(x, k), ItemAt(x.cursor + (k + 1)).at) = Reached(x, k + 1)
  BY <1>1 DEF Most
<1>3. /\ SameRun(a, b) /\ b.cursor = a.cursor /\ b.rules = a.rules
      /\ b.down = a.down /\ b.ops = a.ops /\ b.roles = a.roles /\ b.passed = a.passed
  <2>1. x.cursor + (k + 1) = (x.cursor + k) + 1
    OBVIOUS
  <2> QED
    BY <1>1, <1>2, <2>1 DEF After, Course, Passing, Reaching, SameRun
<1> HIDE DEF a, b
<1>4. Tracks(a, at, w)
  BY DEF a
<1>5. Tracks(b, at, w)
  BY <1>3, <1>4, SameTracks
<1> QED
  BY <1>5 DEF b
\* A draft whose other fields change tracks what it did.
LEMMA EditTracks ==
    ASSUME NEW c, NEW at, NEW w, Tracks(c, at, w), NEW v, v = [f \in DOMAIN v |-> v[f]],
           DOMAIN v = DOMAIN w,
           \A f \in DOMAIN w \cap {"st", "out", "cursor", "stopOp"} : v[f] = w[f]
    PROVE  Tracks(c, at, v) /\ Draftlike(v)
<1>1. Draftlike(w) /\ {"st", "out"} \subseteq DOMAIN w
  BY DEF Tracks, Bears, Draftlike
<1>2. v.st = w.st /\ v.out = w.out
      /\ ("stopOp" \in DOMAIN w => v.stopOp = w.stopOp)
      /\ ("cursor" \in DOMAIN w => v.cursor = w.cursor)
  BY <1>1
<1>3. Draftlike(v)
  BY <1>1, <1>2 DEF Draftlike
<1>4. Bears(c, at, v)
  BY <1>2, <1>3 DEF Tracks, Bears
<1>5. Stops(c, w) => Stops(c, v)
  BY <1>2 DEF Stops, StopEnded
<1> QED
  BY <1>2, <1>3, <1>4, <1>5 DEF Tracks

\* The draft of an advance.
DraftFields == {"st", "out", "cursor", "to", "stopOp", "codes", "failed", "done"}
Underway(d, k, x) ==
  \A T \in Int : d.x.now < T /\ T <= d.bound /\ Reached(d.x, k) <= T =>
    Tracks(Course(d.x, T, k), Reached(d.x, k), x)
StoppedAt(d, j, x) ==
  /\ x.to = Reached(d.x, j) /\ LastOfMoment(d.pending, j)
  /\ Tracks(Course(d.x, x.to, j), x.to, x)
ItemsTo(d, k, x) ==
  /\ Draftlike(x) /\ DOMAIN x = DraftFields /\ x.done \in BOOLEAN
  /\ ~x.done => x.to = d.bound /\ Underway(d, k, x)
  /\ x.done => \E j \in 1..k : StoppedAt(d, j, x)
ItemIn(d, x, k) ==
  IF x.done THEN x
  ELSE IF LastOfMoment(d.pending, k)
       THEN StopAt(Happen(x, d.pending[k]), StopsAt(Happen(x, d.pending[k]), d.stop, d.filter),
                   d.pending[k].at)
       ELSE Happen(x, d.pending[k])
Course0 == INSTANCE FoldSteps WITH Op <- ItemIn, Inv <- ItemsTo, Weight <- LoadIn

LEMMA ItemsFold ==
    ASSUME NEW d, NEW w
    PROVE  Course0!Folded(d, w, [k \in DOMAIN d.pending |-> k])
             = Items(w, d.pending, d.stop, d.filter)
BY DEF Course0!Folded, FoldLeft, MapThenFoldSet, Course0!MapThenFoldSet,
       Max, Course0!Max, ItemIn, Items

\* The items an advance finds, in time.
Waiting(d, n) ==
  /\ d.x.now \in Nat /\ d.x.cursor \in Nat /\ d.bound \in Int /\ d.bound <= EndsAt
  /\ d.x.now < d.bound
  /\ n \in Nat /\ DOMAIN d.pending = 1..n
  /\ \A k \in 1..n : /\ d.pending[k] = ItemAt(d.x.cursor + k)
                     /\ d.x.cursor + k \in DOMAIN Schedule
                     /\ d.x.now < ItemAt(d.x.cursor + k).at
                     /\ ItemAt(d.x.cursor + k).at <= d.bound

LEMMA ReachedAscends ==
    ASSUME NEW d, NEW n, Waiting(d, n)
    PROVE  /\ \A k \in 0..n : Reached(d.x, k) \in Nat /\ Reached(d.x, k) <= d.bound
                              /\ d.x.now <= Reached(d.x, k)
           /\ \A j, k \in 0..n : j <= k => Reached(d.x, j) <= Reached(d.x, k)
<1>1. ASSUME NEW k \in 0..n
      PROVE  Reached(d.x, k) \in Nat /\ Reached(d.x, k) <= d.bound
             /\ d.x.now <= Reached(d.x, k)
  <2>1. CASE k = 0
    BY <2>1 DEF Reached, Waiting
  <2>2. CASE k # 0
    <3>1. k \in 1..n
      BY <2>2 DEF Waiting
    <3>2. /\ d.x.cursor + k \in DOMAIN Schedule /\ d.x.now < ItemAt(d.x.cursor + k).at
          /\ ItemAt(d.x.cursor + k).at <= d.bound /\ d.x.now \in Nat
      BY <3>1 DEF Waiting
    <3>3. ItemAt(d.x.cursor + k).at \in Nat
      BY <3>2, ItemFacts
    <3> QED
      BY <2>2, <3>2, <3>3 DEF Reached
  <2> QED
    BY <2>1, <2>2
<1>2. ASSUME NEW j \in 0..n, NEW k \in 0..n, j <= k
      PROVE  Reached(d.x, j) <= Reached(d.x, k)
  <2>1. CASE j = 0
    BY <1>1, <2>1 DEF Reached
  <2>2. CASE j # 0
    <3>1. j \in 1..n /\ k \in 1..n /\ d.x.cursor \in Nat
      BY <1>2, <2>2 DEF Waiting
    <3>2. d.x.cursor + j \in 1..Len(Schedule) /\ d.x.cursor + k \in 1..Len(Schedule)
      BY <3>1, ScheduleLen DEF Waiting
    <3>3. d.x.cursor + j <= d.x.cursor + k
      BY <1>2, <3>1
    <3>4. Schedule[d.x.cursor + j].at <= Schedule[d.x.cursor + k].at
      BY <3>2, <3>3, ScheduleLen
    <3> QED
      BY <2>2, <3>1, <3>4 DEF Reached, ItemAt
  <2> QED
    BY <2>1, <2>2
<1> QED
  BY <1>1, <1>2

\* One item of the advance.
LEMMA UnderwayOn ==
    ASSUME NEW d, NEW n, Waiting(d, n), NEW k \in 0..(n - 1), NEW x, DOMAIN x = DraftFields,
           Underway(d, k, x)
    PROVE  Underway(d, k + 1, Happen(x, d.pending[k + 1]))
<1>1. /\ d.x.now \in Nat /\ d.x.cursor \in Nat /\ d.bound \in Int /\ d.bound <= EndsAt
      /\ n \in Nat
  BY DEF Waiting
<1>2. k \in Nat /\ k \in 0..n /\ k + 1 \in 0..n /\ k + 1 \in 1..n
  BY <1>1
<1>3. /\ d.pending[k + 1] = ItemAt(d.x.cursor + (k + 1))
      /\ d.x.cursor + (k + 1) \in DOMAIN Schedule
  BY <1>2 DEF Waiting
<1>4. /\ Reached(d.x, k) \in Nat /\ Reached(d.x, k + 1) \in Nat
      /\ Reached(d.x, k) <= Reached(d.x, k + 1)
  BY <1>2, ReachedAscends
<1>5. Reached(d.x, k + 1) = ItemAt(d.x.cursor + (k + 1)).at
  BY <1>2 DEF Reached
<1>6. ASSUME NEW T \in Int, d.x.now < T, T <= d.bound, Reached(d.x, k + 1) <= T
      PROVE  Tracks(Course(d.x, T, k + 1), Reached(d.x, k + 1), Happen(x, d.pending[k + 1]))
  <2> DEFINE c == Course(d.x, T, k)
             e == ItemAt(d.x.cursor + (k + 1))
  <2>1. /\ c.T = T /\ c.passed = Reached(d.x, k) /\ c.over = FALSE
        /\ c.down = Denying(c.rules, c.passed) /\ c.cursor = d.x.cursor + k
    BY DEF Course
  <2>2. Tracks(c, Reached(d.x, k), x)
    BY <1>4, <1>6 DEF Underway
  <2>3. c.cursor + 1 = d.x.cursor + (k + 1) /\ c.cursor \in Nat
    BY <1>1, <1>2, <2>1
  <2>4. "cursor" \in DOMAIN x /\ "stopOp" \in DOMAIN x
    BY DEF DraftFields
  <2>5. /\ c.T \in Int /\ c.T <= EndsAt /\ EndsAt \in Nat
    BY <1>1, <1>6, <2>1, ScheduleAssumption
  <2>7. c.passed \in Nat /\ Reached(d.x, k) \in Int
    BY <1>4, <2>1
  <2>8. /\ c.cursor + 1 \in DOMAIN Schedule /\ ItemAt(c.cursor + 1) = e
        /\ Reached(d.x, k) <= ItemAt(c.cursor + 1).at /\ ItemAt(c.cursor + 1).at <= c.T
    BY <1>3, <1>4, <1>5, <1>6, <2>1, <2>3
  <2> HIDE DEF c
  <2>6. Tracks(After(c, ItemAt(c.cursor + 1)), ItemAt(c.cursor + 1).at,
               Happen(x, ItemAt(c.cursor + 1)))
    BY <2>1, <2>2, <2>3, <2>4, <2>5, <2>7, <2>8, HappenTracks
  <2>9. Tracks(After(c, e), e.at, Happen(x, e))
    BY <2>6, <2>8
  <2>10. Tracks(Course(d.x, T, k + 1), e.at, Happen(x, e))
    BY <1>1, <1>2, <1>3, <1>4, <2>9, AfterCourse DEF c
  <2> QED
    BY <1>3, <1>5, <2>10
<1> QED
  BY <1>6 DEF Underway
\* v is w, or w that an advance stopped with at a moment.
Halted(w, v, at) ==
  /\ v = [f \in DOMAIN v |-> v[f]] /\ DOMAIN v = DraftFields
  /\ \A f \in DraftFields \ {"done", "to"} : v[f] = w[f]
  /\ v = w \/ (v.done = TRUE /\ v.to = at)
LEMMA StopAtIs ==
    ASSUME NEW w, Draftlike(w), DOMAIN w = DraftFields, NEW stops, NEW at
    PROVE  Halted(w, StopAt(w, stops, at), at)
BY DEF Halted, StopAt, DraftFields, Draftlike

LEMMA ItemsOn ==
    ASSUME NEW d, NEW n, Waiting(d, n), NEW k \in 0..(n - 1), NEW x, ItemsTo(d, k, x)
    PROVE  ItemsTo(d, k + 1, ItemIn(d, x, k + 1))
<1>1. n \in Nat /\ k + 1 \in 1..n /\ k \in Nat
  BY DEF Waiting
<1>2. CASE x.done
  <2>1. PICK j \in 1..k : StoppedAt(d, j, x)
    BY <1>2 DEF ItemsTo
  <2>2. j \in 1..(k + 1)
    BY <1>1
  <2>3. ItemIn(d, x, k + 1) = x
    BY <1>2 DEF ItemIn
  <2> QED
    BY <1>2, <2>1, <2>2, <2>3 DEF ItemsTo
<1>3. CASE ~x.done
  <2> DEFINE e == d.pending[k + 1]
             y == Happen(x, e)
             stops == StopsAt(y, d.stop, d.filter)
             z == StopAt(y, stops, e.at)
             v == ItemIn(d, x, k + 1)
             last == LastOfMoment(d.pending, k + 1)
  <2>1. /\ Draftlike(x) /\ DOMAIN x = DraftFields /\ x.done = FALSE /\ x.to = d.bound
        /\ Underway(d, k, x)
    BY <1>3 DEF ItemsTo
  <2>2. e = ItemAt(d.x.cursor + (k + 1)) /\ d.x.cursor + (k + 1) \in DOMAIN Schedule
    BY <1>1 DEF Waiting
  <2>3. e.type # "TimeAdvanced" /\ e.at \in Nat
    BY <2>2, ItemFacts DEF ScheduleTypes
  <2>4. Underway(d, k + 1, y)
    BY <2>1, UnderwayOn
  <2>5. Draftlike(y) /\ DOMAIN y = DraftFields /\ y.done = FALSE /\ y.to = d.bound
    <3>1. Draftlike(y) /\ Goes(x, y)
      BY <2>1, <2>3, HappenMoves DEF Moves
    <3> HIDE DEF y
    <3> QED
      BY <2>1, <3>1 DEF Goes, DraftFields
  <2>6. v = IF last THEN z ELSE y
    BY <1>3 DEF ItemIn
  <2> HIDE DEF v, e, y
  <2>7. CASE v = y
    BY <2>4, <2>5, <2>7 DEF ItemsTo, v
  <2>8. CASE v = z /\ last
    <3>1. /\ z = [f \in DOMAIN z |-> z[f]] /\ DOMAIN z = DraftFields
          /\ \A f \in DraftFields \ {"done", "to"} : z[f] = y[f]
          /\ z = y \/ (z.done = TRUE /\ z.to = e.at)
      <4>1. Halted(y, z, e.at)
        <5> HIDE DEF stops
        <5> QED
          BY <2>5, StopAtIs
      <4> HIDE DEF z
      <4> QED
        BY <4>1 DEF Halted
    <3>2. CASE z.done = TRUE /\ z.to = e.at
      <4>1. Reached(d.x, k + 1) = e.at
        BY <1>1, <2>2 DEF Reached
      <4>2. d.x.now < e.at /\ e.at <= d.bound
        BY <1>1, <2>2 DEF Waiting
      <4>3. Tracks(Course(d.x, e.at, k + 1), e.at, y)
        BY <2>3, <2>4, <4>1, <4>2 DEF Underway
      <4> HIDE DEF z
      <4>4. Tracks(Course(d.x, e.at, k + 1), e.at, z) /\ Draftlike(z)
        BY <2>5, <3>1, <4>3, EditTracks DEF DraftFields
      <4>5. StoppedAt(d, k + 1, z)
        BY <2>8, <3>2, <4>1, <4>4 DEF StoppedAt
      <4>6. k + 1 \in 1..(k + 1)
        BY <1>1
      <4>7. ItemsTo(d, k + 1, z)
        BY <3>1, <3>2, <4>4, <4>5, <4>6 DEF ItemsTo
      <4> QED
        BY <2>8, <4>7 DEF v
    <3> QED
      BY <2>7, <2>8, <3>1, <3>2
  <2> QED
    BY <2>6, <2>7, <2>8
<1> QED
  BY <1>2, <1>3

\* Where the items leave an advance from x to bound: at x's time and the items
\* that were due by it, or where it stopped.
LEMMA ItemsTracks ==
    ASSUME NEW x, x.now \in Nat, x.cursor \in Nat, CursorAt(x.cursor, x.now),
           NEW bound \in Int, bound <= EndsAt, x.now < bound,
           NEW w, Draftlike(w), DOMAIN w = DraftFields, w.done = FALSE, w.to = bound,
           \A T \in Int : x.now < T /\ T <= bound => Tracks(Course(x, T, 0), x.now, w),
           NEW stop, NEW filter
    PROVE  LET v == Items(w, Pending(x, bound), stop, filter) IN
           /\ Draftlike(v) /\ DOMAIN v = DraftFields
           /\ v.to \in Int /\ x.now < v.to /\ v.to <= bound
           /\ \E j \in Nat : /\ CursorAt(x.cursor + j, v.to)
                             /\ Reached(x, j) \in Nat /\ Reached(x, j) <= v.to
                             /\ Tracks(Course(x, v.to, j), v.to, v)
<1> DEFINE pending == Pending(x, bound)
           n == PassedBy(x.cursor, bound) - x.cursor
           d == [x |-> x, bound |-> bound, pending |-> pending, stop |-> stop,
                 filter |-> filter]
           v == Items(w, pending, stop, filter)
<1>1. /\ n \in Nat /\ CursorAt(x.cursor + n, bound)
      /\ DOMAIN pending = 1..n
      /\ \A k \in 1..n : pending[k] = ItemAt(x.cursor + k)
  BY PendingIs
<1>2. /\ d.x = x /\ d.bound = bound /\ d.pending = pending /\ d.stop = stop
      /\ d.filter = filter
  OBVIOUS
<1> HIDE DEF d, n, pending
<1>3. ASSUME NEW k \in 1..n
      PROVE  /\ x.cursor + k \in DOMAIN Schedule /\ x.now < ItemAt(x.cursor + k).at
             /\ ItemAt(x.cursor + k).at <= bound
  <2>1. x.cursor + k \in (x.cursor + 1)..Len(Schedule) /\ x.cursor + k \in 1..(x.cursor + n)
    BY <1>1, ScheduleLen DEF CursorAt
  <2> QED
    BY <1>1, <2>1, ScheduleLen DEF CursorAt, ItemAt
<1>4. Waiting(d, n)
  BY <1>1, <1>2, <1>3 DEF Waiting
<1>5. ItemsTo(d, 0, w)
  BY <1>2 DEF ItemsTo, Underway, Reached
<1>6. ASSUME NEW k \in 0..(n - 1), NEW z, ItemsTo(d, k, z)
      PROVE  ItemsTo(d, k + 1, ItemIn(d, z, [i \in DOMAIN d.pending |-> i][k + 1]))
  <2>1. k + 1 \in 1..n
    BY <1>1
  <2>2. [i \in DOMAIN d.pending |-> i][k + 1] = k + 1
    BY <1>1, <1>2, <2>1
  <2> QED
    BY <1>4, <1>6, <2>2, ItemsOn
<1>7. ItemsTo(d, n, Course0!Folded(d, w, [k \in DOMAIN d.pending |-> k]))
  <2> DEFINE q == [k \in DOMAIN d.pending |-> k]
  <2>1. DOMAIN q = 1..n
    BY <1>1, <1>2
  <2> HIDE DEF q
  <2> SUFFICES ItemsTo(d, n, Course0!Folded(d, w, q))
    BY DEF q
  <2>2. \A k \in 0..(n - 1) : \A z : ItemsTo(d, k, z) => ItemsTo(d, k + 1, ItemIn(d, z, q[k + 1]))
    BY <1>6 DEF q
  <2> QED
    BY <1>1, <1>5, <2>1, <2>2, Course0!FoldKeeps
<1>8. ItemsTo(d, n, v)
  BY <1>2, <1>7, ItemsFold
<1> HIDE DEF v
<1>9. Draftlike(v) /\ DOMAIN v = DraftFields
  BY <1>8 DEF ItemsTo
<1>10. CASE ~v.done
  <2>1. v.to = bound /\ Underway(d, n, v)
    BY <1>2, <1>8, <1>10 DEF ItemsTo
  <2>2. Reached(x, n) \in Nat /\ Reached(x, n) <= bound
    BY <1>1, <1>2, <1>4, ReachedAscends
  <2>3. Tracks(Course(x, bound, n), Reached(x, n), v)
    BY <1>2, <2>1, <2>2 DEF Underway
  <2>4. Tracks(Course(x, bound, n), bound, v)
    BY <2>2, <2>3, TracksLater
  <2> QED
    BY <1>1, <1>9, <2>1, <2>2, <2>4 DEF v, pending
<1>11. CASE v.done
  <2>1. PICK j \in 1..n : StoppedAt(d, j, v)
    BY <1>8, <1>11 DEF ItemsTo
  <2>2. /\ v.to = Reached(x, j) /\ LastOfMoment(pending, j)
        /\ Tracks(Course(x, v.to, j), v.to, v)
    BY <1>2, <2>1 DEF StoppedAt
  <2>3. /\ Reached(x, j) = ItemAt(x.cursor + j).at /\ j \in 0..n
    BY <1>1 DEF Reached
  <2>4. Reached(x, j) \in Nat /\ x.now < Reached(x, j) /\ Reached(x, j) <= bound
    BY <1>2, <1>3, <1>4, <2>3, ReachedAscends
  <2>5. CursorAt(x.cursor + j, v.to)
    <3>1. x.cursor + j \in 1..Len(Schedule)
      BY <1>3, ScheduleLen
    <3>2. ASSUME NEW i \in 1..(x.cursor + j)
          PROVE  Schedule[i].at <= v.to
      BY <2>2, <2>3, <3>1, ScheduleLen DEF ItemAt
    <3>3. ASSUME NEW i \in (x.cursor + j + 1)..Len(Schedule)
          PROVE  v.to < Schedule[i].at
      <4>1. i \in 1..Len(Schedule) /\ x.cursor + j <= i /\ Schedule[i].at \in Nat
        BY <3>1, ScheduleLen
      <4>2. v.to <= Schedule[i].at
        BY <2>2, <2>3, <3>1, <4>1, ScheduleLen DEF ItemAt
      <4>3. CASE i <= x.cursor + n
        <5>1. i - x.cursor \in 1..n /\ i - x.cursor > j /\ x.cursor + (i - x.cursor) = i
          BY <1>1, <3>3, <4>1, <4>3, ScheduleLen
        <5>2. pending[i - x.cursor] = ItemAt(i) /\ pending[j] = ItemAt(x.cursor + j)
          BY <1>1, <5>1
        <5>3. pending[i - x.cursor].at # pending[j].at
          BY <1>1, <2>2, <5>1 DEF LastOfMoment
        <5> QED
          BY <2>2, <2>3, <2>4, <4>1, <4>2, <5>2, <5>3 DEF ItemAt
      <4>4. CASE ~(i <= x.cursor + n)
        <5>1. i \in (x.cursor + n + 1)..Len(Schedule)
          BY <1>1, <4>1, <4>4, ScheduleLen
        <5>2. bound < Schedule[i].at
          BY <1>1, <5>1 DEF CursorAt
        <5> QED
          BY <2>2, <2>4, <4>1, <5>2
      <4> QED
        BY <4>3, <4>4
    <3> QED
      BY <3>1, <3>2, <3>3, ScheduleLen DEF CursorAt
  <2> QED
    BY <1>9, <2>2, <2>3, <2>4, <2>5 DEF v, pending
<1> QED
  BY <1>8, <1>10, <1>11 DEF ItemsTo
----------------------------------------------------------------------------
(* The time an advance notes, and its cost                                  *)

LEMMA IndexLater ==
    ASSUME NEW T \in Int, NEW x, Index(T, x), NEW U \in Int, T <= U
    PROVE  Index(U, x)
<1>1. \A r \in DOMAIN x.capacity : x.capacity[r].until \in Int
  BY DEF Index, Allocation
<1> QED
  BY <1>1 DEF Index

\* What no decision is interrupted in: nothing has been taken but what came due.
TimePassed(x, t, T) ==
  /\ DOMAIN t = Fields /\ t.now = T /\ ~t.refused /\ t.indexed = x.now
  /\ t.servers = x.servers /\ t.backups = x.backups /\ t.rules = x.rules
  /\ t.cursor = x.cursor /\ t.ops = x.ops /\ t.site = x.site /\ t.dbs = x.dbs
  /\ t.conns = x.conns /\ t.counts = x.counts
  /\ t.firewallDown = x.firewallDown /\ t.backendDown = x.backendDown

LEMMA TimePasses ==
    ASSUME NEW x, x.now \in Int, Sound(x.now, x), ~x.refused, Running(x),
           x.indexed <= x.now, NEW T \in Int, x.now <= T, T <= EndsAt
    PROVE  LET t == Apply(x, TimeAdvanced(x.now, T)) IN
           /\ TimePassed(x, t, T) /\ Marked(t)
           /\ \A U \in Int : x.now <= U => Steady(U, t)
<1> DEFINE e == TimeAdvanced(x.now, T)
           t == Apply(x, e)
           p == Prune(x, x.now)
<1>1. DOMAIN x = Fields /\ Tables(x)
  BY DEF Sound, Steady, Tables
<1>2. e.type = "TimeAdvanced" /\ e.from = x.now /\ e.to = T
  BY DEF TimeAdvanced
<1>3. TimeAdvancedGuard(x, e)
  BY <1>2 DEF TimeAdvancedGuard
<1> HIDE DEF e
<1>4. t \in Handled(x, e)
  <2>1. PICK u : u \in Handled(x, e)
    BY <1>2, <1>3, TimeAdvancedEnabled
  <2> QED
    BY <2>1, ApplyGives
<1> HIDE DEF t, p
<1>5. /\ t.now = T /\ t.capacity = p.capacity /\ t.used = p.used /\ t.indexed = p.indexed
      /\ Kept(x, t, {"now", "capacity", "used", "indexed"})
  BY <1>1, <1>2, <1>4, TimeAdvancedEffect DEF p
<1>6. /\ Index(x.now, p) /\ p.indexed = x.now
      /\ Kept(x, p, {"capacity", "used", "indexed"})
  <2>1. Index(x.now, x)
    BY DEF Sound, Steady
  <2> QED
    BY <1>1, <2>1, PruneIndexed, PruneKeeps DEF p
<1>7. /\ DOMAIN t = Fields
      /\ t.refused = x.refused /\ t.cursor = x.cursor /\ t.site = x.site
      /\ t.servers = x.servers /\ t.dbs = x.dbs /\ t.growth = x.growth /\ t.conns = x.conns
      /\ t.counts = x.counts /\ t.backups = x.backups /\ t.rules = x.rules
      /\ t.attacks = x.attacks /\ t.firewallDown = x.firewallDown
      /\ t.backendDown = x.backendDown /\ t.ops = x.ops
  BY <1>5 DEF Kept, Fields
<1>8. p.servers = x.servers
  BY <1>6 DEF Kept, Fields
<1>9. Tables(t)
  BY <1>1, <1>4, <1>7, TablesKept DEF t
<1>10. DOMAIN t.capacity \subseteq DOMAIN x.capacity
  BY <1>1, <1>5, PruneDomain DEF p
<1>11. ASSUME NEW U \in Int, x.now <= U
       PROVE  Steady(U, t)
  <2>1. Index(U, t)
    <3>1. Index(U, p)
      BY <1>6, <1>11, IndexLater
    <3> QED
      BY <1>5, <1>7, <1>8, <3>1, IndexAlike
  <2>2. Named(t)
    BY <1>7, <1>10 DEF Sound, Steady, Named, Seen
  <2>3. Attacked(t) /\ Ruled(t) /\ Placed(t)
    BY <1>7 DEF Sound, Steady, Attacked, Ruled, Placed
  <2>4. Connected(t)
    BY <1>7 DEF Sound, Steady, Connected, ConnectionsOf
  <2>5. Faulted(t)
    BY <1>7 DEF Sound, Steady, Faulted, DependenciesUp
  <2> QED
    BY <1>9, <2>1, <2>2, <2>3, <2>4, <2>5 DEF Steady
<1>12. Marked(t)
  BY <1>7 DEF Sound, Marked
<1>13. TimePassed(x, t, T)
  BY <1>5, <1>6, <1>7 DEF TimePassed
<1> QED
  BY <1>11, <1>12, <1>13 DEF t, e

LEMMA TimesAlike ==
    ASSUME NEW x, x.now \in Int, Sound(x.now, x), ~x.refused, Running(x),
           NEW T \in Int, x.now <= T, T <= EndsAt, NEW U \in Int, x.now <= U, U <= EndsAt
    PROVE  Alike(Apply(x, TimeAdvanced(x.now, T)), Apply(x, TimeAdvanced(x.now, U)))
<1>1. DOMAIN x = Fields /\ Rows(x.servers, ServerFields) /\ Rows(x.backups, BackupFields)
  BY DEF Sound, Steady, Tables
<1>2. ASSUME NEW V \in Int, x.now <= V, V <= EndsAt
      PROVE  LET t == Apply(x, TimeAdvanced(x.now, V)) IN
             /\ Kept(x, t, {"now", "capacity", "used", "indexed"})
             /\ t.capacity = Prune(x, x.now).capacity /\ t.used = Prune(x, x.now).used
             /\ t.indexed = Prune(x, x.now).indexed
  <2> DEFINE e == TimeAdvanced(x.now, V)
  <2>1. e.type = "TimeAdvanced" /\ e.from = x.now /\ e.to = V
    BY DEF TimeAdvanced
  <2>2. TimeAdvancedGuard(x, e)
    BY <1>2, <2>1 DEF TimeAdvancedGuard
  <2> HIDE DEF e
  <2>3. PICK u : u \in Handled(x, e)
    BY <2>1, <2>2, TimeAdvancedEnabled
  <2>4. Apply(x, e) \in Handled(x, e)
    BY <2>3, ApplyGives
  <2>5. /\ Kept(x, Apply(x, e), {"now", "capacity", "used", "indexed"})
        /\ Apply(x, e).capacity = Prune(x, x.now).capacity
        /\ Apply(x, e).used = Prune(x, x.now).used
        /\ Apply(x, e).indexed = Prune(x, x.now).indexed
    BY <1>1, <2>1, <2>4, TimeAdvancedEffect
  <2> QED
    BY <2>5 DEF e
<1> DEFINE t == Apply(x, TimeAdvanced(x.now, T))
           u == Apply(x, TimeAdvanced(x.now, U))
           F == {"now", "capacity", "used", "indexed"}
<1>3. /\ Kept(x, t, F) /\ Kept(x, u, F)
      /\ t.capacity = u.capacity /\ t.used = u.used /\ t.indexed = u.indexed
  BY <1>2
<1> HIDE DEF t, u
<1>4. /\ DOMAIN t = Fields /\ DOMAIN u = Fields
      /\ \A f \in Fields \ F : t[f] = x[f] /\ u[f] = x[f]
  BY <1>3 DEF Kept
<1>5. \A f \in Fields \ ButBilled : t[f] = u[f]
  BY <1>3, <1>4 DEF ButBilled
<1>6. t.servers = x.servers /\ u.servers = x.servers /\ t.backups = x.backups
      /\ u.backups = x.backups
  BY <1>4 DEF Fields
<1>7. Alike(t, u)
  BY <1>1, <1>4, <1>5, <1>6 DEF Alike, SameRows, Rows
<1> QED
  BY <1>7 DEF t, u
LEMMA AlikeTrans ==
    ASSUME NEW x, NEW y, NEW z, Alike(x, y), Alike(y, z)
    PROVE  Alike(x, z)
BY DEF Alike, SameRows

LEMMA AlikeSelf ==
    ASSUME NEW x, Tables(x)
    PROVE  Alike(x, x)
BY DEF Alike, SameRows, Tables, Rows

\* A charge that is due at t, and two charges that are for different things.
CostDue(t, e) ==
  /\ e.type \in CostTypes
  /\ e.type = "InfrastructureCostAccrued" => InfrastructureCostAccruedGuard(t, e)
  /\ e.type = "BackupStorageCostAccrued" => BackupStorageCostAccruedGuard(t, e)
Apart(d, e) ==
  d.type = e.type => /\ e.type = "InfrastructureCostAccrued" => d.server # e.server
                     /\ e.type = "BackupStorageCostAccrued" => d.backup # e.backup
CostsOwed(t, es) ==
  /\ Listed(es) /\ \A k \in 1..Len(es) : CostDue(t, es[k])
  /\ \A j, k \in 1..Len(es) : j # k => Apart(es[j], es[k])
Uncharged(t, z, e) ==
  /\ e.type = "InfrastructureCostAccrued" => z.servers[e.server] = t.servers[e.server]
  /\ e.type = "BackupStorageCostAccrued" => z.backups[e.backup] = t.backups[e.backup]

LEMMA CostStep ==
    ASSUME NEW x, Tables(x), NEW e, e.type \in CostTypes, NEW t \in Handled(x, e)
    PROVE  /\ Alike(x, t) /\ t.now = x.now /\ t.refused = x.refused
           /\ \A d : d.type \in CostTypes /\ Apart(e, d) => Uncharged(x, t, d)
<1>1. DOMAIN x = Fields /\ Rows(x.servers, ServerFields) /\ Rows(x.backups, BackupFields)
  BY DEF Tables
<1>2. CASE e.type = "InfrastructureCostAccrued"
  <2>1. /\ t.servers = InfrastructureCostAccruedServers(x, e)
        /\ Kept(x, t, {"serverCost", "servers"}) /\ e.server \in DOMAIN x.servers
    BY <1>1, <1>2, InfrastructureCostAccruedEffect DEF InfrastructureCostAccruedGuard
  <2>2. DOMAIN t = Fields /\ \A f \in Fields \ {"serverCost", "servers"} : t[f] = x[f]
    BY <2>1 DEF Kept
  <2>3. t.now = x.now /\ t.refused = x.refused /\ t.backups = x.backups
    BY <2>2 DEF Fields
  <2>4. /\ DOMAIN t.servers = DOMAIN x.servers
        /\ \A i \in DOMAIN x.servers : i # e.server => t.servers[i] = x.servers[i]
    BY <2>1 DEF InfrastructureCostAccruedServers
  <2>5. SameRows(x.servers, t.servers, ServerFields, {"accrued", "billed"})
    BY <1>1, <2>1 DEF InfrastructureCostAccruedServers, SameRows, Rows, ServerFields
  <2>6. Alike(x, t)
    <3>1. \A f \in Fields \ ButBilled : x[f] = t[f]
      BY <2>2 DEF ButBilled
    <3>2. SameRows(x.backups, t.backups, BackupFields, {"billed"})
      BY <1>1, <2>3 DEF SameRows, Rows
    <3> QED
      BY <1>1, <2>2, <2>5, <3>1, <3>2 DEF Alike
  <2>7. ASSUME NEW d, d.type \in CostTypes, Apart(e, d)
        PROVE  Uncharged(x, t, d)
    <3>1. CASE d.type = "InfrastructureCostAccrued"
      <4>1. d.server # e.server
        BY <1>2, <2>7, <3>1 DEF Apart
      <4>2. t.servers[d.server] = x.servers[d.server]
        BY <2>1, <4>1 DEF InfrastructureCostAccruedServers
      <4> QED
        BY <3>1, <4>2 DEF Uncharged
    <3> QED
      BY <2>3, <3>1 DEF Uncharged
  <2> QED
    BY <2>3, <2>6, <2>7
<1>3. CASE e.type = "BackupStorageCostAccrued"
  <2>1. /\ t.backups = BackupStorageCostAccruedBackups(x, e)
        /\ Kept(x, t, {"backups", "backupCost"}) /\ e.backup \in DOMAIN x.backups
    BY <1>1, <1>3, BackupStorageCostAccruedEffect DEF BackupStorageCostAccruedGuard
  <2>2. DOMAIN t = Fields /\ \A f \in Fields \ {"backups", "backupCost"} : t[f] = x[f]
    BY <2>1 DEF Kept
  <2>3. t.now = x.now /\ t.refused = x.refused /\ t.servers = x.servers
    BY <2>2 DEF Fields
  <2>5. SameRows(x.backups, t.backups, BackupFields, {"billed"})
    BY <1>1, <2>1 DEF BackupStorageCostAccruedBackups, SameRows, Rows, BackupFields
  <2>6. Alike(x, t)
    <3>1. \A f \in Fields \ ButBilled : x[f] = t[f]
      BY <2>2 DEF ButBilled
    <3>2. SameRows(x.servers, t.servers, ServerFields, {"accrued", "billed"})
      BY <1>1, <2>3 DEF SameRows, Rows
    <3> QED
      BY <1>1, <2>2, <2>5, <3>1, <3>2 DEF Alike
  <2>7. ASSUME NEW d, d.type \in CostTypes, Apart(e, d)
        PROVE  Uncharged(x, t, d)
    <3>1. CASE d.type = "BackupStorageCostAccrued"
      <4>1. d.backup # e.backup
        BY <1>3, <2>7, <3>1 DEF Apart
      <4>2. t.backups[d.backup] = x.backups[d.backup]
        BY <2>1, <4>1 DEF BackupStorageCostAccruedBackups
      <4> QED
        BY <3>1, <4>2 DEF Uncharged
    <3> QED
      BY <2>3, <3>1 DEF Uncharged
  <2> QED
    BY <2>3, <2>6, <2>7
<1> QED
  BY <1>2, <1>3 DEF CostTypes

\* Charges that are due are accepted one after the other.
LEMMA CostsApply ==
    ASSUME NEW t, Tables(t), ~t.refused, NEW es, CostsOwed(t, es)
    PROVE  LET z == ApplyAll(t, es) IN
           Alike(t, z) /\ z.now = t.now /\ ~z.refused /\ Tables(z)
<1>1. Listed(es) /\ Len(es) \in Nat /\ DOMAIN es = 1..Len(es)
  BY ListedDomain DEF CostsOwed
<1>2. PICK g : Follows(g, t, es)
  BY <1>1, ApplyAllFollows
<1> DEFINE Paid(k) == /\ Alike(t, g[k]) /\ g[k].now = t.now /\ ~g[k].refused /\ Tables(g[k])
                      /\ \A j \in 1..Len(es) : j > k => Uncharged(t, g[k], es[j])
           S == {k \in Nat : k <= Len(es) => Paid(k)}
<1>3. 0 \in S
  <2>1. g[0] = t
    BY <1>2 DEF Follows
  <2>2. Alike(t, t)
    BY AlikeSelf
  <2>3. \A j : Uncharged(t, t, es[j])
    BY DEF Uncharged
  <2>4. Paid(0)
    BY <2>1, <2>2, <2>3
  <2> QED
    BY <2>4
<1>4. ASSUME NEW k \in Nat, k \in S
      PROVE  k + 1 \in S
  <2> SUFFICES ASSUME k + 1 <= Len(es)
               PROVE  Paid(k + 1)
    OBVIOUS
  <2> DEFINE z == g[k]
             e == es[k + 1]
             u == g[k + 1]
  <2>1. k + 1 \in 1..Len(es) /\ k <= Len(es)
    BY <1>1
  <2>2. u = Apply(z, e)
    <3>1. g[k + 1] = Apply(g[(k + 1) - 1], es[k + 1])
      BY <1>2, <2>1 DEF Follows
    <3> QED
      BY <3>1
  <2>3. Paid(k)
    BY <1>4, <2>1
  <2>4. CostDue(t, e)
    BY <2>1 DEF CostsOwed
  <2>5. Uncharged(t, z, e)
    BY <2>1, <2>3
  <2>6. Alike(t, z) /\ z.now = t.now /\ ~z.refused /\ Tables(z)
    BY <2>3
  <2>7. e.type \in CostTypes
    BY <2>4 DEF CostDue
  <2> HIDE DEF z, e, u
  <2>8. DOMAIN z.servers = DOMAIN t.servers /\ DOMAIN z.backups = DOMAIN t.backups
    BY <2>6 DEF Alike, SameRows
  <2>9. Handled(z, e) # {}
    <3>1. CASE e.type = "InfrastructureCostAccrued"
      <4>1. InfrastructureCostAccruedGuard(t, e) /\ z.servers[e.server] = t.servers[e.server]
        BY <2>4, <2>5, <3>1 DEF CostDue, Uncharged
      <4>2. InfrastructureCostAccruedGuard(z, e)
        BY <2>6, <2>8, <4>1 DEF InfrastructureCostAccruedGuard
      <4> QED
        BY <3>1, <4>2, InfrastructureCostAccruedEnabled
    <3>2. CASE e.type = "BackupStorageCostAccrued"
      <4>1. BackupStorageCostAccruedGuard(t, e) /\ z.backups[e.backup] = t.backups[e.backup]
        BY <2>4, <2>5, <3>2 DEF CostDue, Uncharged
      <4>2. BackupStorageCostAccruedGuard(z, e)
        BY <2>6, <2>8, <4>1 DEF BackupStorageCostAccruedGuard
      <4> QED
        BY <3>2, <4>2, BackupStorageCostAccruedEnabled
    <3> QED
      BY <2>7, <3>1, <3>2 DEF CostTypes
  <2>10. u \in Handled(z, e)
    <3>1. PICK v : v \in Handled(z, e)
      BY <2>9
    <3> QED
      BY <2>2, <2>6, <3>1, ApplyGives
  <2>11. /\ Alike(z, u) /\ u.now = z.now /\ u.refused = z.refused
         /\ \A d : d.type \in CostTypes /\ Apart(e, d) => Uncharged(z, u, d)
    BY <2>6, <2>7, <2>10, CostStep
  <2>12. ASSUME NEW j \in 1..Len(es), j > k + 1
         PROVE  Uncharged(t, u, es[j])
    <3>1. Apart(e, es[j]) /\ es[j].type \in CostTypes
      BY <2>1, <2>12 DEF CostsOwed, CostDue, e
    <3>2. Uncharged(z, u, es[j])
      BY <2>11, <3>1
    <3>3. Uncharged(t, z, es[j])
      <4>1. j > k
        BY <2>12
      <4> QED
        BY <2>3, <4>1 DEF z
    <3> QED
      BY <3>2, <3>3 DEF Uncharged
  <2>13. Alike(t, u)
    BY <2>6, <2>11, AlikeTrans
  <2>14. Tables(u)
    BY <2>2, <2>6, TablesKept
  <2>15. u.now = t.now /\ ~u.refused
    BY <2>6, <2>11
  <2> QED
    BY <2>12, <2>13, <2>14, <2>15 DEF u
<1>5. Nat \subseteq S
  <2> HIDE DEF S
  <2> QED
    BY <1>3, <1>4, Events!SetInduction
<1>6. Paid(Len(es))
  <2>1. Len(es) \in S
    BY <1>1, <1>5
  <2> QED
    BY <1>1, <2>1
<1>7. ApplyAll(t, es) = g[Len(es)]
  BY <1>2 DEF Follows
<1> QED
  BY <1>6, <1>7
----------------------------------------------------------------------------
(* The bill an advance notes: infrastructureCostEvents,                     *)
(* backupStorageCostEvents                                                  *)
ServerTotal(x, T, i) ==
  IF Catalog[i].monthly > 0 THEN Prorated(x.servers[i].activated, T, Catalog[i].monthly)
  ELSE CeilDiv(T - x.servers[i].activated, Hour)
ServerBilled(x, i) ==
  IF Catalog[i].monthly > 0 THEN x.servers[i].accrued ELSE x.servers[i].billed
DueServers(x, T) == {i \in Charged(x, T) : Due(ServerTotal(x, T, i), ServerBilled(x, i))}
ServerCharge(x, T, i) ==
  [type |-> "InfrastructureCostAccrued", server |-> i, to |-> T,
   total |-> ServerTotal(x, T, i),
   amount |-> IF Catalog[i].monthly > 0 THEN ServerTotal(x, T, i) - ServerBilled(x, i)
              ELSE (ServerTotal(x, T, i) - ServerBilled(x, i)) * Catalog[i].hourly]
DueBackups(x, T) ==
  {b \in DOMAIN x.backups : /\ x.backups[b].status = "ready" /\ x.backups[b].completed < T
                            /\ Due(Hours(x, b, T), x.backups[b].billed)}
BackupCharge(x, T, b) ==
  [type |-> "BackupStorageCostAccrued", backup |-> b, to |-> T, hours |-> Hours(x, b, T),
   amount |-> (Hours(x, b, T) - x.backups[b].billed) * x.backups[b].rate]

LEMMA CostsAre ==
    ASSUME NEW x, NEW T
    PROVE  /\ ServerCosts(x, T) = [k \in DOMAIN Ascending(DueServers(x, T)) |->
                                     ServerCharge(x, T, Ascending(DueServers(x, T))[k])]
           /\ BackupCosts(x, T) = [k \in DOMAIN Ascending(DueBackups(x, T)) |->
                                     BackupCharge(x, T, Ascending(DueBackups(x, T))[k])]
BY DEF ServerCosts, BackupCosts, DueServers, DueBackups, ServerCharge, BackupCharge,
       ServerTotal, ServerBilled

LEMMA ChargesDue ==
    ASSUME NEW x, NEW t, NEW T, TimePassed(x, t, T)
    PROVE  /\ \A i \in DueServers(x, T) : CostDue(t, ServerCharge(x, T, i))
           /\ \A b \in DueBackups(x, T) : CostDue(t, BackupCharge(x, T, b))
<1>0. t.servers = x.servers /\ t.backups = x.backups /\ t.now = T
  BY DEF TimePassed
<1>1. ASSUME NEW i \in DueServers(x, T)
      PROVE  CostDue(t, ServerCharge(x, T, i))
  <2> DEFINE e == ServerCharge(x, T, i)
  <2>1. /\ e.type = "InfrastructureCostAccrued" /\ e.server = i /\ e.to = T
        /\ e.total = ServerTotal(x, T, i)
        /\ Catalog[i].monthly > 0 => e.amount = ServerTotal(x, T, i) - ServerBilled(x, i)
    BY DEF ServerCharge
  <2>2. i \in DOMAIN x.servers /\ ServerTotal(x, T, i) > ServerBilled(x, i)
    BY DEF DueServers, Due, Charged, WithStatus
  <2> HIDE DEF e
  <2>3. InfrastructureCostAccruedGuard(t, e)
    <3>1. CASE Catalog[i].monthly > 0
      BY <1>0, <2>1, <2>2, <3>1 DEF InfrastructureCostAccruedGuard, ServerBilled
    <3>2. CASE ~(Catalog[i].monthly > 0)
      BY <1>0, <2>1, <2>2, <3>2 DEF InfrastructureCostAccruedGuard, ServerBilled
    <3> QED
      BY <3>1, <3>2
  <2>4. CostDue(t, e)
    BY <2>1, <2>3 DEF CostDue, CostTypes
  <2> QED
    BY <2>4 DEF e
<1>2. ASSUME NEW b \in DueBackups(x, T)
      PROVE  CostDue(t, BackupCharge(x, T, b))
  <2> DEFINE e == BackupCharge(x, T, b)
  <2>1. /\ e.type = "BackupStorageCostAccrued" /\ e.backup = b /\ e.to = T
        /\ e.hours = Hours(x, b, T)
        /\ e.amount = (Hours(x, b, T) - x.backups[b].billed) * x.backups[b].rate
    BY DEF BackupCharge
  <2>2. /\ b \in DOMAIN x.backups /\ x.backups[b].status = "ready"
        /\ Hours(x, b, T) > x.backups[b].billed
    BY DEF DueBackups, Due
  <2> HIDE DEF e
  <2>3. BackupStorageCostAccruedGuard(t, e)
    BY <1>0, <2>1, <2>2 DEF BackupStorageCostAccruedGuard
  <2>4. CostDue(t, e)
    BY <2>1, <2>3 DEF CostDue, CostTypes
  <2> QED
    BY <2>4 DEF e
<1> QED
  BY <1>1, <1>2

\* What an advance from x to T charges is owed when its time has passed.
Bill(x, T) == ServerCosts(x, T) \o BackupCosts(x, T)
LEMMA BillOwed ==
    ASSUME NEW x, Steady(x.now, x), NEW t, NEW T, TimePassed(x, t, T)
    PROVE  /\ Listed(ServerCosts(x, T)) /\ Listed(BackupCosts(x, T)) /\ CostsOwed(t, Bill(x, T))
           /\ \A k \in 1..Len(Bill(x, T)) : "seq" \notin DOMAIN Bill(x, T)[k]
<1> DEFINE A == Ascending(DueServers(x, T))
           B == Ascending(DueBackups(x, T))
           p == ServerCosts(x, T)
           q == BackupCosts(x, T)
<1>1. IsFiniteSet(DueServers(x, T)) /\ DueServers(x, T) \subseteq Int
  <2>1. DueServers(x, T) \subseteq DOMAIN x.servers
    BY DEF DueServers, Charged, WithStatus
  <2>2. DOMAIN x.servers \subseteq Servers /\ Servers \subseteq Int /\ IsFiniteSet(DOMAIN x.servers)
    BY ServersAssumption DEF Steady, Placed, Tables
  <2> QED
    BY <2>1, <2>2, FS_Subset
<1>2. IsFiniteSet(DueBackups(x, T)) /\ DueBackups(x, T) \subseteq Int
  <2>1. DueBackups(x, T) \subseteq DOMAIN x.backups
    BY DEF DueBackups
  <2>2. DOMAIN x.backups \subseteq Int /\ IsFiniteSet(DOMAIN x.backups)
    BY DEF Steady, Ruled, Tables
  <2> QED
    BY <2>1, <2>2, FS_Subset
<1>3. /\ Len(A) \in Nat /\ DOMAIN A = 1..Len(A) /\ \A k \in 1..Len(A) : A[k] \in DueServers(x, T)
      /\ \A j, k \in 1..Len(A) : A[j] = A[k] => j = k
  BY <1>1, AscendingMembers DEF Enumerates
<1>4. /\ Len(B) \in Nat /\ DOMAIN B = 1..Len(B) /\ \A k \in 1..Len(B) : B[k] \in DueBackups(x, T)
      /\ \A j, k \in 1..Len(B) : B[j] = B[k] => j = k
  BY <1>2, AscendingMembers DEF Enumerates
<1>5. /\ p = [k \in 1..Len(A) |-> ServerCharge(x, T, A[k])]
      /\ q = [k \in 1..Len(B) |-> BackupCharge(x, T, B[k])]
  BY <1>3, <1>4, CostsAre
<1> HIDE DEF A, B, p, q
<1>6. Listed(p) /\ Len(p) = Len(A)
  <2>1. DOMAIN p = 1..Len(A) /\ p = [k \in DOMAIN p |-> p[k]]
    BY <1>5
  <2> QED
    BY <1>3, <2>1, ListedFunction
<1>7. Listed(q) /\ Len(q) = Len(B)
  <2>1. DOMAIN q = 1..Len(B) /\ q = [k \in DOMAIN q |-> q[k]]
    BY <1>5
  <2> QED
    BY <1>4, <2>1, ListedFunction
<1>8. /\ \A k \in 1..Len(A) : p[k] = ServerCharge(x, T, A[k])
      /\ \A k \in 1..Len(B) : q[k] = BackupCharge(x, T, B[k])
  BY <1>5
<1> DEFINE es == p \o q
<1>9. /\ Listed(es) /\ Len(es) = Len(A) + Len(B)
      /\ \A i \in 1..Len(A) : es[i] = p[i]
      /\ \A i \in 1..Len(B) : es[Len(A) + i] = q[i]
  BY <1>6, <1>7, ListedAppend
<1> HIDE DEF es
<1>10. \A k \in 1..Len(es) :
         \/ k \in 1..Len(A) /\ es[k] = ServerCharge(x, T, A[k])
         \/ k - Len(A) \in 1..Len(B) /\ es[k] = BackupCharge(x, T, B[k - Len(A)])
  <2> SUFFICES ASSUME NEW k \in 1..Len(es)
               PROVE  \/ k \in 1..Len(A) /\ es[k] = ServerCharge(x, T, A[k])
                      \/ k - Len(A) \in 1..Len(B) /\ es[k] = BackupCharge(x, T, B[k - Len(A)])
    OBVIOUS
  <2>1. CASE k <= Len(A)
    BY <1>3, <1>8, <1>9, <2>1
  <2>2. CASE k > Len(A)
    <3>1. k - Len(A) \in 1..Len(B) /\ Len(A) + (k - Len(A)) = k
      BY <1>3, <1>4, <1>9, <2>2
    <3> QED
      BY <1>8, <1>9, <3>1
  <2> QED
    BY <1>3, <2>1, <2>2
<1>11. \A i : /\ ServerCharge(x, T, i).type = "InfrastructureCostAccrued"
              /\ ServerCharge(x, T, i).server = i /\ "seq" \notin DOMAIN ServerCharge(x, T, i)
              /\ BackupCharge(x, T, i).type = "BackupStorageCostAccrued"
              /\ BackupCharge(x, T, i).backup = i /\ "seq" \notin DOMAIN BackupCharge(x, T, i)
  BY DEF ServerCharge, BackupCharge
<1>12. \A k \in 1..Len(es) : CostDue(t, es[k]) /\ "seq" \notin DOMAIN es[k]
  BY <1>3, <1>4, <1>10, <1>11, ChargesDue
<1>13. ASSUME NEW j \in 1..Len(es), NEW k \in 1..Len(es), j # k
       PROVE  Apart(es[j], es[k])
  <2>1. CASE /\ j \in 1..Len(A) /\ es[j] = ServerCharge(x, T, A[j])
             /\ k \in 1..Len(A) /\ es[k] = ServerCharge(x, T, A[k])
    <3>1. A[j] # A[k]
      BY <1>3, <1>13, <2>1
    <3> QED
      BY <1>11, <2>1, <3>1 DEF Apart
  <2>2. CASE /\ j - Len(A) \in 1..Len(B) /\ es[j] = BackupCharge(x, T, B[j - Len(A)])
             /\ k - Len(A) \in 1..Len(B) /\ es[k] = BackupCharge(x, T, B[k - Len(A)])
    <3>1. B[j - Len(A)] # B[k - Len(A)]
      <4>1. j - Len(A) # k - Len(A)
        BY <1>3, <1>9, <1>4, <1>13
      <4> QED
        BY <1>4, <2>2, <4>1
    <3> QED
      BY <1>11, <2>2, <3>1 DEF Apart
  <2>3. CASE es[j].type # es[k].type
    BY <2>3 DEF Apart
  <2> QED
    BY <1>10, <1>11, <2>1, <2>2, <2>3
<1>14. CostsOwed(t, es)
  BY <1>9, <1>12, <1>13 DEF CostsOwed
<1> QED
  BY <1>6, <1>7, <1>12, <1>14 DEF es, p, q, Bill

\* The journal of an advance once the time and its cost are noted.
LEMMA JournalledAlike ==
    ASSUME NEW x, x.now \in Int, Sound(x.now, x), ~x.refused, Running(x), x.indexed <= x.now,
           NEW T \in Int, x.now <= T, T <= EndsAt
    PROVE  /\ Alike(Apply(x, TimeAdvanced(x.now, T)), Journalled(x, T))
           /\ Journalled(x, T).now = T /\ ~Journalled(x, T).refused
           /\ Listed(<<TimeAdvanced(x.now, T)>> \o ServerCosts(x, T) \o BackupCosts(x, T))
           /\ \A items : FoldLeft(Occurs, items, <<TimeAdvanced(x.now, T)>> \o ServerCosts(x, T)
                                                 \o BackupCosts(x, T)) = items
           /\ Listed(ServerCosts(x, T)) /\ Listed(BackupCosts(x, T))
<1> DEFINE e == TimeAdvanced(x.now, T)
           t == Apply(x, e)
           p == ServerCosts(x, T)
           q == BackupCosts(x, T)
<1>1. TimePassed(x, t, T) /\ Steady(x.now, t)
  BY TimePasses
<1>2. Steady(x.now, x)
  BY DEF Sound
<1>3. Listed(p) /\ Listed(q) /\ CostsOwed(t, p \o q)
      /\ \A k \in 1..Len(p \o q) : "seq" \notin DOMAIN (p \o q)[k]
  BY <1>1, <1>2, BillOwed DEF Bill
<1>4. Tables(t) /\ ~t.refused /\ t.now = T
  BY <1>1 DEF Steady, TimePassed
<1>5. "seq" \notin DOMAIN e
  BY DEF TimeAdvanced
<1> HIDE DEF e, p, q
<1>6. Listed(<<e>>) /\ Listed(p \o q) /\ Listed(<<e>> \o (p \o q))
  BY <1>3, ListedLiterals, ListedAppend
<1>7. <<e>> \o p \o q = <<e>> \o (p \o q)
  BY <1>3, <1>6, ConcatAssociates
<1>8. Journalled(x, T) = ApplyAll(t, p \o q)
  <2>1. Journalled(x, T) = ApplyAll(x, <<e>> \o (p \o q))
    BY <1>7 DEF Journalled, e, p, q
  <2>2. ApplyAll(x, <<e>> \o (p \o q)) = ApplyAll(ApplyAll(x, <<e>>), p \o q)
    BY <1>6, ApplyAllAppend
  <2> QED
    BY <2>1, <2>2, ApplyAllOne
<1> HIDE DEF t
<1>9. Alike(t, Journalled(x, T)) /\ Journalled(x, T).now = T /\ ~Journalled(x, T).refused
  BY <1>3, <1>4, <1>8, CostsApply
<1>10. ASSUME NEW items
       PROVE  FoldLeft(Occurs, items, <<e>> \o (p \o q)) = items
  <2>1. FoldLeft(Occurs, items, <<e>> \o (p \o q))
          = FoldLeft(Occurs, FoldLeft(Occurs, items, <<e>>), p \o q)
    BY <1>6, OccursAppend
  <2>2. FoldLeft(Occurs, items, <<e>>) = items
    BY <1>5, OccursOne DEF Occurs
  <2> QED
    BY <1>3, <1>6, <2>1, <2>2, OccursNone
<1> QED
  BY <1>3, <1>6, <1>7, <1>9, <1>10 DEF t, e, p, q
----------------------------------------------------------------------------
(* The draft an advance begins with                                         *)
\* What a decision can rely on.
Standing(x) ==
  /\ x.now \in Nat /\ Sound(x.now, x) /\ ~x.refused /\ x.indexed = x.now
  /\ CursorAt(x.cursor, x.now)
  /\ x.firewallDown = Denying(x.rules, x.now)
  /\ x.site.status = "stopping" => x.site.op = SiteStop
  /\ SiteStop \in x.ops <=> x.site.status = "stopping"
Begun(x, bound) ==
  [st |-> Apply(x, TimeAdvanced(x.now, bound)), out |-> <<>>, cursor |-> x.now,
   to |-> bound, stopOp |-> NoOperation, codes |-> {}, failed |-> FALSE, done |-> FALSE]

LEMMA BegunTracks ==
    ASSUME NEW x, Standing(x), Running(x), NEW bound \in Int, x.now < bound, bound <= EndsAt
    PROVE  /\ Draftlike(Begun(x, bound)) /\ DOMAIN Begun(x, bound) = DraftFields
           /\ Begun(x, bound).done = FALSE /\ Begun(x, bound).to = bound
           /\ \A T \in Int : x.now < T /\ T <= bound =>
                Tracks(Course(x, T, 0), x.now, Begun(x, bound))
<1> DEFINE w == Begun(x, bound)
           t == Apply(x, TimeAdvanced(x.now, bound))
<1>1. /\ w.st = t /\ w.out = <<>> /\ w.cursor = x.now /\ w.to = bound
      /\ w.stopOp = NoOperation /\ w.done = FALSE /\ DOMAIN w = DraftFields
      /\ w = [f \in DOMAIN w |-> w[f]]
  BY DEF Begun, DraftFields
<1>2. /\ x.now \in Int /\ x.now <= bound /\ x.indexed <= x.now /\ Sound(x.now, x)
      /\ ~x.refused /\ EndsAt \in Int
  BY ScheduleAssumption DEF Standing
<1>3. TimePassed(x, t, bound) /\ Marked(t) /\ \A U \in Int : x.now <= U => Steady(U, t)
  BY <1>2, TimePasses
<1> HIDE DEF w, t
<1>4. Tables(t)
  BY <1>2, <1>3 DEF Steady
<1>5. Draftlike(w)
  BY <1>1, <1>4, ListedLiterals DEF Draftlike, DraftFields
<1>6. ASSUME NEW T \in Int, x.now < T, T <= bound
      PROVE  Tracks(Course(x, T, 0), x.now, w)
  <2> DEFINE c == Course(x, T, 0)
             u == Apply(x, TimeAdvanced(x.now, T))
  <2>1. /\ c.y = Journalled(x, T) /\ c.T = T /\ c.fired = FirstItems(x.cursor)
        /\ c.over = FALSE /\ c.cursor = x.cursor + 0 /\ c.rules = x.rules
        /\ c.down = Denying(x.rules, x.now) /\ c.ops = x.ops /\ c.roles = Roles(x.servers)
        /\ c.passed = x.now
    BY DEF Course, Reached
  <2> HIDE DEF c
  <2>2. x.now <= T /\ T <= EndsAt
    BY <1>2, <1>6
  <2>3. Alike(t, u)
    BY <1>2, <2>2, TimesAlike DEF t
  <2>4. Alike(u, Journalled(x, T)) /\ Journalled(x, T).now = T
    BY <1>2, <2>2, JournalledAlike
  <2>5. Alike(t, ApplyAll(c.y, <<>>)) /\ ApplyAll(c.y, <<>>).now = c.T
    BY <2>1, <2>3, <2>4, AlikeTrans, ApplyAllNone
  <2>6. x.cursor \in Nat /\ c.cursor = x.cursor
    BY <2>1, ScheduleLen DEF Standing, CursorAt
  <2>7. FoldLeft(Occurs, c.fired, <<>>) = FirstItems(c.cursor)
    <3>1. Listed(<<>>) /\ \A i \in 1..Len(<<>>) : "seq" \notin DOMAIN <<>>[i]
      BY ListedLiterals
    <3> QED
      BY <2>1, <2>6, <3>1, OccursNone
  <2>8. Holds(c, t)
    BY <1>3, <2>1, <2>6 DEF Holds, TimePassed, Standing
  <2>9. Bears(c, x.now, w)
    <3>1. Steady(c.T, t) /\ t.indexed <= x.now
      BY <1>2, <1>3, <2>1, <2>2 DEF TimePassed
    <3> QED
      BY <1>1, <1>5, <2>5, <2>7, <2>8, <3>1 DEF Bears
  <2>10. NoOperation # SiteStop
    BY DEF NoOperation, SiteStop
  <2>11. t.site = x.site
    BY <1>3 DEF TimePassed
  <2>12. Stops(c, w)
    BY <1>1, <2>1, <2>10, <2>11 DEF Stops, StopEnded, Standing
  <2>13. Tracks(c, x.now, w)
    BY <1>1, <1>3, <2>1, <2>9, <2>12 DEF Tracks
  <2> QED
    BY <2>13 DEF c
<1> QED
  BY <1>1, <1>5, <1>6 DEF w

\* The advance when its last item has happened.
LEMMA LastItem ==
    ASSUME NEW x, Standing(x), Running(x), NEW bound \in Int, x.now < bound, bound <= EndsAt,
           NEW stop, NEW filter
    PROVE  LET v == Items(Begun(x, bound), Pending(x, bound), stop, filter) IN
           /\ Draftlike(v) /\ DOMAIN v = DraftFields
           /\ v.to \in Int /\ x.now < v.to /\ v.to <= bound
           /\ \E j \in Nat : /\ CursorAt(x.cursor + j, v.to)
                             /\ Reached(x, j) \in Nat /\ Reached(x, j) <= v.to
                             /\ Tracks(Course(x, v.to, j), v.to, v)
<1>1. x.now \in Nat /\ x.cursor \in Nat /\ CursorAt(x.cursor, x.now)
  BY ScheduleLen DEF Standing, CursorAt
<1>2. /\ Draftlike(Begun(x, bound)) /\ DOMAIN Begun(x, bound) = DraftFields
      /\ Begun(x, bound).done = FALSE /\ Begun(x, bound).to = bound
      /\ \A T \in Int : x.now < T /\ T <= bound =>
                Tracks(Course(x, T, 0), x.now, Begun(x, bound))
  BY BegunTracks
<1> QED
  BY <1>1, <1>2, ItemsTracks
----------------------------------------------------------------------------
(* Events that start and end operations                                     *)
\* The context a state is in itself.
At(c, x) ==
  [y |-> c.y, T |-> c.T, fired |-> c.fired, over |-> c.over, cursor |-> x.cursor,
   rules |-> x.rules, down |-> x.firewallDown, ops |-> x.ops, roles |-> Roles(x.servers),
   passed |-> c.passed]
Tracked(c, at, w) == Tracks(At(c, w.st), at, w)

LEMMA AtFields ==
    ASSUME NEW c, NEW x
    PROVE  /\ SameRun(c, At(c, x)) /\ At(c, x).passed = c.passed /\ Holds(At(c, x), x)
           /\ At(c, x).T = c.T /\ At(c, x).y = c.y /\ At(c, x).ops = x.ops
           /\ At(c, x).cursor = x.cursor /\ At(c, x).rules = x.rules
           /\ At(c, x).fired = c.fired /\ At(c, x).over = c.over
BY DEF At, SameRun, Holds

\* A refused draft tracks anything.
LEMMA RefusedTracks ==
    ASSUME NEW c, NEW at, NEW w, Draftlike(w), w.st.refused
    PROVE  Tracks(c, at, w)
BY DEF Tracks, Bears

LEMMA TracksAt ==
    ASSUME NEW c, NEW at, NEW w, Tracks(c, at, w)
    PROVE  Tracked(c, at, w)
<1> DEFINE d == At(c, w.st)
<1>1. Draftlike(w)
  BY DEF Tracks, Bears
<1>2. CASE w.st.refused
  BY <1>1, <1>2, RefusedTracks DEF Tracked
<1>3. CASE ~w.st.refused
  <2>1. Holds(c, w.st)
    BY <1>3 DEF Tracks, Bears
  <2>2. /\ SameRun(c, d) /\ d.cursor = c.cursor /\ d.rules = c.rules
        /\ d.down = c.down /\ d.ops = c.ops /\ d.roles = c.roles /\ d.passed = c.passed
    BY <2>1 DEF At, SameRun, Holds
  <2> HIDE DEF d
  <2>3. Tracks(d, at, w)
    BY <2>2, SameTracks
  <2> QED
    BY <2>3 DEF d, Tracked
<1> QED
  BY <1>2, <1>3

\* What an event of such a draft may be.
Routine(e) ==
  /\ e.type \notin ScheduleTypes /\ "seq" \notin DOMAIN e
  /\ e.type \in OperationTypes => e.op # SiteStop
LEMMA EmitTracked ==
    ASSUME NEW c, c.T \in Int, NEW at \in Int, NEW w, Tracked(c, at, w), NEW e,
           ~Apply(w.st, e).refused =>
             Timely(c, at, w.st, e) /\ Still(w.st, e) /\ Routine(e)
    PROVE  Tracked(c, at, Emit(w, <<e>>)) /\ Draftlike(Emit(w, <<e>>))
<1> DEFINE d == At(c, w.st)
           f == At(c, Apply(w.st, e))
           v == Emit(w, <<e>>)
<1>1. Draftlike(w) /\ DOMAIN w.st = Fields
  BY DEF Tracked, Tracks, Bears, Draftlike, Tables
<1>2. Draftlike(v) /\ v.st = Apply(w.st, e)
  BY <1>1, OneEmitted
<1> HIDE DEF v
<1>3. CASE v.st.refused
  BY <1>2, <1>3, RefusedTracks DEF Tracked, v
<1>4. CASE ~v.st.refused
  <2>1. /\ Timely(c, at, w.st, e) /\ Still(w.st, e) /\ Routine(e)
        /\ Apply(w.st, e) \in Handled(w.st, e)
    BY <1>1, <1>2, <1>4, Accepted
  <2>2. /\ SameRun(d, f) /\ f.passed = d.passed /\ d.T = c.T /\ Holds(f, Apply(w.st, e))
        /\ d.ops = w.st.ops /\ f.ops = Apply(w.st, e).ops
        /\ d.cursor = w.st.cursor /\ f.cursor = Apply(w.st, e).cursor
    BY DEF At, SameRun, Holds
  <2> HIDE DEF d, f
  <2>3. Apply(w.st, e).cursor = w.st.cursor
    BY <1>1, <2>1, ChangedBy DEF Routine, ScheduleTypes
  <2>4. SiteStop \in Apply(w.st, e).ops <=> SiteStop \in w.st.ops
    <3>1. CASE e.type \notin OperationTypes
      <4>1. Apply(w.st, e).ops = w.st.ops
        BY <1>1, <2>1, <3>1, ChangedBy DEF OperationTypes
      <4> QED
        BY <4>1
    <3>2. CASE e.type = "OperationStarted"
      <4>1. Apply(w.st, e).ops = w.st.ops \cup {e.op}
        BY <1>1, <2>1, <3>2, OperationStartedEffect DEF OperationStartedOps
      <4> QED
        BY <2>1, <3>2, <4>1 DEF Routine, OperationTypes
    <3>3. CASE e.type = "OperationSucceeded"
      <4>1. Apply(w.st, e).ops = w.st.ops \ {e.op}
        BY <1>1, <2>1, <3>3, OperationSucceededEffect DEF OperationSucceededOps
      <4> QED
        BY <2>1, <3>3, <4>1 DEF Routine, OperationTypes
    <3> QED
      BY <3>1, <3>2, <3>3 DEF OperationTypes
  <2>5. Occurs(FirstItems(d.cursor), e) = FirstItems(f.cursor)
    BY <2>1, <2>2, <2>3 DEF Occurs, Routine
  <2>6. Timely(d, at, w.st, e)
    BY <2>1, <2>2 DEF Timely
  <2>7. Tracks(d, at, w) /\ d.T \in Int
    BY <2>2 DEF Tracked, d
  <2>8. Tracks(f, at, v)
    BY <2>1, <2>2, <2>4, <2>5, <2>6, <2>7, EmitTracksTo DEF v
  <2> QED
    BY <1>2, <2>8 DEF Tracked, f, v
<1> QED
  BY <1>2, <1>3, <1>4 DEF v

LEMMA SplitLast ==
    ASSUME NEW es, Listed(es), NEW n \in Nat, Len(es) = n + 1
    PROVE  \E p : /\ Listed(p) /\ Len(p) = n /\ es = p \o <<es[n + 1]>>
                  /\ \A i \in 1..n : p[i] = es[i]
<1>1. PICK S : es \in Seq(S)
  BY DEF Listed
<1> DEFINE p == [i \in 1..n |-> es[i]]
           q == <<es[n + 1]>>
<1>2. \A i \in 1..(n + 1) : es[i] \in S
  BY <1>1
<1>3. p \in Seq(S) /\ Len(p) = n /\ \A i \in 1..n : p[i] = es[i]
  BY <1>2
<1>4. q \in Seq(S) /\ Len(q) = 1 /\ q[1] = es[n + 1]
  BY <1>2
<1> HIDE DEF p, q
<1>5. /\ p \o q \in Seq(S) /\ Len(p \o q) = n + 1
      /\ \A i \in 1..(n + 1) : (p \o q)[i] = IF i <= n THEN p[i] ELSE q[i - n]
  <2>1. /\ p \o q \in Seq(S) /\ Len(p \o q) = Len(p) + Len(q)
        /\ \A i \in 1..(Len(p) + Len(q)) :
             (p \o q)[i] = IF i <= Len(p) THEN p[i] ELSE q[i - Len(p)]
    BY <1>3, <1>4, ConcatProperties
  <2> QED
    BY <1>3, <1>4, <2>1
<1>6. \A i \in 1..(n + 1) : (p \o q)[i] = es[i]
  <2> SUFFICES ASSUME NEW i \in 1..(n + 1) PROVE (p \o q)[i] = es[i]
    OBVIOUS
  <2>1. CASE i <= n
    BY <1>3, <1>5, <2>1
  <2>2. CASE ~(i <= n)
    <3>1. i = n + 1 /\ i - n = 1
      BY <2>2
    <3> QED
      BY <1>4, <1>5, <2>2, <3>1
  <2> QED
    BY <2>1, <2>2
<1>7. es = p \o q
  BY <1>1, <1>5, <1>6, SeqEqual
<1> QED
  BY <1>3, <1>7 DEF q, Listed

\* A list of events at the draft's own time, none of which depends on the others.
Plain(T, e) ==
  /\ Routine(e) /\ e.type \in {"ServerActivated", "OperationSucceeded"} /\ e.at = T
LEMMA EmitAllTracked ==
    ASSUME NEW c, c.T \in Int, NEW at \in Int, NEW w, Tracked(c, at, w), w.st.now = c.T,
           NEW es, Listed(es), \A k \in 1..Len(es) : Plain(c.T, es[k])
    PROVE  /\ Tracked(c, at, Emit(w, es)) /\ Draftlike(Emit(w, es))
           /\ Emit(w, es).st.now = c.T
<1> DEFINE Good(v) == Tracked(c, at, v) /\ Draftlike(v) /\ v.st.now = c.T
           S == {n \in Nat : \A p : /\ Listed(p) /\ Len(p) = n
                                    /\ \A k \in 1..n : Plain(c.T, p[k])
                                    => Good(Emit(w, p))}
<1>1. Draftlike(w)
  BY DEF Tracked, Tracks, Bears
<1>2. 0 \in S
  <2> SUFFICES ASSUME NEW p, Listed(p), Len(p) = 0
               PROVE  Good(Emit(w, p))
    OBVIOUS
  <2>1. p = <<>>
    BY EmptySeq DEF Listed
  <2> QED
    BY <1>1, <2>1, EmitNone
<1>3. ASSUME NEW n \in Nat, n \in S
      PROVE  n + 1 \in S
  <2> SUFFICES ASSUME NEW q, Listed(q), Len(q) = n + 1, \A k \in 1..(n + 1) : Plain(c.T, q[k])
               PROVE  Good(Emit(w, q))
    OBVIOUS
  <2>1. PICK p : /\ Listed(p) /\ Len(p) = n /\ q = p \o <<q[n + 1]>>
                 /\ \A i \in 1..n : p[i] = q[i]
    BY SplitLast
  <2>2. Good(Emit(w, p))
    BY <1>3, <2>1
  <2> DEFINE v == Emit(w, p)
             e == q[n + 1]
  <2>3. Emit(w, q) = Emit(v, <<e>>)
    <3> DEFINE z == <<e>>
    <3>1. Listed(z)
      BY ListedLiterals
    <3>2. q = p \o z
      BY <2>1
    <3> HIDE DEF z
    <3>3. Emit(w, p \o z) = Emit(Emit(w, p), z)
      BY <1>1, <2>1, <3>1, EmitAppend
    <3> QED
      BY <3>2, <3>3 DEF z
  <2>4. Plain(c.T, e)
    OBVIOUS
  <2> HIDE DEF v, e
  <2>5. v.st.now = c.T /\ Tracked(c, at, v) /\ Draftlike(v)
    BY <2>2 DEF v
  <2>6. Timely(c, at, v.st, e) /\ Still(v.st, e) /\ Routine(e)
    BY <2>4, <2>5 DEF Plain, Timely, Still, KeepsMark, Proper, AlikeTypes, KnownTypes,
       CostTypes, ServerTypes, OperationTypes
  <2>7. Tracked(c, at, Emit(v, <<e>>)) /\ Draftlike(Emit(v, <<e>>))
    BY <2>5, <2>6, EmitTracked
  <2>8. Emit(v, <<e>>).st.now = c.T
    BY <2>4, <2>5, OneEmitted DEF Plain
  <2> QED
    BY <2>3, <2>7, <2>8
<1>4. Nat \subseteq S
  <2> HIDE DEF S
  <2> QED
    BY <1>2, <1>3, Events!SetInduction
<1>5. Len(es) \in S
  BY <1>4, ListedDomain
<1> QED
  BY <1>5
----------------------------------------------------------------------------
(* Operations and what they wait for                                        *)
Busy(x) ==
  {Create(i) : i \in WithStatus(x, "provisioning")}
  \cup {Delete(i) : i \in WithStatus(x, "draining")}
Assigned(x) ==
  \A i \in DOMAIN x.servers :
    /\ x.servers[i].status \in {"provisioning", "active", "draining"}
    /\ x.servers[i].status = "provisioning" =>
         x.servers[i].op = Create(i) /\ x.servers[i].ready \in Int
    /\ x.servers[i].status = "draining" => x.servers[i].op = Delete(i)
Owes(x) == Assigned(x) /\ x.ops \ {SiteStop} = Busy(x)

LEMMA OperationsDiffer ==
    /\ \A i, j : Create(i) = Create(j) => i = j
    /\ \A i, j : Delete(i) = Delete(j) => i = j
    /\ \A i, j : Create(i) # Delete(j)
    /\ \A i : Create(i) # SiteStop /\ Delete(i) # SiteStop
    /\ NoOperation # SiteStop
BY DEF Create, Delete, SiteStop, NoOperation

LEMMA OwesByRoles ==
    ASSUME NEW x, NEW y, Owes(x), Roles(y.servers) = Roles(x.servers),
           y.ops \ {SiteStop} = x.ops \ {SiteStop}
    PROVE  Owes(y)
<1>1. /\ DOMAIN y.servers = DOMAIN x.servers
      /\ \A i \in DOMAIN x.servers :
           /\ y.servers[i].status = x.servers[i].status /\ y.servers[i].op = x.servers[i].op
           /\ y.servers[i].ready = x.servers[i].ready
  <2>1. /\ DOMAIN Roles(y.servers) = DOMAIN y.servers /\ DOMAIN Roles(x.servers) = DOMAIN x.servers
        /\ \A i \in DOMAIN x.servers :
             Roles(x.servers)[i] = <<x.servers[i].status, x.servers[i].op, x.servers[i].ready>>
        /\ \A i \in DOMAIN y.servers :
             Roles(y.servers)[i] = <<y.servers[i].status, y.servers[i].op, y.servers[i].ready>>
    BY DEF Roles
  <2> QED
    BY <2>1
<1>2. \A st : WithStatus(y, st) = WithStatus(x, st)
  BY <1>1 DEF WithStatus
<1>3. Busy(y) = Busy(x)
  BY <1>2 DEF Busy
<1> QED
  BY <1>1, <1>3 DEF Owes, Assigned

\* What none of these events changes.
QuietTypes ==
  {"ServerProvisioningStarted", "ServerActivated", "ServerDrainingStarted", "ServerRemoved",
   "DatabaseCreated", "DatabaseDeleted", "OperationStarted", "OperationSucceeded",
   "BackendAvailabilityChanged", "RunEnded"}
Quiet(x, t) ==
  /\ DOMAIN t = Fields /\ t.now = x.now /\ t.cursor = x.cursor /\ t.conns = x.conns
  /\ t.capacity = x.capacity /\ t.used = x.used /\ t.indexed = x.indexed
  /\ t.rules = x.rules /\ t.firewallDown = x.firewallDown
  /\ SameSite(t.site, x.site)
LEMMA QuietStep ==
    ASSUME NEW x, DOMAIN x = Fields, DOMAIN x.site = SiteFields, NEW e, e.type \in QuietTypes,
           NEW t \in Handled(x, e)
    PROVE  Quiet(x, t) /\ DOMAIN t.site = SiteFields
<1>1. DOMAIN t = Fields
  BY GroupKeeps, UnknownRefused DEF Kept, KnownTypes
<1>2. /\ t.now = x.now /\ t.cursor = x.cursor /\ t.conns = x.conns
      /\ t.capacity = x.capacity /\ t.used = x.used /\ t.indexed = x.indexed
      /\ t.rules = x.rules /\ t.firewallDown = x.firewallDown
  BY ChangedBy DEF QuietTypes
<1>3. SameSite(t.site, x.site) /\ DOMAIN t.site = SiteFields
  BY SiteStep DEF SiteChange, QuietTypes
<1> QED
  BY <1>1, <1>2, <1>3 DEF Quiet

LEMMA QuietOn ==
    ASSUME NEW x, NEW y, NEW z, Quiet(x, y), Quiet(y, z)
    PROVE  Quiet(x, z)
BY DEF Quiet, SameSite
LEMMA QuietSelf ==
    ASSUME NEW x, DOMAIN x = Fields, DOMAIN x.site = SiteFields
    PROVE  Quiet(x, x)
BY DEF Quiet, SameSite

\* A list that is not refused has no event that is.
LEMMA Unrefused ==
    ASSUME NEW x, DOMAIN x = Fields, NEW es, Listed(es), NEW g, Follows(g, x, es),
           ~g[Len(es)].refused
    PROVE  /\ \A k \in 0..Len(es) : DOMAIN g[k] = Fields /\ ~g[k].refused
           /\ \A k \in 1..Len(es) : g[k] \in Handled(g[k - 1], es[k])
<1>1. Len(es) \in Nat
  BY ListedDomain
<1> DEFINE S == {k \in Nat : k <= Len(es) => DOMAIN g[k] = Fields}
<1>2. 0 \in S
  BY DEF Follows
<1>3. ASSUME NEW k \in Nat, k \in S
      PROVE  k + 1 \in S
  <2> SUFFICES ASSUME k + 1 <= Len(es)
               PROVE  DOMAIN g[k + 1] = Fields
    OBVIOUS
  <2>1. DOMAIN g[k] = Fields
    BY <1>1, <1>3
  <2>2. k + 1 \in 1..Len(es) /\ (k + 1) - 1 = k
    BY <1>1
  <2>3. g[k + 1] = Apply(g[k], es[k + 1])
    BY <2>2 DEF Follows
  <2> QED
    BY <2>1, <2>3, ApplyShape
<1>4. Nat \subseteq S
  <2> HIDE DEF S
  <2> QED
    BY <1>2, <1>3, Events!SetInduction
<1>5. \A k \in 0..Len(es) : DOMAIN g[k] = Fields
  BY <1>1, <1>4
<1> DEFINE B == {j \in Nat : j <= Len(es) => ~g[Len(es) - j].refused}
<1>6. 0 \in B
  BY <1>1
<1>7. ASSUME NEW j \in Nat, j \in B
      PROVE  j + 1 \in B
  <2> SUFFICES ASSUME j + 1 <= Len(es)
               PROVE  ~g[Len(es) - (j + 1)].refused
    OBVIOUS
  <2> DEFINE m == Len(es) - j
  <2>1. m \in 1..Len(es) /\ m - 1 = Len(es) - (j + 1) /\ m - 1 \in 0..Len(es)
    BY <1>1
  <2>2. ~g[m].refused
    BY <1>1, <1>7
  <2>3. g[m] = Apply(g[m - 1], es[m])
    BY <2>1 DEF Follows
  <2>4. DOMAIN g[m - 1] = Fields
    BY <1>5, <2>1
  <2> HIDE DEF m
  <2>5. ~g[m - 1].refused
    BY <2>2, <2>3, <2>4, ApplyShape
  <2> QED
    BY <2>1, <2>5
<1>8. Nat \subseteq B
  <2> HIDE DEF B
  <2> QED
    BY <1>6, <1>7, Events!SetInduction
<1>9. ASSUME NEW k \in 0..Len(es)
      PROVE  ~g[k].refused
  <2>1. Len(es) - k \in Nat /\ Len(es) - k <= Len(es) /\ Len(es) - (Len(es) - k) = k
    BY <1>1
  <2>2. Len(es) - k \in B
    BY <1>8, <2>1
  <2> QED
    BY <2>1, <2>2
<1>10. ASSUME NEW k \in 1..Len(es)
       PROVE  g[k] \in Handled(g[k - 1], es[k])
  <2>1. k - 1 \in 0..Len(es) /\ k \in 0..Len(es)
    BY <1>1
  <2>2. g[k] = Apply(g[k - 1], es[k])
    BY DEF Follows
  <2> QED
    BY <1>5, <1>9, <2>1, <2>2, Accepted
<1> QED
  BY <1>5, <1>9, <1>10

\* What activations and ended operations make of servers and operations.
Activates(es, k, i) == \E j \in 1..k : es[j].type = "ServerActivated" /\ es[j].server = i
Finishes(es, k, o) == \E j \in 1..k : es[j].type = "OperationSucceeded" /\ es[j].op = o
Progress(x, es, k, y) ==
  /\ Quiet(x, y) /\ DOMAIN y.site = SiteFields
  /\ DOMAIN y.servers = DOMAIN x.servers /\ Rows(y.servers, ServerFields)
  /\ \A i \in DOMAIN x.servers :
       /\ y.servers[i].op = x.servers[i].op /\ y.servers[i].ready = x.servers[i].ready
       /\ Activates(es, k, i) => y.servers[i].status = "active"
       /\ ~Activates(es, k, i) => y.servers[i].status = x.servers[i].status
  /\ y.ops = {o \in x.ops : ~Finishes(es, k, o)}

LEMMA ProgressNext ==
    ASSUME NEW x, NEW es, NEW k \in Nat, NEW y, Progress(x, es, k, y),
           es[k + 1].type \in {"ServerActivated", "OperationSucceeded"},
           NEW t \in Handled(y, es[k + 1])
    PROVE  Progress(x, es, k + 1, t)
<1> DEFINE e == es[k + 1]
<1>1. DOMAIN y = Fields /\ DOMAIN y.site = SiteFields /\ Quiet(x, y)
  BY DEF Progress, Quiet
<1>2. Quiet(x, t) /\ DOMAIN t.site = SiteFields
  BY <1>1, QuietStep, QuietOn DEF QuietTypes
<1>3. \A j : j \in 1..(k + 1) <=> j \in 1..k \/ j = k + 1
  OBVIOUS
<1>4. CASE e.type = "ServerActivated"
  <2>1. t.servers = ServerActivatedServers(y, e) /\ e.server \in DOMAIN y.servers
        /\ Kept(y, t, {"servers"})
    BY <1>1, <1>4, ServerActivatedEffect DEF ServerActivatedGuard, WithStatus
  <2>2. t.ops = y.ops
    BY <2>1 DEF Kept, Fields
  <2>3. /\ DOMAIN t.servers = DOMAIN y.servers
        /\ \A i \in DOMAIN y.servers : i # e.server => t.servers[i] = y.servers[i]
        /\ t.servers[e.server] = [y.servers[e.server] EXCEPT !.status = "active",
                                                             !.activated = e.at]
    BY <2>1 DEF ServerActivatedServers
  <2>4. DOMAIN y.servers[e.server] = ServerFields
    BY <2>1 DEF Progress, Rows
  <2>5. /\ t.servers[e.server].status = "active"
        /\ t.servers[e.server].op = y.servers[e.server].op
        /\ t.servers[e.server].ready = y.servers[e.server].ready
        /\ DOMAIN t.servers[e.server] = ServerFields
    BY <2>3, <2>4 DEF ServerFields
  <2>6. \A i : Activates(es, k + 1, i) <=> Activates(es, k, i) \/ i = e.server
    BY <1>3, <1>4 DEF Activates
  <2>7. \A o : Finishes(es, k + 1, o) <=> Finishes(es, k, o)
    BY <1>3, <1>4 DEF Finishes
  <2>8. DOMAIN t.servers = DOMAIN x.servers /\ Rows(t.servers, ServerFields)
    BY <2>3, <2>5 DEF Progress, Rows
  <2>9. t.ops = {o \in x.ops : ~Finishes(es, k + 1, o)}
    BY <2>2, <2>7 DEF Progress
  <2> HIDE DEF e
  <2>10. \A i \in DOMAIN x.servers :
           /\ t.servers[i].op = x.servers[i].op /\ t.servers[i].ready = x.servers[i].ready
           /\ Activates(es, k + 1, i) => t.servers[i].status = "active"
           /\ ~Activates(es, k + 1, i) => t.servers[i].status = x.servers[i].status
    <3> SUFFICES ASSUME NEW i \in DOMAIN x.servers
                 PROVE  /\ t.servers[i].op = x.servers[i].op /\ t.servers[i].ready = x.servers[i].ready
                        /\ Activates(es, k + 1, i) => t.servers[i].status = "active"
                        /\ ~Activates(es, k + 1, i) => t.servers[i].status = x.servers[i].status
      OBVIOUS
    <3>1. CASE i = e.server
      BY <2>1, <2>5, <2>6, <3>1 DEF Progress
    <3>2. CASE i # e.server
      BY <2>3, <2>6, <3>2 DEF Progress
    <3> QED
      BY <3>1, <3>2
  <2> QED
    BY <1>2, <2>8, <2>9, <2>10 DEF Progress
<1>5. CASE e.type = "OperationSucceeded"
  <2>1. t.ops = OperationSucceededOps(y, e) /\ Kept(y, t, {"ops"})
    BY <1>1, <1>5, OperationSucceededEffect
  <2>2. t.servers = y.servers
    BY <2>1 DEF Kept, Fields
  <2>3. \A i : Activates(es, k + 1, i) <=> Activates(es, k, i)
    BY <1>3, <1>5 DEF Activates
  <2>4. \A o : Finishes(es, k + 1, o) <=> Finishes(es, k, o) \/ o = e.op
    BY <1>3, <1>5 DEF Finishes
  <2>5. t.ops = {o \in x.ops : ~Finishes(es, k + 1, o)}
    BY <2>1, <2>4 DEF Progress, OperationSucceededOps
  <2> QED
    BY <1>2, <2>2, <2>3, <2>5 DEF Progress
<1> QED
  BY <1>4, <1>5

LEMMA ProgressAll ==
    ASSUME NEW x, DOMAIN x = Fields, DOMAIN x.site = SiteFields, Rows(x.servers, ServerFields),
           NEW es, Listed(es),
           \A k \in 1..Len(es) : es[k].type \in {"ServerActivated", "OperationSucceeded"},
           ~ApplyAll(x, es).refused
    PROVE  Progress(x, es, Len(es), ApplyAll(x, es))
<1>1. Len(es) \in Nat
  BY ListedDomain
<1>2. PICK g : Follows(g, x, es)
  BY ApplyAllFollows
<1>3. \A k \in 1..Len(es) : g[k] \in Handled(g[k - 1], es[k])
  BY <1>2, Unrefused DEF Follows
<1> DEFINE S == {k \in Nat : k <= Len(es) => Progress(x, es, k, g[k])}
<1>4. 0 \in S
  <2>1. g[0] = x
    BY <1>2 DEF Follows
  <2>2. (\A i : ~Activates(es, 0, i)) /\ (\A o : ~Finishes(es, 0, o))
    BY DEF Activates, Finishes
  <2>3. Progress(x, es, 0, x)
    BY <2>2, QuietSelf DEF Progress
  <2> QED
    BY <2>1, <2>3
<1>5. ASSUME NEW k \in Nat, k \in S
      PROVE  k + 1 \in S
  <2> SUFFICES ASSUME k + 1 <= Len(es)
               PROVE  Progress(x, es, k + 1, g[k + 1])
    OBVIOUS
  <2>1. Progress(x, es, k, g[k])
    BY <1>1, <1>5
  <2>2. k + 1 \in 1..Len(es) /\ (k + 1) - 1 = k
    BY <1>1
  <2>3. g[k + 1] \in Handled(g[k], es[k + 1])
    BY <1>3, <2>2
  <2>4. es[k + 1].type \in {"ServerActivated", "OperationSucceeded"}
    BY <2>2
  <2> QED
    BY <2>1, <2>3, <2>4, ProgressNext
<1>6. Nat \subseteq S
  <2> HIDE DEF S
  <2> QED
    BY <1>4, <1>5, Events!SetInduction
<1>7. Len(es) \in S
  BY <1>1, <1>6
<1> QED
  BY <1>1, <1>2, <1>7 DEF Follows
----------------------------------------------------------------------------
(* The end of a stop, and of what new servers wait for                       *)
\* The context when no stop is left to finish.
Ended(c) ==
  [y |-> c.y, T |-> c.T, fired |-> c.fired, over |-> TRUE, cursor |-> c.cursor,
   rules |-> c.rules, down |-> c.down, ops |-> c.ops, roles |-> c.roles, passed |-> c.passed]

LEMMA EndedTracks ==
    ASSUME NEW c, NEW at, NEW w, Bears(c, at, w),
           ~w.st.refused => /\ Marked(w.st) /\ ("cursor" \in DOMAIN w => w.cursor = c.passed)
                            /\ w.st.site.status = "stopping" => w.st.site.op = SiteStop
                            /\ SiteStop \in w.st.ops <=> w.st.site.status = "stopping"
    PROVE  Tracked(Ended(c), at, w)
<1> DEFINE d == At(Ended(c), w.st)
<1>1. Draftlike(w)
  BY DEF Bears
<1>2. CASE w.st.refused
  BY <1>1, <1>2, RefusedTracks DEF Tracked
<1>3. CASE ~w.st.refused
  <2>1. Holds(c, w.st)
    BY <1>3 DEF Bears
  <2>2. /\ d.y = c.y /\ d.T = c.T /\ d.fired = c.fired /\ d.over = TRUE
        /\ d.cursor = c.cursor /\ d.ops = w.st.ops /\ d.passed = c.passed /\ Holds(d, w.st)
    BY <2>1 DEF At, Ended, Holds
  <2> HIDE DEF d
  <2>3. Bears(d, at, w)
    BY <1>3, <2>2 DEF Bears
  <2>4. Stops(d, w)
    BY <1>3, <2>2 DEF Stops, StopEnded
  <2>5. Tracks(d, at, w)
    BY <1>3, <2>2, <2>3, <2>4 DEF Tracks
  <2> QED
    BY <2>5 DEF Tracked, d
<1> QED
  BY <1>2, <1>3

\* Nothing but a site's stop has changed.
Finished(x, t) ==
  /\ Quiet(x, t) /\ t.servers = x.servers /\ t.ops \ {SiteStop} = x.ops \ {SiteStop}
LEMMA FinishStopTracked ==
    ASSUME NEW c, c.T \in Int, c.over = FALSE, NEW at \in Int, NEW w, Tracks(c, at, w),
           "stopOp" \in DOMAIN w, w.st.now = c.T
    PROVE  /\ Tracked(Ended(c), at, FinishStop(w, c.T)) /\ Draftlike(FinishStop(w, c.T))
           /\ ~FinishStop(w, c.T).st.refused =>
                ~w.st.refused /\ Finished(w.st, FinishStop(w, c.T).st)
<1> DEFINE x == w.st
           e == Succeed(w.stopOp, c.T)
           v == Emit(w, <<e>>)
<1>0. Bears(c, at, w) /\ Draftlike(w) /\ DOMAIN x = Fields
  BY DEF Tracks, Bears, Draftlike, Tables
<1>1. e.type = "OperationSucceeded" /\ e.at = c.T /\ e.op = w.stopOp /\ "seq" \notin DOMAIN e
  BY DEF Succeed
<1>2. ASSUME ~x.refused
      PROVE  /\ Marked(x) /\ Stops(c, w) /\ ("cursor" \in DOMAIN w => w.cursor = c.passed)
             /\ Steady(c.T, x) /\ Holds(c, x) /\ DOMAIN x.site = SiteFields
  BY <1>2 DEF Tracks, Bears, Steady, Placed
<1>3. CASE w.stopOp = NoOperation
  <2>1. FinishStop(w, c.T) = w
    BY <1>3 DEF FinishStop
  <2>2. ~x.refused => /\ x.site.status = "stopping" => x.site.op = SiteStop
                      /\ SiteStop \in x.ops <=> x.site.status = "stopping"
    BY <1>2, <1>3, OperationsDiffer DEF Stops, StopEnded, Holds
  <2>3. Tracked(Ended(c), at, w)
    BY <1>0, <1>2, <2>2, EndedTracks
  <2>4. ~x.refused => Finished(x, x)
    BY <1>0, <1>2, QuietSelf DEF Finished
  <2> QED
    BY <1>0, <2>1, <2>3, <2>4
<1>4. CASE w.stopOp # NoOperation
  <2>1. FinishStop(w, c.T) = v
    BY <1>4 DEF FinishStop
  <2> HIDE DEF e
  <2>2. /\ Draftlike(v) /\ v.st = Apply(x, e) /\ DOMAIN v = DOMAIN w
        /\ \A f \in DOMAIN w \ {"st", "out"} : v[f] = w[f]
        /\ ~v.st.refused => ~x.refused /\ v.st \in Handled(x, e)
    BY <1>0, OneEmitted
  <2>3. "cursor" \in DOMAIN w => v["cursor"] = w["cursor"]
    BY <2>2
  <2> HIDE DEF v
  <2>4. CASE v.st.refused
    <3>1. Tracked(Ended(c), at, v)
      BY <2>2, <2>4, RefusedTracks DEF Tracked
    <3> QED
      BY <2>1, <2>2, <2>4, <3>1
  <2>5. CASE ~v.st.refused
    <3> DEFINE t == v.st
               f == At(c, t)
    <3>1. /\ ~x.refused /\ t \in Handled(x, e) /\ t = Apply(x, e)
      BY <2>2, <2>5
    <3>2. /\ Stops(c, w) /\ Marked(x) /\ Steady(c.T, x) /\ Holds(c, x)
          /\ DOMAIN x.site = SiteFields
          /\ "cursor" \in DOMAIN w => w.cursor = c.passed
      BY <1>2, <3>1
    <3>3. w.stopOp = SiteStop /\ x.site.status # "stopping"
      BY <1>4, <3>2 DEF Stops, StopEnded
    <3>4. t.ops = x.ops \ {SiteStop} /\ t.servers = x.servers /\ Kept(x, t, {"ops"})
      BY <1>0, <1>1, <3>1, <3>3, OperationSucceededEffect
         DEF OperationSucceededOps, Kept, Fields
    <3>5. Quiet(x, t)
      BY <1>0, <1>1, <3>1, <3>2, QuietStep DEF QuietTypes
    <3>6. t.site.status # "stopping"
      BY <3>3, <3>5 DEF Quiet, SameSite
    <3>7. SameRun(c, f) /\ Holds(f, t) /\ f.cursor = t.cursor /\ f.T = c.T /\ f.passed = c.passed
          /\ f.y = c.y /\ f.fired = c.fired /\ f.over = c.over
      BY AtFields
    <3>8. Timely(c, at, x, e) /\ Occurs(FirstItems(c.cursor), e) = FirstItems(f.cursor)
      <4>1. t.cursor = c.cursor
        BY <3>2, <3>5 DEF Quiet, Holds
      <4>2. Proper(c.T, x, e)
        BY <1>1 DEF Proper, AlikeTypes, KnownTypes, OperationTypes, CostTypes
      <4> QED
        BY <1>1, <3>7, <4>1, <4>2 DEF Timely, Occurs
    <3> HIDE DEF f
    <3>9. Bears(f, at, v)
      BY <1>0, <3>1, <3>7, <3>8, EmitBearsTo DEF v
    <3>10. KeepsMark(x, e)
      BY <1>1 DEF KeepsMark
    <3>11. Marked(t)
      BY <1>0, <3>1, <3>2, <3>8, <3>10, MarkedStep DEF Timely, Steady
    <3>12. "cursor" \in DOMAIN v => v["cursor"] = f["passed"]
      BY <2>2, <2>3, <3>2, <3>7
    <3>13. Tracked(Ended(f), at, v)
      BY <3>4, <3>6, <3>9, <3>11, <3>12, EndedTracks
    <3>14. At(Ended(f), t) = At(Ended(c), t)
      BY <3>7 DEF At, Ended
    <3>15. Tracked(Ended(c), at, v)
      BY <3>13, <3>14 DEF Tracked
    <3>16. Finished(x, t)
      BY <3>4, <3>5 DEF Finished
    <3> QED
      BY <2>1, <2>2, <3>1, <3>15, <3>16
  <2> QED
    BY <2>4, <2>5
<1> QED
  BY <1>3, <1>4

\* Activations: servers that are ready become active, and their operations end.
Ready(x, T) == {i \in WithStatus(x, "provisioning") : x.servers[i].ready <= T}
Activated(x, T, i) ==
  [type |-> "ServerActivated", op |-> x.servers[i].op, server |-> i, at |-> T]
ActivationList(x, T, ready) ==
  [k \in DOMAIN ready |-> Activated(x, T, ready[k])]
  \o [k \in DOMAIN ready |-> Succeed(x.servers[ready[k]].op, T)]
LEMMA ActivationsIs ==
    ASSUME NEW w, NEW T
    PROVE  Activations(w, T) = Emit(w, ActivationList(w.st, T, Ascending(Ready(w.st, T))))
BY DEF Activations, ActivationList, Activated, Ready

LEMMA ActivationListed ==
    ASSUME NEW x, NEW T, NEW ready, NEW n \in Nat, DOMAIN ready = 1..n
    PROVE  /\ Listed(ActivationList(x, T, ready)) /\ Len(ActivationList(x, T, ready)) = n + n
           /\ \A k \in 1..n :
                /\ ActivationList(x, T, ready)[k] = Activated(x, T, ready[k])
                /\ ActivationList(x, T, ready)[n + k] = Succeed(x.servers[ready[k]].op, T)
           /\ \A k \in 1..(n + n) : k \in 1..n \/ \E j \in 1..n : k = n + j
<1> DEFINE p == [k \in DOMAIN ready |-> Activated(x, T, ready[k])]
           q == [k \in DOMAIN ready |-> Succeed(x.servers[ready[k]].op, T)]
<1>1. /\ DOMAIN p = 1..n /\ p = [k \in DOMAIN p |-> p[k]]
      /\ DOMAIN q = 1..n /\ q = [k \in DOMAIN q |-> q[k]]
      /\ \A k \in 1..n : p[k] = Activated(x, T, ready[k])
                         /\ q[k] = Succeed(x.servers[ready[k]].op, T)
  OBVIOUS
<1>2. ActivationList(x, T, ready) = p \o q
  BY DEF ActivationList
<1> HIDE DEF p, q
<1>3. Listed(p) /\ Len(p) = n /\ Listed(q) /\ Len(q) = n
  BY <1>1, ListedFunction
<1>4. /\ Listed(p \o q) /\ Len(p \o q) = n + n
      /\ \A i \in 1..n : (p \o q)[i] = p[i]
      /\ \A i \in 1..n : (p \o q)[n + i] = q[i]
  BY <1>3, ListedAppend
<1>5. ASSUME NEW k \in 1..(n + n), k \notin 1..n
      PROVE  \E j \in 1..n : k = n + j
  <2>1. k - n \in 1..n /\ k = n + (k - n)
    BY <1>5
  <2> QED
    BY <2>1
<1> QED
  BY <1>1, <1>2, <1>4, <1>5

\* What is left is what still waits.
Prepared(x, T, t) ==
  /\ Quiet(x, t) /\ Owes(t)
  /\ \A i \in WithStatus(t, "provisioning") : t.servers[i].ready > T
LEMMA ActivationsTracked ==
    ASSUME NEW c, c.T \in Int, NEW at \in Int, NEW w, Tracked(c, at, w), w.st.now = c.T,
           ~w.st.refused => Owes(w.st)
    PROVE  /\ Tracked(c, at, Activations(w, c.T)) /\ Draftlike(Activations(w, c.T))
           /\ ~Activations(w, c.T).st.refused =>
                ~w.st.refused /\ Prepared(w.st, c.T, Activations(w, c.T).st)
<1> DEFINE T == c.T
           x == w.st
           R == Ready(x, T)
           ready == Ascending(R)
           es == ActivationList(x, T, ready)
           v == Emit(w, es)
<1>0. Activations(w, T) = v
  BY ActivationsIs
<1>1. Draftlike(w) /\ Tables(x) /\ DOMAIN x = Fields
  BY DEF Tracked, Tracks, Bears, Draftlike, Tables
<1>2. IsFiniteSet(R) /\ R \subseteq DOMAIN x.servers
  <2>1. IsFiniteSet(DOMAIN x["servers"]) /\ R \subseteq DOMAIN x.servers
    BY <1>1 DEF Tables, Ready, WithStatus
  <2> QED
    BY <2>1, FS_Subset
<1> DEFINE n == Cardinality(R)
<1>3. n \in Nat /\ DOMAIN ready = 1..n
  BY <1>2, FS_CardinalityType DEF Ascending, Sorted
<1> HIDE DEF R, n, ready
<1>4. /\ Listed(es) /\ Len(es) = n + n
      /\ \A k \in 1..n : es[k] = Activated(x, T, ready[k])
                         /\ es[n + k] = Succeed(x.servers[ready[k]].op, T)
      /\ \A k \in 1..(n + n) : k \in 1..n \/ \E j \in 1..n : k = n + j
  <2> HIDE DEF x, T
  <2> QED
    BY <1>3, ActivationListed
<1> HIDE DEF es
<1>5. Draftlike(v) /\ v.st = ApplyAll(x, es) /\ (x.refused => v.st.refused)
  BY <1>1, <1>4, EmitFields
<1>6. CASE x.refused
  <2>1. Tracked(c, at, v)
    BY <1>5, <1>6, RefusedTracks DEF Tracked
  <2> QED
    BY <1>0, <1>5, <1>6, <2>1
<1>7. CASE ~x.refused
  <2>1. Owes(x) /\ Steady(T, x)
    <3>1. At(c, x).T = T
      BY AtFields
    <3> QED
      BY <1>7, <3>1 DEF Tracked, Tracks, Bears
  <2>2. R \subseteq Int
    <3>1. DOMAIN x.servers \subseteq Servers /\ Servers \subseteq Int
      BY <2>1, ServersAssumption DEF Steady, Placed
    <3> QED
      BY <1>2, <3>1
  <2>3. /\ \A k \in 1..n : ready[k] \in R
        /\ \A i \in R : \E k \in 1..n : ready[k] = i
    <3>1. Enumerates(ready, R)
      BY <1>2, <2>2, AscendingMembers DEF ready
    <3>2. Len(ready) = n
      BY <3>1 DEF Enumerates, n
    <3> QED
      <4>1. \A i \in R : \E k \in 1..Len(ready) : ready[k] = i
        BY <1>2, <3>1, EnumeratesAll
      <4>2. \A k \in 1..Len(ready) : ready[k] \in R
        BY <3>1 DEF Enumerates
      <4> QED
        BY <3>2, <4>1, <4>2
  <2>4. \A i \in R : x.servers[i].status = "provisioning" /\ x.servers[i].op = Create(i)
    BY <2>1 DEF R, Ready, WithStatus, Owes, Assigned
  <2>5. \A i : /\ Activated(x, T, i).type = "ServerActivated" /\ Activated(x, T, i).server = i
               /\ Activated(x, T, i).at = T /\ "seq" \notin DOMAIN Activated(x, T, i)
    BY DEF Activated
  <2>6. \A o : /\ Succeed(o, T).type = "OperationSucceeded" /\ Succeed(o, T).op = o
               /\ Succeed(o, T).at = T /\ "seq" \notin DOMAIN Succeed(o, T)
    BY DEF Succeed
  <2>7. /\ \A k \in 1..n : es[k] = Activated(x, T, ready[k])
                           /\ es[n + k] = Succeed(Create(ready[k]), T)
    BY <1>4, <2>3, <2>4
  <2>8. \A k \in 1..Len(es) : Plain(T, es[k])
    <3>1. ASSUME NEW k \in 1..n
          PROVE  Plain(T, es[k])
      BY <2>5, <2>7 DEF Plain, Routine, ScheduleTypes, OperationTypes
    <3>2. ASSUME NEW k \in 1..n
          PROVE  Plain(T, es[n + k])
      <4>1. Create(ready[k]) # SiteStop
        BY OperationsDiffer
      <4> QED
        BY <2>6, <2>7, <4>1 DEF Plain, Routine, ScheduleTypes
    <3> QED
      BY <1>4, <3>1, <3>2
  <2>9. Tracked(c, at, v)
    BY <1>4, <2>8, EmitAllTracked
  <2>10. ASSUME ~v.st.refused
         PROVE  Prepared(x, T, v.st)
    <3> DEFINE t == v.st
    <3>1. Progress(x, es, Len(es), t)
      <4>1. \A k \in 1..Len(es) : es[k].type \in {"ServerActivated", "OperationSucceeded"}
        BY <2>8 DEF Plain
      <4> QED
        BY <1>1, <1>4, <1>5, <2>1, <2>10, <4>1, ProgressAll DEF Steady, Placed, Tables
    <3>2. \A i : Activates(es, Len(es), i) <=> i \in R
      <4>1. ASSUME NEW i, Activates(es, Len(es), i)
            PROVE  i \in R
        <5>1. PICK k \in 1..(n + n) : es[k].type = "ServerActivated" /\ es[k].server = i
          BY <1>4, <4>1 DEF Activates
        <5>2. k \in 1..n
          BY <1>4, <2>6, <2>7, <5>1
        <5> QED
          BY <2>3, <2>5, <2>7, <5>1, <5>2
      <4>2. ASSUME NEW i \in R
            PROVE  Activates(es, Len(es), i)
        <5>1. PICK k \in 1..n : ready[k] = i
          BY <2>3
        <5>2. k \in 1..Len(es)
          BY <1>3, <1>4
        <5> QED
          BY <2>5, <2>7, <5>1, <5>2 DEF Activates
      <4> QED
        BY <4>1, <4>2
    <3>3. \A o : Finishes(es, Len(es), o) <=> \E i \in R : o = Create(i)
      <4>1. ASSUME NEW o, Finishes(es, Len(es), o)
            PROVE  \E i \in R : o = Create(i)
        <5>1. PICK k \in 1..(n + n) : es[k].type = "OperationSucceeded" /\ es[k].op = o
          BY <1>4, <4>1 DEF Finishes
        <5>2. k \notin 1..n
          BY <2>5, <2>7, <5>1
        <5>3. PICK j \in 1..n : k = n + j
          BY <1>4, <5>2
        <5> QED
          BY <2>3, <2>6, <2>7, <5>1, <5>3
      <4>2. ASSUME NEW i \in R
            PROVE  Finishes(es, Len(es), Create(i))
        <5>1. PICK k \in 1..n : ready[k] = i
          BY <2>3
        <5>2. n + k \in 1..Len(es)
          BY <1>3, <1>4
        <5> QED
          BY <2>6, <2>7, <5>1, <5>2 DEF Finishes
      <4> QED
        BY <4>1, <4>2
    <3> HIDE DEF t
    <3>4. /\ DOMAIN t.servers = DOMAIN x.servers
          /\ \A i \in DOMAIN x.servers :
               /\ t.servers[i].op = x.servers[i].op /\ t.servers[i].ready = x.servers[i].ready
               /\ t.servers[i].status = IF i \in R THEN "active" ELSE x.servers[i].status
      BY <3>1, <3>2 DEF Progress
    <3>5. t.ops = {o \in x.ops : ~\E i \in R : o = Create(i)}
      BY <3>1, <3>3 DEF Progress
    <3>6. /\ WithStatus(t, "provisioning") = WithStatus(x, "provisioning") \ R
          /\ WithStatus(t, "draining") = WithStatus(x, "draining")
      BY <2>4, <3>4 DEF WithStatus
    <3>7. Busy(t) = Busy(x) \ {Create(i) : i \in R}
      BY <3>6, OperationsDiffer DEF Busy
    <3>8. t.ops \ {SiteStop} = Busy(t)
      BY <2>1, <3>5, <3>7 DEF Owes
    <3>9. Assigned(t)
      BY <2>1, <3>4 DEF Owes, Assigned
    <3>10. \A i \in WithStatus(t, "provisioning") : t.servers[i].ready > T
      <4> SUFFICES ASSUME NEW i \in WithStatus(t, "provisioning")
                   PROVE  t.servers[i].ready > T
        OBVIOUS
      <4>1. i \in DOMAIN x.servers /\ i \in WithStatus(x, "provisioning") /\ i \notin R
        BY <3>6 DEF WithStatus
      <4>2. t.servers[i].ready = x.servers[i].ready /\ ~(x.servers[i].ready <= T)
        BY <3>4, <4>1 DEF R, Ready
      <4>3. x.servers[i].ready \in Int
        BY <2>1, <4>1 DEF Owes, Assigned, WithStatus
      <4> QED
        BY <4>2, <4>3
    <3>11. Quiet(x, t)
      BY <3>1 DEF Progress
    <3> QED
      BY <3>8, <3>9, <3>10, <3>11 DEF Prepared, Owes, t
  <2> QED
    BY <1>0, <1>5, <1>7, <2>9, <2>10
<1> QED
  BY <1>6, <1>7
----------------------------------------------------------------------------
(* Removals: drained servers leave                                          *)
DeletedFirst(i, t) == [type |-> "DatabaseDeleted", db |-> i, at |-> t]
Removed(x, i, t) ==
  [type |-> "ServerRemoved", op |-> x.servers[i].op, server |-> i, at |-> t]
LEMMA EmptyFirst ==
    ASSUME NEW b
    PROVE  <<>> \o <<b>> = <<b>>
<1> DEFINE q == <<b>>
<1>1. q \in Seq({b}) /\ <<>> \in Seq({b})
  OBVIOUS
<1> HIDE DEF q
<1> QED
  BY <1>1, ConcatEmptySeq DEF q
LEMMA LeaveIs ==
    ASSUME NEW x, NEW i, NEW t
    PROVE  Leave(x, i, t) = IF i \in DOMAIN x.dbs THEN <<DeletedFirst(i, t), Removed(x, i, t)>>
                            ELSE <<Removed(x, i, t)>>
<1> DEFINE a == DeletedFirst(i, t)
           b == Removed(x, i, t)
<1>1. Leave(x, i, t) = (IF i \in DOMAIN x.dbs THEN <<a>> ELSE <<>>) \o <<b>>
  BY DEF Leave, DeletedFirst, Removed
<1> HIDE DEF a, b
<1>2. <<a>> \o <<b>> = <<a, b>>
  BY LiteralConcat
<1>0. <<>> \o <<b>> = <<b>>
  BY EmptyFirst
<1>3. CASE i \in DOMAIN x.dbs
  BY <1>1, <1>2, <1>3 DEF a, b
<1>4. CASE i \notin DOMAIN x.dbs
  BY <1>0, <1>1, <1>4 DEF a, b
<1> QED
  BY <1>3, <1>4

\* t is x without the servers of S.
Gone(x, S, t) ==
  /\ Quiet(x, t) /\ DOMAIN t.site = SiteFields
  /\ DOMAIN t.servers = DOMAIN x.servers \ S
  /\ \A i \in DOMAIN t.servers : t.servers[i] = x.servers[i]
  /\ t.ops = x.ops
LEMMA GoneOn ==
    ASSUME NEW x, NEW S, NEW y, Gone(x, S, y), NEW U, NEW t, Gone(y, U, t)
    PROVE  Gone(x, S \cup U, t)
<1>1. Quiet(x, t)
  BY QuietOn DEF Gone
<1> QED
  BY <1>1 DEF Gone

LEMMA LeavingTracked ==
    ASSUME NEW c, c.T \in Int, NEW at \in Int, NEW w, Tracked(c, at, w), w.st.now = c.T, NEW e,
           e.type \in {"DatabaseDeleted", "ServerRemoved"}, e.at = c.T, "seq" \notin DOMAIN e,
           e.type = "ServerRemoved" /\ ~w.st.refused => e.server \notin DOMAIN w.st.dbs,
           NEW S, e.type = "ServerRemoved" => S = {e.server}, e.type = "DatabaseDeleted" => S = {}
    PROVE  /\ Tracked(c, at, Emit(w, <<e>>)) /\ Draftlike(Emit(w, <<e>>))
           /\ Emit(w, <<e>>).st.now = c.T
           /\ Emit(w, <<e>>).st = Apply(w.st, e)
           /\ w.st.refused => Emit(w, <<e>>).st.refused
           /\ ~Emit(w, <<e>>).st.refused =>
                /\ ~w.st.refused
                /\ Gone(w.st, S, Emit(w, <<e>>).st)
                /\ e.type = "DatabaseDeleted" =>
                     DOMAIN Emit(w, <<e>>).st.dbs = DOMAIN w.st.dbs \ {e.db}
<1> DEFINE x == w.st
           v == Emit(w, <<e>>)
<1>1. Draftlike(w) /\ DOMAIN x = Fields
  BY DEF Tracked, Tracks, Bears, Draftlike, Tables
<1>2. /\ Draftlike(v) /\ v.st = Apply(x, e) /\ v.st.now = x.now
      /\ (x.refused => v.st.refused)
      /\ ~v.st.refused => ~x.refused /\ v.st \in Handled(x, e)
  BY <1>1, OneEmitted
<1>3. ~Apply(x, e).refused => Timely(c, at, x, e) /\ Still(x, e) /\ Routine(e)
  BY <1>2 DEF Timely, Still, KeepsMark, Routine, Proper, AlikeTypes, KnownTypes, CostTypes,
     ServerTypes, DatabaseTypes, OperationTypes, ScheduleTypes
<1>4. Tracked(c, at, v)
  BY <1>3, EmitTracked
<1> HIDE DEF v
<1>5. ASSUME ~v.st.refused
      PROVE  /\ ~x.refused
             /\ Gone(x, S, v.st)
             /\ e.type = "DatabaseDeleted" => DOMAIN v.st.dbs = DOMAIN x.dbs \ {e.db}
  <2>1. ~x.refused /\ v.st \in Handled(x, e)
    BY <1>2, <1>5
  <2>2. Rows(x.dbs, DatabaseFields) /\ DOMAIN x.site = SiteFields
    BY <2>1 DEF Tracked, Tracks, Bears, Steady, Placed
  <2>3. Quiet(x, v.st) /\ DOMAIN v.st.site = SiteFields
    BY <1>1, <2>1, <2>2, QuietStep DEF QuietTypes
  <2>4. v.st.ops = x.ops
    BY <1>1, <2>1, ChangedBy
  <2>5. CASE e.type = "ServerRemoved"
    <3>1. v.st.servers = ServerRemovedServers(x, e)
      BY <1>1, <2>1, <2>5, ServerRemovedEffect
    <3>2. v.st.servers = Drop(x.servers, {e.server})
      BY <3>1 DEF ServerRemovedServers
    <3>3. /\ DOMAIN Drop(x.servers, {e.server}) = DOMAIN x.servers \ {e.server}
          /\ \A i \in DOMAIN x.servers \ {e.server} : Drop(x.servers, {e.server})[i] = x.servers[i]
      BY DropDomain
    <3>4. /\ DOMAIN v.st.servers = DOMAIN x.servers \ {e.server}
          /\ \A i \in DOMAIN v.st.servers : v.st.servers[i] = x.servers[i]
      BY <3>2, <3>3
    <3> QED
      BY <2>1, <2>3, <2>4, <2>5, <3>4 DEF Gone
  <2>6. CASE e.type = "DatabaseDeleted"
    <3>1. v.st.servers = x.servers
      BY <1>1, <2>1, <2>6, ChangedBy
    <3>2. DOMAIN v.st.dbs = DOMAIN x.dbs \ {e.db}
      BY <1>1, <2>1, <2>2, <2>6, DatabasesStep DEF DatabasesChange
    <3> QED
      BY <2>1, <2>3, <2>4, <2>6, <3>1, <3>2 DEF Gone
  <2> QED
    BY <2>5, <2>6
<1> QED
  BY <1>2, <1>4, <1>5 DEF v

LEMMA LeaveTracked ==
    ASSUME NEW c, c.T \in Int, NEW at \in Int, NEW w, Tracked(c, at, w), w.st.now = c.T, NEW i
    PROVE  LET v == Emit(w, Leave(w.st, i, c.T)) IN
           /\ Tracked(c, at, v) /\ Draftlike(v) /\ v.st.now = c.T /\ Moves(w, v)
           /\ w.st.refused => v.st.refused
           /\ ~v.st.refused => ~w.st.refused /\ Gone(w.st, {i}, v.st)
<1> DEFINE T == c.T
           a == DeletedFirst(i, T)
           b == Removed(w.st, i, T)
           u == Emit(w, <<a>>)
<1>1. Draftlike(w)
  BY DEF Tracked, Tracks, Bears
<1>2. /\ a.type = "DatabaseDeleted" /\ a.db = i /\ a.at = T /\ "seq" \notin DOMAIN a
      /\ b.type = "ServerRemoved" /\ b.server = i /\ b.at = T /\ "seq" \notin DOMAIN b
  BY DEF DeletedFirst, Removed
<1>3. Leave(w.st, i, T) = IF i \in DOMAIN w.st.dbs THEN <<a, b>> ELSE <<b>>
  BY LeaveIs
<1> HIDE DEF a, b
<1>6. Moves(w, Emit(w, Leave(w.st, i, T)))
  <2>1. a.type # "TimeAdvanced" /\ b.type # "TimeAdvanced"
    BY <1>2
  <2>2. Timeless(<<b>>) /\ Timeless(<<a, b>>)
    BY <2>1, TimelessLiterals
  <2> DEFINE es == Leave(w.st, i, T)
  <2>3. Timeless(es)
    BY <1>3, <2>2
  <2> HIDE DEF es
  <2>4. Moves(w, Emit(w, es))
    BY <2>3, EmitMoves DEF Timeless
  <2> QED
    BY <2>4 DEF es
<1>4. CASE i \notin DOMAIN w.st.dbs
  <2> DEFINE v == Emit(w, <<b>>)
  <2>1. Emit(w, Leave(w.st, i, T)) = v
    BY <1>3, <1>4
  <2>2. /\ b.type \in {"DatabaseDeleted", "ServerRemoved"} /\ b.at = c.T /\ "seq" \notin DOMAIN b
        /\ b.type = "ServerRemoved" /\ ~w.st.refused => b.server \notin DOMAIN w.st.dbs
        /\ (b.type = "ServerRemoved" => {i} = {b.server}) /\ (b.type = "DatabaseDeleted" => {i} = {})
    BY <1>2, <1>4
  <2>3. /\ Tracked(c, at, v) /\ Draftlike(v) /\ v.st.now = c.T /\ (w.st.refused => v.st.refused)
        /\ ~v.st.refused => ~w.st.refused /\ Gone(w.st, {i}, v.st)
    BY <2>2, LeavingTracked
  <2> HIDE DEF v
  <2>4. ~v.st.refused => ~w.st.refused /\ Gone(w.st, {i}, v.st)
    BY <2>2, <2>3
  <2> QED
    BY <1>6, <2>1, <2>3, <2>4
<1>5. CASE i \in DOMAIN w.st.dbs
  <2> DEFINE v == Emit(u, <<b>>)
  <2>1. Emit(w, Leave(w.st, i, T)) = v
    BY <1>1, <1>3, <1>5, EmitTwo
  <2>2. /\ Tracked(c, at, u) /\ Draftlike(u) /\ u.st.now = c.T /\ (w.st.refused => u.st.refused)
        /\ ~u.st.refused => /\ ~w.st.refused /\ Gone(w.st, {}, u.st)
                            /\ DOMAIN u.st.dbs = DOMAIN w.st.dbs \ {i}
    <3>1. /\ a.type \in {"DatabaseDeleted", "ServerRemoved"} /\ a.at = c.T
          /\ "seq" \notin DOMAIN a
          /\ (a.type = "ServerRemoved" => {} = {a.server}) /\ (a.type = "DatabaseDeleted" => {} = {})
          /\ a.type = "ServerRemoved" /\ ~w.st.refused => a.server \notin DOMAIN w.st.dbs
      BY <1>2
    <3>2. /\ Tracked(c, at, u) /\ Draftlike(u) /\ u.st.now = c.T
          /\ (w.st.refused => u.st.refused)
          /\ ~u.st.refused => /\ ~w.st.refused
                              /\ Gone(w.st, {}, u.st)
                              /\ a.type = "DatabaseDeleted" =>
                                   DOMAIN u.st.dbs = DOMAIN w.st.dbs \ {a.db}
      BY <1>2, <3>1, LeavingTracked
    <3> HIDE DEF u
    <3> QED
      BY <1>2, <3>1, <3>2
  <2> HIDE DEF u
  <2>3. /\ Tracked(c, at, v) /\ Draftlike(v) /\ v.st.now = c.T /\ (u.st.refused => v.st.refused)
        /\ ~v.st.refused => ~u.st.refused /\ Gone(u.st, {i}, v.st)
    <3>1. /\ b.type \in {"DatabaseDeleted", "ServerRemoved"} /\ b.at = c.T
          /\ (b.type = "ServerRemoved" => {i} = {b.server}) /\ (b.type = "DatabaseDeleted" => {i} = {})
          /\ b.type = "ServerRemoved" /\ ~u.st.refused => b.server \notin DOMAIN u.st.dbs
      BY <1>2, <2>2
    <3>2. /\ Tracked(c, at, v) /\ Draftlike(v) /\ v.st.now = c.T
          /\ (u.st.refused => v.st.refused)
          /\ ~v.st.refused => /\ ~u.st.refused
                              /\ Gone(u.st, {i}, v.st)
      BY <1>2, <2>2, <3>1, LeavingTracked
    <3> HIDE DEF v
    <3> QED
      BY <3>1, <3>2
  <2> HIDE DEF v
  <2>4. ~v.st.refused => ~w.st.refused /\ Gone(w.st, {i}, v.st)
    <3>1. {} \cup {i} = {i}
      OBVIOUS
    <3> QED
      BY <2>2, <2>3, <3>1, GoneOn
  <2> QED
    BY <1>6, <2>1, <2>2, <2>3, <2>4
<1> QED
  BY <1>4, <1>5

\* One server after the other.
LeaveIn(d, x, i) == Emit(x, Leave(x.st, i, d.T))
LeftTo(d, k, x) ==
  /\ Tracked(d.c, d.at, x) /\ Draftlike(x) /\ x.st.now = d.T /\ Moves(d.w, x)
  /\ d.w.st.refused => x.st.refused
  /\ ~x.st.refused => Gone(d.w.st, {d.idle[j] : j \in 1..k}, x.st)
Leaves == INSTANCE FoldSteps WITH Op <- LeaveIn, Inv <- LeftTo, Weight <- LoadIn
AllLeave(w, idle, t) == FoldLeft(LAMBDA y, i : Emit(y, Leave(y.st, i, t)), w, idle)
LEMMA LeavesFold ==
    ASSUME NEW d, NEW w, NEW idle
    PROVE  Leaves!Folded(d, w, idle) = AllLeave(w, idle, d.T)
  BY DEF AllLeave, Leaves!Folded, FoldLeft, MapThenFoldSet,
         Leaves!MapThenFoldSet, Max, Leaves!Max, LeaveIn

LEMMA FoldLeaves ==
    ASSUME NEW c, c.T \in Int, NEW at \in Int, NEW w, Tracked(c, at, w), w.st.now = c.T,
           NEW idle, NEW n \in Nat, DOMAIN idle = 1..n
    PROVE  LET v == AllLeave(w, idle, c.T) IN
           /\ Tracked(c, at, v) /\ Draftlike(v) /\ v.st.now = c.T /\ Moves(w, v)
           /\ w.st.refused => v.st.refused
           /\ ~v.st.refused => Gone(w.st, {idle[j] : j \in 1..n}, v.st)
<1> DEFINE d == [c |-> c, T |-> c.T, at |-> at, w |-> w, idle |-> idle]
<1>1. d.c = c /\ d.T = c.T /\ d.at = at /\ d.w = w /\ d.idle = idle
  OBVIOUS
<1> HIDE DEF d
<1>2. LeftTo(d, 0, w)
  <2>1. Draftlike(w)
    BY DEF Tracked, Tracks, Bears
  <2>2. ~w.st.refused => Gone(w.st, {idle[j] : j \in 1..0}, w.st)
    <3> SUFFICES ASSUME ~w.st.refused
                 PROVE  Gone(w.st, {idle[j] : j \in 1..0}, w.st)
      OBVIOUS
    <3>1. DOMAIN w.st = Fields /\ DOMAIN w.st.site = SiteFields
      BY DEF Tracked, Tracks, Bears, Steady, Tables, Placed
    <3>2. {idle[j] : j \in 1..0} = {}
      OBVIOUS
    <3> QED
      BY <3>1, <3>2, QuietSelf DEF Gone
  <2> QED
    BY <1>1, <2>1, <2>2, LeadsStill DEF LeftTo
<1>3. ASSUME NEW k \in 0..(n - 1), NEW x, LeftTo(d, k, x)
      PROVE  LeftTo(d, k + 1, LeaveIn(d, x, idle[k + 1]))
  <2> DEFINE i == idle[k + 1]
             v == Emit(x, Leave(x.st, i, c.T))
  <2>1. /\ Tracked(c, at, x) /\ Draftlike(x) /\ x.st.now = c.T /\ Moves(w, x)
        /\ w.st.refused => x.st.refused
        /\ ~x.st.refused => Gone(w.st, {idle[j] : j \in 1..k}, x.st)
    BY <1>1, <1>3 DEF LeftTo
  <2>2. /\ Tracked(c, at, v) /\ Draftlike(v) /\ v.st.now = c.T /\ Moves(x, v)
        /\ x.st.refused => v.st.refused
        /\ ~v.st.refused => ~x.st.refused /\ Gone(x.st, {i}, v.st)
    BY <2>1, LeaveTracked
  <2>3. {idle[j] : j \in 1..k} \cup {i} = {idle[j] : j \in 1..(k + 1)}
    <3>1. \A j : j \in 1..(k + 1) <=> j \in 1..k \/ j = k + 1
      OBVIOUS
    <3> QED
      BY <3>1
  <2>4. LeaveIn(d, x, i) = v
    BY <1>1 DEF LeaveIn
  <2> HIDE DEF v, i
  <2> DEFINE S == {idle[j] : j \in 1..k}
             Z == {idle[j] : j \in 1..(k + 1)}
             U == {i}
  <2> HIDE DEF S, Z, U
  <2>7. S \cup U = Z
    BY <2>3 DEF S, Z, U
  <2>8. ~v.st.refused => Gone(w.st, S, x.st) /\ Gone(x.st, U, v.st)
    BY <2>1, <2>2 DEF S, U
  <2>9. ~v.st.refused => Gone(w.st, Z, v.st)
    BY <2>7, <2>8, GoneOn
  <2>5. ~v.st.refused => Gone(w.st, {idle[j] : j \in 1..(k + 1)}, v.st)
    BY <2>9 DEF Z
  <2>10. Moves(w, v)
    BY <2>1, <2>2, MovesOn
  <2>6. LeftTo(d, k + 1, v)
    BY <1>1, <2>1, <2>2, <2>5, <2>10 DEF LeftTo
  <2> QED
    BY <2>4, <2>6 DEF i
<1>4. LeftTo(d, n, Leaves!Folded(d, w, idle))
  BY <1>2, <1>3, Leaves!FoldKeeps
<1> DEFINE v == AllLeave(w, idle, c.T)
<1>5. Leaves!Folded(d, w, idle) = v
  BY <1>1, LeavesFold
<1> HIDE DEF v
<1>6. LeftTo(d, n, v)
  BY <1>4, <1>5
<1> QED
  BY <1>1, <1>6 DEF LeftTo, v

\* What is left: servers that still wait, and servers that still have load.
Waits(x, T) ==
  /\ Owes(x)
  /\ \A i \in WithStatus(x, "provisioning") : x.servers[i].ready > T
Cleared(x, T, t) ==
  /\ Quiet(x, t) /\ Waits(t, T)
  /\ \A i \in WithStatus(t, "draining") : HasLoad(t, i, T)
Idle(x, T) == {i \in WithStatus(x, "draining") : ~HasLoad(x, i, T)}
Departures(x, idle, T) == [k \in DOMAIN idle |-> Succeed(x.servers[idle[k]].op, T)]
LEMMA RemovalsIs ==
    ASSUME NEW w, NEW T
    PROVE  Removals(w, T) = Emit(AllLeave(w, Ascending(Idle(w.st, T)), T),
                                 Departures(w.st, Ascending(Idle(w.st, T)), T))
  BY DEF Removals, AllLeave, Departures, Idle
LEMMA RemovalsTracked ==
    ASSUME NEW c, c.T \in Int, NEW at \in Int, NEW w, Tracked(c, at, w), w.st.now = c.T,
           ~w.st.refused => Waits(w.st, c.T)
    PROVE  /\ Tracked(c, at, Removals(w, c.T)) /\ Draftlike(Removals(w, c.T))
           /\ Removals(w, c.T).st.now = c.T /\ Moves(w, Removals(w, c.T))
           /\ ~Removals(w, c.T).st.refused =>
                ~w.st.refused /\ Cleared(w.st, c.T, Removals(w, c.T).st)
<1> DEFINE T == c.T
           x == w.st
           R == Idle(x, T)
           idle == Ascending(R)
           u == AllLeave(w, idle, T)
           es == Departures(x, idle, T)
           v == Emit(u, es)
<1>0. Removals(w, T) = v
  BY RemovalsIs
<1>1. Draftlike(w) /\ Tables(x) /\ DOMAIN x = Fields
  BY DEF Tracked, Tracks, Bears, Draftlike, Tables
<1>2. IsFiniteSet(R) /\ R \subseteq DOMAIN x.servers
  <2>1. IsFiniteSet(DOMAIN x["servers"]) /\ R \subseteq DOMAIN x.servers
    BY <1>1 DEF Tables, Idle, WithStatus
  <2> QED
    BY <2>1, FS_Subset
<1> DEFINE n == Cardinality(R)
<1>3. n \in Nat /\ DOMAIN idle = 1..n
  BY <1>2, FS_CardinalityType DEF Ascending, Sorted
<1> HIDE DEF R, n, idle
<1>4. /\ Listed(es) /\ Len(es) = n
      /\ \A k \in 1..n : es[k] = Succeed(x.servers[idle[k]].op, T)
  <2>1. es = [k \in 1..n |-> Succeed(x.servers[idle[k]].op, T)]
    BY <1>3 DEF Departures
  <2> HIDE DEF es, x, T
  <2>2. DOMAIN es = 1..n /\ \A k \in 1..n : es[k] = Succeed(x.servers[idle[k]].op, T)
    BY <2>1
  <2>3. es = [k \in DOMAIN es |-> es[k]]
    BY <2>1, <2>2
  <2>4. Listed(es) /\ Len(es) = n
    BY <1>3, <2>2, <2>3, ListedFunction
  <2> QED
    BY <2>2, <2>4
<1>5. /\ Tracked(c, at, u) /\ Draftlike(u) /\ u.st.now = T /\ Moves(w, u)
      /\ x.refused => u.st.refused
      /\ ~u.st.refused => Gone(x, {idle[j] : j \in 1..n}, u.st)
  BY <1>3, FoldLeaves
<1> HIDE DEF es, u
<1>6. Draftlike(v) /\ v.st = ApplyAll(u.st, es) /\ (u.st.refused => v.st.refused)
      /\ v.st.now = u.st.now /\ Moves(w, v)
  <2>1. \A o : Succeed(o, T).type # "TimeAdvanced"
    BY DEF Succeed
  <2>2. \A k \in 1..Len(es) : es[k].type # "TimeAdvanced"
    BY <1>4, <2>1
  <2>5. Moves(u, v)
    BY <1>4, <2>2, EmitMoves
  <2>6. Moves(w, v)
    BY <1>5, <2>5, MovesOn
  <2>3. DOMAIN u.st = Fields
    BY <1>5 DEF Draftlike, Tables
  <2>4. ApplyAll(u.st, es).now = u.st.now
    BY <1>4, <2>2, <2>3, ShapeKept
  <2> QED
    BY <1>4, <1>5, <2>4, <2>6, EmitFields
<1>7. CASE u.st.refused
  <2>1. Tracked(c, at, v)
    BY <1>6, <1>7, RefusedTracks DEF Tracked
  <2> QED
    BY <1>0, <1>5, <1>6, <1>7, <2>1
<1>8. CASE ~u.st.refused
  <2>1. ~x.refused /\ Waits(x, T) /\ Owes(x) /\ Steady(T, x)
    <3>1. At(c, x).T = T
      BY AtFields
    <3> QED
      BY <1>5, <1>8, <3>1 DEF Tracked, Tracks, Bears, Waits
  <2>2. R \subseteq Int
    <3>1. DOMAIN x.servers \subseteq Servers /\ Servers \subseteq Int
      BY <2>1, ServersAssumption DEF Steady, Placed
    <3> QED
      BY <1>2, <3>1
  <2>3. /\ \A k \in 1..n : idle[k] \in R
        /\ \A i \in R : \E k \in 1..n : idle[k] = i
    <3>1. Enumerates(idle, R)
      BY <1>2, <2>2, AscendingMembers DEF idle
    <3>2. Len(idle) = n
      BY <3>1 DEF Enumerates, n
    <3> QED
      <4>1. \A i \in R : \E k \in 1..Len(idle) : idle[k] = i
        BY <1>2, <3>1, EnumeratesAll
      <4>2. \A k \in 1..Len(idle) : idle[k] \in R
        BY <3>1 DEF Enumerates
      <4> QED
        BY <3>2, <4>1, <4>2
  <2>4. \A i \in R : x.servers[i].status = "draining" /\ x.servers[i].op = Delete(i)
    BY <2>1 DEF R, Idle, WithStatus, Owes, Assigned
  <2>5. \A o : /\ Succeed(o, T).type = "OperationSucceeded" /\ Succeed(o, T).op = o
               /\ Succeed(o, T).at = T /\ "seq" \notin DOMAIN Succeed(o, T)
    BY DEF Succeed
  <2>6. \A k \in 1..n : es[k] = Succeed(Delete(idle[k]), T)
    BY <1>4, <2>3, <2>4
  <2>7. \A k \in 1..Len(es) : Plain(T, es[k])
    <3> SUFFICES ASSUME NEW k \in 1..n
                 PROVE  Plain(T, es[k])
      BY <1>4
    <3>1. Delete(idle[k]) # SiteStop
      BY OperationsDiffer
    <3> QED
      BY <2>5, <2>6, <3>1 DEF Plain, Routine, ScheduleTypes
  <2>8. Tracked(c, at, v)
    BY <1>4, <1>5, <2>7, EmitAllTracked
  <2>9. ASSUME ~v.st.refused
        PROVE  Cleared(x, T, v.st)
    <3> DEFINE t == v.st
               y == u.st
    <3>0. {idle[j] : j \in 1..n} = R
      BY <2>3
    <3>1. Gone(x, R, y)
      BY <1>5, <1>8, <3>0
    <3>2. DOMAIN y = Fields /\ DOMAIN y.site = SiteFields /\ Rows(y.servers, ServerFields)
      BY <1>5, <1>8 DEF Tracked, Tracks, Bears, Steady, Placed, Draftlike, Tables
    <3>3. Progress(y, es, Len(es), t)
      <4>1. \A k \in 1..Len(es) : es[k].type \in {"ServerActivated", "OperationSucceeded"}
        BY <2>7 DEF Plain
      <4> QED
        BY <1>4, <1>6, <2>9, <3>2, <4>1, ProgressAll
    <3>4. \A i : ~Activates(es, Len(es), i)
      BY <1>4, <2>5, <2>6 DEF Activates
    <3>5. \A o : Finishes(es, Len(es), o) <=> \E i \in R : o = Delete(i)
      <4>1. ASSUME NEW o, Finishes(es, Len(es), o)
            PROVE  \E i \in R : o = Delete(i)
        BY <1>4, <2>3, <2>5, <2>6, <4>1 DEF Finishes
      <4>2. ASSUME NEW i \in R
            PROVE  Finishes(es, Len(es), Delete(i))
        BY <1>4, <2>3, <2>5, <2>6 DEF Finishes
      <4> QED
        BY <4>1, <4>2
    <3> HIDE DEF t, y
    <3>6. Quiet(x, t)
      BY <3>1, <3>3, QuietOn DEF Gone, Progress
    <3>7. /\ DOMAIN t.servers = DOMAIN x.servers \ R
          /\ \A i \in DOMAIN t.servers :
               /\ t.servers[i].op = x.servers[i].op /\ t.servers[i].ready = x.servers[i].ready
               /\ t.servers[i].status = x.servers[i].status
      BY <3>1, <3>3, <3>4 DEF Gone, Progress
    <3>8. t.ops = {o \in x.ops : ~\E i \in R : o = Delete(i)}
      BY <3>1, <3>3, <3>5 DEF Gone, Progress
    <3>9. /\ WithStatus(t, "provisioning") = WithStatus(x, "provisioning")
          /\ WithStatus(t, "draining") = WithStatus(x, "draining") \ R
      BY <2>4, <3>7 DEF WithStatus
    <3>10. Busy(t) = Busy(x) \ {Delete(i) : i \in R}
      BY <3>9, OperationsDiffer DEF Busy
    <3>11. t.ops \ {SiteStop} = Busy(t)
      BY <2>1, <3>8, <3>10 DEF Owes
    <3>12. Assigned(t)
      BY <2>1, <3>7 DEF Owes, Assigned
    <3>13. \A i \in WithStatus(t, "provisioning") : t.servers[i].ready > T
      BY <2>1, <3>7, <3>9 DEF Waits, WithStatus
    <3>14. \A i \in WithStatus(t, "draining") : HasLoad(t, i, T)
      <4> SUFFICES ASSUME NEW i \in WithStatus(t, "draining")
                   PROVE  HasLoad(t, i, T)
        OBVIOUS
      <4>1. HasLoad(x, i, T)
        BY <3>9 DEF R, Idle
      <4>2. t.capacity = x.capacity /\ t.used = x.used /\ t.indexed = x.indexed
        BY <3>6 DEF Quiet
      <4> QED
        BY <4>1, <4>2 DEF HasLoad, UsedCapacity
    <3> QED
      BY <3>6, <3>11, <3>12, <3>13, <3>14 DEF Cleared, Waits, Owes, t
  <2> QED
    BY <1>0, <1>5, <1>6, <2>1, <2>8, <2>9
<1> QED
  BY <1>7, <1>8
----------------------------------------------------------------------------
(* The end of an advance                                                    *)
\* What decides which pages some backend can take, beside the index.
SameSupply(x, y) ==
  /\ DOMAIN y.servers = DOMAIN x.servers
  /\ \A i \in DOMAIN x.servers : /\ y.servers[i].status = x.servers[i].status
                                 /\ y.servers[i].logs = x.servers[i].logs
  /\ y.dbs = x.dbs /\ y.attacks = x.attacks /\ y.rules = x.rules
SameUse(x, y, t) ==
  \A i \in DOMAIN x.servers : UsedCapacity(y, i, t) = UsedCapacity(x, i, t)
LEMMA StarvedSame ==
    ASSUME NEW x, NEW y, SameSupply(x, y), NEW t, SameUse(x, y, t)
    PROVE  StarvedPages(y, t) = StarvedPages(x, t)
<1>1. ActiveBackends(y) = ActiveBackends(x)
  BY DEF SameSupply, ActiveBackends, WithStatus
<1>2. ActiveBackends(x) \subseteq DOMAIN x.servers
  BY DEF ActiveBackends, WithStatus
<1>3. \A i \in DOMAIN x.servers : FreeDisk(y, i) = FreeDisk(x, i)
  BY DEF SameSupply, FreeDisk
<1>4. \A i \in DOMAIN x.servers : DiskFull(y, i) = DiskFull(x, i)
  BY <1>3 DEF DiskFull
<1>5. {i \in ActiveBackends(y) : ~DiskFull(y, i)} = {i \in ActiveBackends(x) : ~DiskFull(x, i)}
  BY <1>1, <1>2, <1>4
<1>6. \A p : Denied(y, p, t) = Denied(x, p, t)
  <2> TAKE p
  <2>1. y.rules = x.rules
    BY DEF SameSupply
  <2>2. Matching(y, p, t) = Matching(x, p, t)
    BY <2>1 DEF Matching
  <2>3. Deciding(y, p, t) = Deciding(x, p, t)
    BY <2>1, <2>2 DEF Deciding
  <2> QED
    BY <2>1, <2>3 DEF Denied
<1>7. \A p : AttackLoad(y, p, t) = AttackLoad(x, p, t)
  <2> TAKE p
  <2>1. y.attacks = x.attacks
    BY DEF SameSupply
  <2>2. {a \in DOMAIN y.attacks : /\ y.attacks[a].page = p
                                  /\ ~Denied(y, y.attacks[a].profile, t)}
         = {a \in DOMAIN x.attacks : /\ x.attacks[a].page = p
                                     /\ ~Denied(x, x.attacks[a].profile, t)}
    BY <1>6, <2>1
  <2> QED
    BY <1>5, <2>1, <2>2 DEF AttackLoad
<1>8. \A i \in ActiveBackends(x) : \A p : FreeCapacity(y, i, p, t) = FreeCapacity(x, i, p, t)
  BY <1>1, <1>2, <1>4, <1>7 DEF FreeCapacity, SameUse
<1> QED
  BY <1>1, <1>8 DEF StarvedPages

\* What a draft's backends are noted as is what they are.
Noted(x, t, T) ==
  /\ Quiet(x, t) /\ DOMAIN t.site = SiteFields /\ t.servers = x.servers /\ t.ops = x.ops
  /\ t.backendDown = (StarvedPages(t, T) # {})
LEMMA RecordBackendsTracked ==
    ASSUME NEW c, c.T \in Int, NEW at \in Int, NEW w, Tracked(c, at, w), w.st.now = c.T
    PROVE  LET v == RecordBackends(w, c.T) IN
           /\ Tracked(c, at, v) /\ Draftlike(v) /\ v.st.now = c.T /\ Moves(w, v)
           /\ ~v.st.refused => ~w.st.refused /\ Noted(w.st, v.st, c.T)
<1> DEFINE T == c.T
           x == w.st
           v == RecordBackends(w, T)
           y == v.st
<1>1. Draftlike(w) /\ DOMAIN x = Fields
  BY DEF Tracked, Tracks, Bears, Draftlike, Tables
<1>2. /\ Moves(w, v)
      /\ \A d, a : d.T \in Int /\ a \in Int /\ T \in Int /\ T <= d.T => Leads(d, a, w, v)
  BY RecordBackendsLeads
<1>3. Draftlike(v) /\ v.st.now = T
  BY <1>1, <1>2 DEF Moves, Goes
<1>4. Tracked(c, at, v)
  <2>1. At(c, x).T = T /\ T \in Int /\ T <= T
    BY AtFields
  <2>2. Leads(At(c, x), at, w, v)
    BY <1>2, <2>1
  <2>3. Tracks(At(c, x), at, v)
    BY <2>2 DEF Leads, Tracked
  <2> HIDE DEF v
  <2>4. Tracks(At(At(c, x), y), at, v)
    BY <2>3, TracksAt DEF Tracked
  <2> DEFINE a == At(c, x)
             b == At(a, y)
             e == At(c, y)
  <2>5. /\ SameRun(b, e) /\ e.cursor = b.cursor /\ e.rules = b.rules /\ e.down = b.down
        /\ e.ops = b.ops /\ e.roles = b.roles /\ e.passed = b.passed
    BY DEF At, SameRun
  <2> HIDE DEF a, b, e
  <2>6. Tracks(b, at, v)
    BY <2>4 DEF a, b
  <2>7. Tracks(e, at, v)
    BY <2>5, <2>6, SameTracks
  <2> QED
    BY <2>7 DEF Tracked, e
<1>5. ASSUME ~y.refused
      PROVE  ~x.refused /\ Noted(x, y, T)
  <2>1. /\ ~x.refused /\ Kept(x, y, {"backendDown", "site"})
        /\ y.backendDown = (StarvedPages(x, T) # {})
    BY <1>1, <1>5, RecordBackendsKeeps
  <2>2. SameSite(y.site, x.site) /\ DOMAIN y.site = SiteFields
    <3>0. DOMAIN x.site = SiteFields
      BY <2>1 DEF Tracked, Tracks, Bears, Steady, Placed
    <3> DEFINE pages == StarvedPages(x, T)
               e == [type |-> "BackendAvailabilityChanged", up |-> pages = {},
                     pages |-> pages, at |-> T]
    <3>4. v = w \/ v = Emit(w, <<e>>)
      BY DEF RecordBackends, RecordStarved
    <3>5. e.type = "BackendAvailabilityChanged"
      OBVIOUS
    <3> HIDE DEF e, v
    <3>1. v = w \/ \E z : v = Emit(w, <<z>>) /\ z.type = "BackendAvailabilityChanged"
      BY <3>4, <3>5
    <3> HIDE DEF v
    <3>2. CASE v = w
      BY <3>0, <3>2 DEF SameSite
    <3>3. CASE v # w
      <4>1. PICK z : v = Emit(w, <<z>>) /\ z.type = "BackendAvailabilityChanged"
        BY <3>1, <3>3
      <4>2. y \in Handled(x, z)
        BY <1>1, <1>5, <4>1, OneEmitted
      <4>3. Quiet(x, y) /\ DOMAIN y.site = SiteFields
        BY <1>1, <3>0, <4>1, <4>2, QuietStep DEF QuietTypes
      <4> QED
        BY <4>3 DEF Quiet
    <3> QED
      BY <3>2, <3>3
  <2> HIDE DEF v, x, y
  <2>3. /\ DOMAIN y = Fields /\ y.now = x.now /\ y.cursor = x.cursor /\ y.conns = x.conns
        /\ y.capacity = x.capacity /\ y.used = x.used /\ y.indexed = x.indexed
        /\ y.rules = x.rules /\ y.firewallDown = x.firewallDown /\ y.servers = x.servers
        /\ y.ops = x.ops /\ y.dbs = x.dbs /\ y.attacks = x.attacks
    BY <2>1 DEF Kept, Fields
  <2>4. SameSupply(x, y)
    BY <2>3 DEF SameSupply
  <2>5. SameUse(x, y, T)
    BY <2>3 DEF SameUse, UsedCapacity
  <2>6. StarvedPages(y, T) = StarvedPages(x, T)
    BY <2>4, <2>5, StarvedSame
  <2>7. Quiet(x, y)
    BY <2>2, <2>3 DEF Quiet
  <2> QED
    BY <2>1, <2>2, <2>3, <2>6, <2>7 DEF Noted
<1> QED
  BY <1>2, <1>3, <1>4, <1>5

\* A site whose stop waits for nothing has stopped.
LEMMA ReleasedAll ==
    ASSUME NEW c, c.T \in Int, c.over = FALSE, NEW at \in Int, NEW w, Tracks(c, at, w),
           "stopOp" \in DOMAIN w, NEW until \in Int, until <= c.T
    PROVE  LET v == ReleaseConnections(w, until) IN
           /\ Tracks(c, at, v) /\ Moves(w, v)
           /\ ~v.st.refused /\ v.st.site.status = "stopping" => DOMAIN v.st.conns # {}
<1> DEFINE v == ReleaseConnections(w, until)
           u == FoldLeft(ReleaseOne, w, ReleaseOrder(w, until))
           t == LastRelease(w, until)
           e == [type |-> "SiteStopped", op |-> u.st.site.op, at |-> t]
           z == Emit(u, <<e>>)
           y == [z EXCEPT !.stopOp = u.st.site.op]
<1>1. Tracks(c, at, v) /\ Moves(w, v)
  BY ReleaseConnectionsLeads, ReleaseConnectionsMoves DEF Leads
<1>2. Draftlike(u)
  <2>1. Draftlike(w)
    BY DEF Tracks, Bears
  <2>2. Listed(ReleaseOrder(w, until))
    BY <2>1, ReleaseOrderListed
  <2> QED
    BY <2>1, <2>2, FoldReleases DEF Moves
<1>3. v = StopIfIdle(u, t)
  BY ReleaseConnectionsIs
<1>4. \/ v = u /\ (u.st.site.status = "stopping" => DOMAIN u.st.conns # {})
      \/ v = y
  BY <1>3 DEF StopIfIdle
<1>5. e.type = "SiteStopped"
  OBVIOUS
<1> HIDE DEF v, u, e
<1>6. CASE v = u /\ (u.st.site.status = "stopping" => DOMAIN u.st.conns # {})
  BY <1>1, <1>6 DEF v
<1>7. CASE v = y
  <2>1. Draftlike(z) /\ (~z.st.refused => z.st \in Handled(u.st, e)) /\ DOMAIN u.st = Fields
    BY <1>2, OneEmitted DEF Draftlike, Tables
  <2> HIDE DEF z
  <2>2. y.st = z.st
    BY <2>1 DEF Draftlike
  <2>3. v.st = z.st
    BY <1>7, <2>2
  <2>4. ASSUME ~v.st.refused
        PROVE  v.st.site.status # "stopping"
    <3>1. DOMAIN v.st.site = SiteFields
      BY <1>1, <2>4 DEF Tracks, Bears, Steady, Placed
    <3>2. v.st \in Handled(u.st, e)
      BY <2>1, <2>3, <2>4
    <3>3. v.st.site = SiteStoppedSite(u.st, e)
      BY <1>5, <2>1, <3>2, SiteStoppedEffect
    <3> QED
      BY <3>1, <3>3 DEF SiteStoppedSite, SiteFields
  <2> QED
    BY <1>1, <2>4 DEF v
<1> QED
  BY <1>4, <1>6, <1>7

LEMMA FinishStopMoves ==
    ASSUME NEW w, NEW t
    PROVE  Moves(w, FinishStop(w, t))
<1> DEFINE e == Succeed(w.stopOp, t)
<1>1. e.type # "TimeAdvanced"
  BY DEF Succeed
<1>2. FinishStop(w, t) = w \/ FinishStop(w, t) = Emit(w, <<e>>)
  BY DEF FinishStop
<1> HIDE DEF e
<1> DEFINE es == <<e>>
<1>3. Timeless(es)
  BY <1>1, TimelessLiterals
<1> HIDE DEF es
<1>4. Moves(w, Emit(w, es))
  BY <1>3, EmitMoves DEF Timeless
<1> QED
  BY <1>2, <1>4, LeadsStill DEF es

LEMMA ActivationsMoves ==
    ASSUME NEW w, Draftlike(w), NEW T
    PROVE  Moves(w, Activations(w, T))
<1> DEFINE x == w.st
           R == Ready(x, T)
           ready == Ascending(R)
           n == Cardinality(R)
           es == ActivationList(x, T, ready)
<1>1. Activations(w, T) = Emit(w, es)
  BY ActivationsIs
<1>2. IsFiniteSet(R)
  <2>1. IsFiniteSet(DOMAIN x["servers"]) /\ R \subseteq DOMAIN x.servers
    BY DEF Draftlike, Tables, Ready, WithStatus
  <2> QED
    BY <2>1, FS_Subset
<1>3. n \in Nat /\ DOMAIN ready = 1..n
  BY <1>2, FS_CardinalityType DEF Ascending, Sorted
<1> HIDE DEF R, n, ready
<1>4. /\ Listed(es) /\ Len(es) = n + n
      /\ \A k \in 1..n : es[k] = Activated(x, T, ready[k])
                         /\ es[n + k] = Succeed(x.servers[ready[k]].op, T)
      /\ \A k \in 1..(n + n) : k \in 1..n \/ \E j \in 1..n : k = n + j
  <2> HIDE DEF x
  <2> QED
    BY <1>3, ActivationListed
<1> HIDE DEF es
<1>5. \A i : Activated(x, T, i).type # "TimeAdvanced"
  BY DEF Activated
<1>6. \A o : Succeed(o, T).type # "TimeAdvanced"
  BY DEF Succeed
<1>7. \A k \in 1..Len(es) : es[k].type # "TimeAdvanced"
  <2> SUFFICES ASSUME NEW k \in 1..(n + n)
               PROVE  es[k].type # "TimeAdvanced"
    BY <1>4
  <2>1. CASE k \in 1..n
    BY <1>4, <1>5, <2>1
  <2>2. CASE \E j \in 1..n : k = n + j
    BY <1>4, <1>6, <2>2
  <2> QED
    BY <1>4, <2>1, <2>2
<1> QED
  BY <1>1, <1>4, <1>7, EmitMoves
LEMMA EndRunTracked ==
    ASSUME NEW c, c.T \in Int, NEW at \in Int, NEW w, Tracked(c, at, w), w.st.now = c.T
    PROVE  LET v == EndRun(w, c.T) IN
           /\ Tracked(c, at, v) /\ Draftlike(v) /\ v.st.now = c.T /\ Moves(w, v)
           /\ ~v.st.refused => /\ ~w.st.refused /\ Kept(w.st, v.st, {"status"})
                               /\ c.T = EndsAt => v.st.status = "completed"
<1> DEFINE e == [type |-> "RunEnded", at |-> c.T]
           v == Emit(w, <<e>>)
<1>1. e.type = "RunEnded" /\ e.at = c.T /\ "seq" \notin DOMAIN e
  OBVIOUS
<1>2. EndRun(w, c.T) = IF c.T = EndsAt THEN v ELSE w
  BY DEF EndRun
<1> HIDE DEF e
<1>3. Draftlike(w) /\ DOMAIN w.st = Fields
  BY DEF Tracked, Tracks, Bears, Draftlike, Tables
<1>4. CASE c.T # EndsAt
  <2>1. EndRun(w, c.T) = w
    BY <1>2, <1>4
  <2>2. Kept(w.st, w.st, {"status"})
    BY <1>3 DEF Kept
  <2> QED
    BY <1>3, <1>4, <2>1, <2>2, LeadsStill
<1>5. CASE c.T = EndsAt
  <2>1. EndRun(w, c.T) = v
    BY <1>2, <1>5
  <2>2. Timely(c, at, w.st, e) /\ Still(w.st, e) /\ Routine(e)
    BY <1>1 DEF Timely, Proper, AlikeTypes, KnownTypes, TimeTypes, CostTypes, Still, KeepsMark,
       Routine, ScheduleTypes, OperationTypes
  <2>3. Tracked(c, at, v) /\ Draftlike(v)
    BY <2>2, EmitTracked
  <2>4. Moves(w, v)
    <3> DEFINE es == <<e>>
    <3>1. Timeless(es)
      BY <1>1, TimelessLiterals
    <3> HIDE DEF es
    <3>2. Moves(w, Emit(w, es))
      BY <3>1, EmitMoves DEF Timeless
    <3> QED
      BY <3>2 DEF es
  <2>5. v.st.now = c.T /\ (~v.st.refused => ~w.st.refused /\ v.st \in Handled(w.st, e))
    BY <1>1, <1>3, OneEmitted
  <2>6. ASSUME ~v.st.refused
        PROVE  Kept(w.st, v.st, {"status"}) /\ v.st.status = "completed"
    BY <1>1, <1>3, <2>5, <2>6, RunEndedEffect
  <2> HIDE DEF v
  <2> QED
    BY <2>1, <2>3, <2>4, <2>5, <2>6
<1> QED
  BY <1>4, <1>5

\* What still waits does whatever else changes.
LEMMA WaitsSame ==
    ASSUME NEW x, NEW y, NEW T, Waits(x, T), y.servers = x.servers, y.ops = x.ops
    PROVE  Waits(y, T)
  BY DEF Waits, Owes, Assigned, Busy, WithStatus
LEMMA LoadedSame ==
    ASSUME NEW x, NEW y, NEW T, \A i \in WithStatus(x, "draining") : HasLoad(x, i, T),
           y.servers = x.servers, y.capacity = x.capacity, y.used = x.used,
           y.indexed = x.indexed
    PROVE  \A i \in WithStatus(y, "draining") : HasLoad(y, i, T)
<1> SUFFICES ASSUME NEW i \in WithStatus(y, "draining")
             PROVE  HasLoad(y, i, T)
  OBVIOUS
<1>1. HasLoad(x, i, T)
  BY DEF WithStatus
<1> QED
  BY <1>1 DEF HasLoad, UsedCapacity

(***************************************************************************)
(* What a settled state x has at T beyond soundness: the verdicts are those *)
(* of that moment, an operation is running exactly while what it waits for *)
(* is, and what was due has happened.                                      *)
(***************************************************************************)
Current(x, T) ==
  /\ x.now = T /\ CursorAt(x.cursor, T)
  /\ x.firewallDown = Denying(x.rules, T)
  /\ x.backendDown = (StarvedPages(x, T) # {})
  /\ Waits(x, T)
  /\ \A i \in WithStatus(x, "draining") : HasLoad(x, i, T)
  /\ x.site.status = "stopping" => x.site.op = SiteStop /\ DOMAIN x.conns # {}
  /\ SiteStop \in x.ops <=> x.site.status = "stopping"
Settling(x, T, j) == Ended(Passing(Course(x, T, j), T))
LEMMA SettleTracked ==
    ASSUME NEW x, Waits(x, x.now), NEW T \in Int, T <= EndsAt, NEW j \in Nat,
           CursorAt(x.cursor + j, T), Reached(x, j) \in Nat, Reached(x, j) <= T,
           NEW w, DOMAIN w = DraftFields, w.to = T, Tracks(Course(x, T, j), T, w)
    PROVE  /\ Tracked(Settling(x, T, j), T, Settle(w)) /\ Draftlike(Settle(w))
           /\ Settle(w).to = T
           /\ ~Settle(w).st.refused =>
                /\ Current(Settle(w).st, T)
                /\ T = EndsAt => Settle(w).st.status = "completed"
<1> DEFINE c1 == Course(x, T, j)
           c2 == Passing(c1, T)
           c == Ended(c2)
           w1 == [w EXCEPT !.st.now = T]
           w2 == PassBoundaries(w1, T)
           w3 == ReleaseConnections(w2, T)
           w4 == FinishStop(w3, T)
           w5 == Activations(w4, T)
           w6 == RecordBackends(w5, T)
           w7 == Removals(w6, T)
           w8 == RecordBackends(w7, T)
           w9 == EndRun(w8, T)
<1>0. Settle(w) = w9
  BY DEF Settle
<1>1. /\ c1.T = T /\ c1.over = FALSE /\ c1.passed = Reached(x, j) /\ c1.rules = x.rules
      /\ c1.down = Denying(c1.rules, c1.passed) /\ c1.cursor = x.cursor + j
      /\ c1.ops = x.ops /\ c1.roles = Roles(x.servers)
  BY DEF Course
<1>2. Draftlike(w) /\ "cursor" \in DOMAIN w /\ "stopOp" \in DOMAIN w /\ "to" \in DOMAIN w
  BY DEF Tracks, Bears, DraftFields
<1>3. /\ Tracks(c1, T, w1) /\ Draftlike(w1) /\ w1.st.now = T /\ DOMAIN w1 = DOMAIN w
      /\ w1.to = T
  <2>1. ClockSet(w, w1, T)
    BY <1>2 DEF ClockSet, Draftlike
  <2> HIDE DEF w1, c1
  <2>2. Tracks(c1, T, w1)
    BY <2>1, ClockTracks DEF c1
  <2>3. Draftlike(w1) /\ w1.st.now = T
    BY <1>2, <2>1, ClockDraftlike
  <2>4. w1["to"] = w["to"]
    BY <1>2, <2>1 DEF ClockSet, DraftFields
  <2> QED
    BY <2>1, <2>2, <2>3, <2>4 DEF ClockSet
<1> HIDE DEF c1, w1
<1>4. /\ Tracks(c2, T, w2) /\ Moves(w1, w2)
  <2>1. Most(c1.passed, T) = T
    BY <1>1 DEF Most
  <2>2. Tracks(Passing(c1, Most(c1.passed, T)), T, w2)
    BY <1>1, <1>2, <1>3, PassBoundariesTracks
  <2> QED
    BY <2>1, <2>2, PassBoundariesMoves
<1>5. /\ c2.T = T /\ c2.over = FALSE /\ c2.down = Denying(x.rules, T) /\ c2.rules = x.rules
      /\ c2.cursor = x.cursor + j /\ c2.ops = x.ops /\ c2.roles = Roles(x.servers)
      /\ c.T = T
  BY <1>1 DEF Passing, Ended
<1> HIDE DEF c2, w2
<1>6. /\ Draftlike(w2) /\ DOMAIN w2 = DOMAIN w /\ w2.st.now = T /\ w2.to = T
  BY <1>2, <1>3, <1>4 DEF Moves, Goes
<1>7. /\ Tracks(c2, T, w3) /\ Moves(w2, w3)
      /\ ~w3.st.refused /\ w3.st.site.status = "stopping" => DOMAIN w3.st.conns # {}
  <2>1. /\ c2.T \in Int /\ c2.over = FALSE /\ T \in Int /\ T <= c2.T
        /\ "stopOp" \in DOMAIN w2 /\ Tracks(c2, T, w2)
    BY <1>2, <1>4, <1>5, <1>6
  <2> DEFINE v == ReleaseConnections(w2, T)
  <2>2. /\ Tracks(c2, T, v) /\ Moves(w2, v)
        /\ ~v.st.refused /\ v.st.site.status = "stopping" => DOMAIN v.st.conns # {}
    BY <2>1, ReleasedAll
  <2> QED
    BY <2>2
<1> HIDE DEF w3
<1>8. /\ Draftlike(w3) /\ DOMAIN w3 = DOMAIN w /\ w3.st.now = T /\ w3.to = T
  BY <1>2, <1>6, <1>7 DEF Moves, Goes
<1>9. /\ Tracked(c, T, w4) /\ Draftlike(w4) /\ Moves(w3, w4)
      /\ ~w4.st.refused => ~w3.st.refused /\ Finished(w3.st, w4.st)
  <2>1. Moves(w3, w4)
    BY FinishStopMoves
  <2> QED
    BY <1>2, <1>5, <1>7, <1>8, <2>1, FinishStopTracked
<1> HIDE DEF w4, c
<1>10. DOMAIN w4 = DOMAIN w /\ w4.st.now = T /\ w4.to = T
  BY <1>2, <1>8, <1>9 DEF Moves, Goes
<1>11. ~w4.st.refused => /\ Holds(c2, w3.st) /\ Owes(w4.st)
                         /\ w4.st.cursor = x.cursor + j /\ w4.st.rules = x.rules
                         /\ w4.st.firewallDown = Denying(x.rules, T)
                         /\ w4.st.site.status = "stopping" => DOMAIN w4.st.conns # {}
  <2> SUFFICES ASSUME ~w4.st.refused
               PROVE  /\ Holds(c2, w3.st) /\ Owes(w4.st)
                      /\ w4.st.cursor = x.cursor + j /\ w4.st.rules = x.rules
                      /\ w4.st.firewallDown = Denying(x.rules, T)
                      /\ w4.st.site.status = "stopping" => DOMAIN w4.st.conns # {}
    OBVIOUS
  <2>1. Holds(c2, w3.st) /\ Finished(w3.st, w4.st) /\ ~w3.st.refused
    BY <1>7, <1>9 DEF Tracks, Bears
  <2>2. Owes(w4.st)
    <3>1. Roles(w4.st.servers) = Roles(x.servers)
      BY <1>5, <2>1 DEF Holds, Finished
    <3>2. w4.st.ops \ {SiteStop} = x.ops \ {SiteStop}
      BY <1>5, <2>1 DEF Holds, Finished
    <3> QED
      BY <3>1, <3>2, OwesByRoles DEF Waits
  <2> QED
    BY <1>5, <1>7, <2>1, <2>2 DEF Holds, Finished, Quiet, SameSite
<1>12. /\ Tracked(c, T, w5) /\ Draftlike(w5) /\ Moves(w4, w5)
       /\ ~w5.st.refused => ~w4.st.refused /\ Prepared(w4.st, T, w5.st)
  <2>1. Moves(w4, w5)
    BY <1>9, ActivationsMoves
  <2> QED
    BY <1>5, <1>9, <1>10, <1>11, <2>1, ActivationsTracked
<1> HIDE DEF w5
<1>13. DOMAIN w5 = DOMAIN w /\ w5.st.now = T /\ w5.to = T
  BY <1>2, <1>9, <1>10, <1>12 DEF Moves, Goes
<1>14. /\ Tracked(c, T, w6) /\ Draftlike(w6) /\ w6.st.now = T /\ Moves(w5, w6)
       /\ ~w6.st.refused => ~w5.st.refused /\ Noted(w5.st, w6.st, T)
  BY <1>5, <1>12, <1>13, RecordBackendsTracked
<1> HIDE DEF w6
<1>15. DOMAIN w6 = DOMAIN w /\ w6.to = T
  BY <1>2, <1>12, <1>13, <1>14 DEF Moves, Goes
<1>16. ~w6.st.refused => Waits(w6.st, T)
  <2> SUFFICES ASSUME ~w6.st.refused
               PROVE  Waits(w6.st, T)
    OBVIOUS
  <2>1. Waits(w5.st, T)
    BY <1>12, <1>14 DEF Prepared, Waits
  <2> QED
    BY <1>14, <2>1, WaitsSame DEF Noted
<1>17. /\ Tracked(c, T, w7) /\ Draftlike(w7) /\ w7.st.now = T /\ Moves(w6, w7)
       /\ ~w7.st.refused => ~w6.st.refused /\ Cleared(w6.st, T, w7.st)
  BY <1>5, <1>14, <1>16, RemovalsTracked
<1> HIDE DEF w7
<1>18. DOMAIN w7 = DOMAIN w /\ w7.to = T
  BY <1>2, <1>14, <1>15, <1>17 DEF Moves, Goes
<1>19. /\ Tracked(c, T, w8) /\ Draftlike(w8) /\ w8.st.now = T /\ Moves(w7, w8)
       /\ ~w8.st.refused => ~w7.st.refused /\ Noted(w7.st, w8.st, T)
  BY <1>5, <1>17, RecordBackendsTracked
<1> HIDE DEF w8
<1>20. DOMAIN w8 = DOMAIN w /\ w8.to = T
  BY <1>2, <1>17, <1>18, <1>19 DEF Moves, Goes
<1>21. /\ Tracked(c, T, w9) /\ Draftlike(w9) /\ w9.st.now = T /\ Moves(w8, w9)
       /\ ~w9.st.refused => /\ ~w8.st.refused /\ Kept(w8.st, w9.st, {"status"})
                            /\ T = EndsAt => w9.st.status = "completed"
  BY <1>5, <1>19, EndRunTracked
<1> HIDE DEF w9
<1>22. w9.to = T
  BY <1>2, <1>19, <1>20, <1>21 DEF Moves, Goes
<1>23. ASSUME ~w9.st.refused
       PROVE  Current(w9.st, T)
  <2> DEFINE x4 == w4.st
             x6 == w6.st
             x7 == w7.st
             x8 == w8.st
             x9 == w9.st
  <2>0. DOMAIN w9.st = Fields
    BY <1>21 DEF Draftlike, Tables
  <2>1. /\ Quiet(x7, x8) /\ x8.servers = x7.servers /\ x8.ops = x7.ops
        /\ x8.backendDown = (StarvedPages(x8, T) # {})
    BY <1>19, <1>21, <1>23 DEF Noted
  <2>2. Cleared(x6, T, x7) /\ Quiet(x6, x7)
    BY <1>17, <1>19, <1>21, <1>23 DEF Cleared
  <2>3. Quiet(x4, x6)
    <3>1. Quiet(x4, w5.st) /\ Quiet(w5.st, x6)
      BY <1>12, <1>14, <1>17, <1>19, <1>21, <1>23 DEF Noted, Prepared
    <3> QED
      BY <3>1, QuietOn
  <2>4. /\ x4.cursor = x.cursor + j /\ x4.rules = x.rules
        /\ x4.firewallDown = Denying(x.rules, T)
        /\ x4.site.status = "stopping" => DOMAIN x4.conns # {}
    BY <1>11, <1>12, <1>14, <1>17, <1>19, <1>21, <1>23
  <2>5. Kept(x8, x9, {"status"})
    BY <1>21, <1>23
  <2> HIDE DEF x4, x6, x7, x8
  <2>6. Quiet(x4, x8)
    BY <2>1, <2>2, <2>3, QuietOn
  <2>7. \A f \in Fields \ {"status"} : x9[f] = x8[f]
    BY <2>5 DEF Kept
  <2> HIDE DEF x9
  <2>8. /\ x9.servers = x8.servers /\ x9.ops = x8.ops /\ x9.capacity = x8.capacity
        /\ x9.used = x8.used /\ x9.indexed = x8.indexed /\ x9.rules = x8.rules
        /\ x9.cursor = x8.cursor /\ x9.firewallDown = x8.firewallDown
        /\ x9.backendDown = x8.backendDown /\ x9.site = x8.site /\ x9.conns = x8.conns
        /\ x9.dbs = x8.dbs /\ x9.attacks = x8.attacks
    BY <2>7 DEF Fields
  <2>9. StarvedPages(x9, T) = StarvedPages(x8, T)
    <3>1. SameSupply(x8, x9)
      BY <2>8 DEF SameSupply
    <3>2. SameUse(x8, x9, T)
      BY <2>8 DEF SameUse, UsedCapacity
    <3> QED
      BY <3>1, <3>2, StarvedSame
  <2>10. Waits(x9, T)
    <3>1. Waits(x8, T)
      BY <2>1, <2>2, WaitsSame DEF Cleared
    <3> QED
      BY <2>8, <3>1, WaitsSame
  <2>11. \A i \in WithStatus(x9, "draining") : HasLoad(x9, i, T)
    <3>1. \A i \in WithStatus(x7, "draining") : HasLoad(x7, i, T)
      BY <2>2 DEF Cleared
    <3>2. \A i \in WithStatus(x8, "draining") : HasLoad(x8, i, T)
      BY <2>1, <3>1, LoadedSame DEF Quiet
    <3> QED
      BY <2>8, <3>2, LoadedSame
  <2>12. /\ x9.cursor = x.cursor + j /\ x9.rules = x.rules
         /\ x9.firewallDown = Denying(x.rules, T)
         /\ x9.site.status = "stopping" => DOMAIN x9.conns # {}
    BY <2>4, <2>6, <2>8 DEF Quiet, SameSite
  <2>13. /\ x9.site.status = "stopping" => x9.site.op = SiteStop
         /\ SiteStop \in x9.ops <=> x9.site.status = "stopping"
    <3>1. Stops(At(c, w9.st), w9)
      BY <1>21, <1>23 DEF Tracked, Tracks
    <3>2. At(c, w9.st).over = TRUE /\ At(c, w9.st).ops = x9.ops
      BY AtFields DEF c, Ended, x9
    <3> QED
      BY <3>1, <3>2 DEF Stops, StopEnded, x9
  <2>14. x9.now = T
    BY <1>21 DEF x9
  <2>15. CursorAt(x9.cursor, T)
    BY <2>12
  <2>16. x9.firewallDown = Denying(x9.rules, T) /\ x9.backendDown = (StarvedPages(x9, T) # {})
    BY <2>1, <2>8, <2>9, <2>12
  <2>17. Current(x9, T)
    BY <2>10, <2>11, <2>12, <2>13, <2>14, <2>15, <2>16 DEF Current
  <2> QED
    BY <2>17 DEF x9
<1>24. c = Settling(x, T, j)
  BY DEF c, c2, c1, Settling
<1> QED
  BY <1>0, <1>21, <1>22, <1>23, <1>24
----------------------------------------------------------------------------
(* An advance: decideAdvance                                                *)

\* What holds of the aggregate between two commands.
Settled(x) ==
  /\ x.now \in Nat /\ x.now <= EndsAt /\ Sound(x.now, x) /\ ~x.refused /\ x.indexed = x.now
  /\ Current(x, x.now)
  /\ Running(x) => x.now < EndsAt
LEMMA SettledStanding ==
    ASSUME NEW x, Settled(x)
    PROVE  Standing(x) /\ Waits(x, x.now)
  BY DEF Settled, Standing, Current

\* Two states that events treat alike are as sound, and as current.
LEMMA SoundAlike ==
    ASSUME NEW T, NEW x, Sound(T, x), NEW y, Alike(x, y)
    PROVE  Sound(T, y)
<1>1. /\ Steady(T, x) /\ Marked(x)
  BY DEF Sound
<1>2. /\ DOMAIN x = Fields /\ DOMAIN y = Fields
      /\ DOMAIN y.servers = DOMAIN x.servers /\ Rows(y.servers, ServerFields)
      /\ DOMAIN y.backups = DOMAIN x.backups /\ Rows(y.backups, BackupFields)
  BY DEF Alike, SameRows, Rows
<1>3. /\ y.cursor = x.cursor /\ y.site = x.site /\ y.dbs = x.dbs /\ y.growth = x.growth
      /\ y.conns = x.conns /\ y.counts = x.counts /\ y.capacity = x.capacity
      /\ y.used = x.used /\ y.indexed = x.indexed /\ y.rules = x.rules
      /\ y.attacks = x.attacks
  BY SameFields
<1>4. DependenciesUp(x) = DependenciesUp(y)
  BY SameReadings
<1>5. Tables(y)
  <2>1. Tables(x)
    BY <1>1 DEF Steady
  <2>2. /\ IsFiniteSet(DOMAIN x["servers"]) /\ IsFiniteSet(DOMAIN x["growth"])
        /\ IsFiniteSet(DOMAIN x["conns"]) /\ IsFiniteSet(DOMAIN x["capacity"])
        /\ IsFiniteSet(DOMAIN x["backups"]) /\ IsFiniteSet(DOMAIN x["rules"])
    BY <2>1 DEF Tables
  <2>3. /\ IsFiniteSet(DOMAIN y["servers"]) /\ IsFiniteSet(DOMAIN y["growth"])
        /\ IsFiniteSet(DOMAIN y["conns"]) /\ IsFiniteSet(DOMAIN y["capacity"])
        /\ IsFiniteSet(DOMAIN y["backups"]) /\ IsFiniteSet(DOMAIN y["rules"])
    BY <1>2, <1>3, <2>2
  <2> QED
    BY <1>2, <2>3 DEF Tables
<1>6. Index(T, y)
  BY <1>1, <1>2, <1>3 DEF Steady, Index, Allocation, OnServer
<1>7. Named(y) /\ Attacked(y) /\ Ruled(y)
  BY <1>1, <1>2, <1>3 DEF Steady, Named, Attacked, Ruled, Seen
<1>8. Placed(y)
  BY <1>1, <1>2, <1>3 DEF Steady, Placed
<1>9. Connected(y) /\ Marked(y)
  BY <1>1, <1>3 DEF Steady, Connected, Marked, ConnectionsOf
<1>10. Faulted(y)
  BY <1>1, <1>3, <1>4 DEF Steady, Faulted
<1> QED
  BY <1>5, <1>6, <1>7, <1>8, <1>9, <1>10 DEF Sound, Steady

LEMMA CurrentAlike ==
    ASSUME NEW x, NEW T, Current(x, T), NEW y, Alike(x, y), y.now = T
    PROVE  Current(y, T)
<1>1. /\ y.cursor = x.cursor /\ y.site = x.site /\ y.conns = x.conns /\ y.rules = x.rules
      /\ y.firewallDown = x.firewallDown /\ y.backendDown = x.backendDown /\ y.ops = x.ops
  BY SameFields
<1>2. /\ \A st : WithStatus(y, st) = WithStatus(x, st)
      /\ StarvedPages(y, T) = StarvedPages(x, T)
      /\ \A i : HasLoad(y, i, T) = HasLoad(x, i, T)
  BY SameReadings
<1>3. /\ DOMAIN x.servers = DOMAIN y.servers
      /\ \A i \in DOMAIN x.servers : /\ x.servers[i].status = y.servers[i].status
                                     /\ x.servers[i].op = y.servers[i].op
                                     /\ x.servers[i].ready = y.servers[i].ready
  BY SameServerReadings
<1>4. Waits(y, T)
  <2>1. Owes(x) /\ \A i \in WithStatus(x, "provisioning") : x.servers[i].ready > T
    BY DEF Current, Waits
  <2>2. Assigned(y)
    BY <1>3, <2>1 DEF Owes, Assigned
  <2>3. Busy(y) = Busy(x)
    BY <1>2 DEF Busy
  <2>4. \A i \in WithStatus(y, "provisioning") : y.servers[i].ready > T
    BY <1>2, <1>3, <2>1 DEF WithStatus
  <2> QED
    BY <1>1, <2>1, <2>2, <2>3, <2>4 DEF Waits, Owes
<1> QED
  BY <1>1, <1>2, <1>4 DEF Current

\* What an accepted command has made of the aggregate before it is pruned.
Landed(x, es, t) ==
  /\ Listed(es) /\ t = ApplyAll(x, es)
  /\ ~t.refused /\ t.now \in Nat /\ x.now <= t.now /\ t.now <= EndsAt
  /\ Sound(t.now, t) /\ t.indexed <= t.now /\ Current(t, t.now)
  /\ Running(t) => t.now < EndsAt
  /\ FoldLeft(Occurs, FirstItems(x.cursor), es) = FirstItems(t.cursor)

AdvanceBound(x, duration) == Least(x.now + duration, EndsAt)
LEMMA AdvanceIs ==
    ASSUME NEW x, NEW duration, NEW stop, NEW filter
    PROVE  DecideAdvance(x, duration, stop, filter)
             = WithCosts(x, Settle(Items(Begun(x, AdvanceBound(x, duration)),
                                         Pending(x, AdvanceBound(x, duration)), stop, filter)))
  BY DEF DecideAdvance, AdvanceBound, Begun

LEMMA AdvanceLands ==
    ASSUME NEW x, Settled(x), Running(x), NEW duration \in Nat \ {0}, NEW stop, NEW filter,
           DecideAdvance(x, duration, stop, filter).ok
    PROVE  /\ Landed(x, DecideAdvance(x, duration, stop, filter).events,
                     ApplyAll(x, DecideAdvance(x, duration, stop, filter).events))
           /\ \E T, rest : /\ Listed(rest)
                           /\ DecideAdvance(x, duration, stop, filter).events
                                = <<TimeAdvanced(x.now, T)>> \o rest
<1> DEFINE bound == AdvanceBound(x, duration)
           w == Items(Begun(x, bound), Pending(x, bound), stop, filter)
           v == Settle(w)
           T == w.to
           bill == <<TimeAdvanced(x.now, T)>> \o ServerCosts(x, T) \o BackupCosts(x, T)
           es == DecideAdvance(x, duration, stop, filter).events
           t == ApplyAll(x, es)
<1>1. Standing(x) /\ Waits(x, x.now) /\ x.now \in Nat /\ Sound(x.now, x) /\ ~x.refused
      /\ x.indexed = x.now /\ x.now < EndsAt
  BY SettledStanding DEF Settled
<1>2. bound \in Int /\ x.now < bound /\ bound <= EndsAt
  BY <1>1, ScheduleAssumption DEF AdvanceBound, Least
<1> HIDE DEF bound
<1>3. /\ Draftlike(w) /\ DOMAIN w = DraftFields
      /\ w.to \in Int /\ x.now < w.to /\ w.to <= bound
      /\ \E j \in Nat : /\ CursorAt(x.cursor + j, w.to)
                        /\ Reached(x, j) \in Nat /\ Reached(x, j) <= w.to
                        /\ Tracks(Course(x, w.to, j), w.to, w)
  BY <1>1, <1>2, LastItem
<1>4. DecideAdvance(x, duration, stop, filter) = WithCosts(x, v)
  BY AdvanceIs DEF bound
<1> HIDE DEF w
<1>5. PICK j \in Nat : /\ CursorAt(x.cursor + j, T) /\ Reached(x, j) \in Nat
                       /\ Reached(x, j) <= T /\ Tracks(Course(x, T, j), T, w)
  BY <1>3
<1>6. T \in Int /\ x.now < T /\ T <= EndsAt /\ T \in Nat /\ EndsAt \in Nat
  BY <1>1, <1>2, <1>3, ScheduleAssumption
<1> DEFINE c == Settling(x, T, j)
<1>7. /\ Tracked(c, T, v) /\ Draftlike(v) /\ v.to = T
      /\ ~v.st.refused => Current(v.st, T) /\ (T = EndsAt => v.st.status = "completed")
  BY <1>1, <1>3, <1>5, <1>6, SettleTracked
<1>8. c.T = T /\ c.y = Journalled(x, T) /\ c.fired = FirstItems(x.cursor)
  BY DEF Settling, Ended, Passing, Course
<1> HIDE DEF c, v, T
<1>9. ~v.st.refused /\ es = bill \o v.out
  <2> DEFINE d == DecideAdvance(x, duration, stop, filter)
             all == <<TimeAdvanced(x.now, v.to)>> \o ServerCosts(x, v.to) \o BackupCosts(x, v.to)
                    \o v.out
  <2>1. d = Guarded(~v.st.refused, all)
    BY <1>4 DEF WithCosts
  <2>2. all = bill \o v.out
    BY <1>7
  <2>3. d.ok
    OBVIOUS
  <2> HIDE DEF all, d
  <2>4. ~v.st.refused /\ d.events = all
    BY <2>1, <2>3 DEF Guarded, Rejected
  <2> QED
    BY <2>2, <2>4 DEF d
<1>10. Current(v.st, T) /\ (T = EndsAt => v.st.status = "completed")
  BY <1>7, <1>9
<1>11. /\ Steady(T, v.st) /\ Marked(v.st)
       /\ Alike(v.st, ApplyAll(Journalled(x, T), v.out))
       /\ ApplyAll(Journalled(x, T), v.out).now = T
       /\ v.st.indexed <= T
       /\ FoldLeft(Occurs, FirstItems(x.cursor), v.out) = FirstItems(v.st.cursor)
  <2> DEFINE a == At(c, v.st)
  <2>1. Tracks(a, T, v) /\ a.T = T /\ a.y = Journalled(x, T)
        /\ a.fired = FirstItems(x.cursor) /\ a.cursor = v.st.cursor
    BY <1>7, <1>8, AtFields DEF Tracked
  <2> HIDE DEF a
  <2> QED
    BY <1>9, <2>1 DEF Tracks, Bears
<1>12. /\ Listed(bill) /\ \A items : FoldLeft(Occurs, items, bill) = items
       /\ ApplyAll(x, bill) = Journalled(x, T)
  BY <1>1, <1>6, JournalledAlike DEF Journalled
<1>13. Listed(v.out)
  BY <1>7 DEF Draftlike
<1> DEFINE e == TimeAdvanced(x.now, T)
           p == ServerCosts(x, T)
           q == BackupCosts(x, T)
           r == v.out
<1>22. bill = (<<e>> \o p) \o q
  OBVIOUS
<1>23. Listed(p) /\ Listed(q)
  <2>1. x.now \in Int /\ x.indexed <= x.now /\ x.now <= T
    BY <1>1, <1>6
  <2> HIDE DEF p, q
  <2>2. Listed(ServerCosts(x, T)) /\ Listed(BackupCosts(x, T))
    BY <1>1, <1>6, <2>1, JournalledAlike
  <2> QED
    BY <2>2 DEF p, q
<1> HIDE DEF e, p, q, r, bill
<1>24. Listed(<<e>>) /\ Listed(p \o q) /\ Listed(r) /\ Listed((p \o q) \o r)
  <2>1. Listed(r)
    BY <1>13 DEF r
  <2> QED
    BY <1>23, <2>1, ListedLiterals, ListedAppend
<1>25. bill = <<e>> \o (p \o q)
  BY <1>22, <1>23, <1>24, ConcatAssociates
<1>26. es = <<e>> \o ((p \o q) \o r)
  <2>1. (<<e>> \o (p \o q)) \o r = <<e>> \o ((p \o q) \o r)
    BY <1>24, ConcatAssociates
  <2>2. es = bill \o r
    BY <1>9 DEF r
  <2> HIDE DEF es
  <2> QED
    BY <1>25, <2>1, <2>2
<1>14. /\ Listed(es) /\ t = ApplyAll(Journalled(x, T), v.out)
       /\ FoldLeft(Occurs, FirstItems(x.cursor), es) = FirstItems(v.st.cursor)
  BY <1>9, <1>11, <1>12, <1>13, ListedAppend, ApplyAllAppend, OccursAppend
<1> HIDE DEF es, t
<1>15. Alike(v.st, t) /\ t.now = T
  BY <1>11, <1>14
<1>16. Sound(T, t) /\ Current(t, T)
  BY <1>10, <1>11, <1>15, SoundAlike, CurrentAlike DEF Sound
<1>17. /\ t.refused = v.st.refused /\ t.status = v.st.status /\ t.cursor = v.st.cursor
       /\ t.indexed = v.st.indexed
  BY <1>15, SameFields
<1>18. Running(t) => T < EndsAt
  BY <1>6, <1>10, <1>17 DEF Running
<1>19. ~t.refused /\ t.indexed <= T
  BY <1>9, <1>11, <1>17
<1>20. t = ApplyAll(x, es)
  BY DEF t
<1>21. Landed(x, es, t)
  <2>1. /\ t.now \in Nat /\ x.now <= t.now /\ t.now <= EndsAt
        /\ Running(t) => t.now < EndsAt
    BY <1>1, <1>6, <1>15, <1>18
  <2>2. Sound(t.now, t) /\ t.indexed <= t.now /\ Current(t, t.now)
    BY <1>15, <1>16, <1>19
  <2>3. FoldLeft(Occurs, FirstItems(x.cursor), es) = FirstItems(t.cursor)
    BY <1>14, <1>17
  <2> QED
    BY <1>14, <1>19, <1>20, <2>1, <2>2, <2>3 DEF Landed
<1> QED
  BY <1>21, <1>24, <1>26 DEF es, t, e
----------------------------------------------------------------------------
(* What is left when a command has been applied: pruneDerivedState          *)

\* What is used at a moment the index has not passed is what is live then.
Live(x, i, at) ==
  {r \in DOMAIN x.capacity : /\ x.capacity[r].server = i
                             /\ x.capacity[r].until > at}
LEMMA UsedLive ==
    ASSUME NEW T, NEW x, Index(T, x), NEW i \in Servers, NEW at \in Int, x.indexed <= at
    PROVE  UsedCapacity(x, i, at) = LoadOf(x.capacity, Live(x, i, at))
<1>1. CASE x.indexed = at
  <2>1. UsedCapacity(x, i, at) = x.used[i]
    BY <1>1, UsedNow
  <2>2. x.used[i] = LoadOf(x.capacity, OnServer(x.capacity, i))
    BY DEF Index
  <2>3. OnServer(x.capacity, i) = Live(x, i, at)
    BY <1>1 DEF Index, Allocation, OnServer, Live
  <2> QED
    BY <2>1, <2>2, <2>3
<1>2. CASE x.indexed # at
  BY <1>2 DEF UsedCapacity, Live
<1> QED
  BY <1>1, <1>2

LEMMA PruneParts ==
    ASSUME NEW x, DOMAIN x = Fields, NEW at, ~(at < x.indexed)
    PROVE  /\ Prune(x, at).capacity
                = Drop(x.capacity, {r \in DOMAIN x.capacity : x.capacity[r].until <= at})
           /\ Prune(x, at).indexed = at
  BY DEF Prune, Fields

\* Pruning changes nothing that is live.
LEMMA PruneUse ==
    ASSUME NEW T \in Int, NEW x, DOMAIN x = Fields, Index(T, x), NEW i \in Servers
    PROVE  UsedCapacity(Prune(x, T), i, T) = UsedCapacity(x, i, T)
<1> DEFINE p == Prune(x, T)
           gone == {r \in DOMAIN x.capacity : x.capacity[r].until <= T}
<1>1. x.indexed \in Int /\ x.indexed <= T /\ IsFiniteSet(DOMAIN x.capacity)
      /\ \A r \in DOMAIN x.capacity : x.capacity[r].until \in Int /\ x.capacity[r].load \in Nat
  BY DEF Index, Allocation
<1>2. p.capacity = Drop(x.capacity, gone)
  BY <1>1, PruneParts
<1>3. /\ DOMAIN p.capacity = DOMAIN x.capacity \ gone
      /\ \A r \in DOMAIN p.capacity : p.capacity[r] = x.capacity[r]
  <2> HIDE DEF gone, p
  <2>1. DOMAIN Drop(x.capacity, gone) = DOMAIN x.capacity \ gone
    BY DropDomain
  <2>2. \A r \in DOMAIN x.capacity \ gone : Drop(x.capacity, gone)[r] = x.capacity[r]
    BY DropDomain
  <2> QED
    BY <1>2, <2>1, <2>2
<1>4. Index(T, p) /\ p.indexed = T
  BY <1>1, PruneIndexed
<1>5. UsedCapacity(p, i, T) = LoadOf(p.capacity, Live(p, i, T))
  <2> HIDE DEF p
  <2> QED
    BY <1>4, UsedLive
<1>6. UsedCapacity(x, i, T) = LoadOf(x.capacity, Live(x, i, T))
  BY <1>1, UsedLive
<1> HIDE DEF p
<1>7. Live(p, i, T) = Live(x, i, T)
  BY <1>1, <1>3 DEF Live
<1>8. LoadOf(p.capacity, Live(x, i, T)) = LoadOf(x.capacity, Live(x, i, T))
  <2> DEFINE U == Live(x, i, T)
  <2>1. IsFiniteSet(U)
    BY <1>1, FS_Subset DEF Live
  <2>2. \A r \in U : r \in DOMAIN p.capacity
    BY <1>1, <1>3 DEF Live
  <2>3. \A r \in U : r \in DOMAIN x.capacity
    BY DEF Live
  <2> HIDE DEF U
  <2>4. \A r \in U : x.capacity[r].load \in Nat /\ x.capacity[r].load = p.capacity[r].load
    BY <1>1, <1>3, <2>2, <2>3
  <2>5. LoadOf(x.capacity, U) = LoadOf(p.capacity, U)
    BY <2>1, <2>4, LoadSame
  <2> QED
    BY <2>5 DEF U
<1> QED
  BY <1>5, <1>6, <1>7, <1>8 DEF p

\* All but the index of a pruned state is what it was.
LEMMA PruneSteady ==
    ASSUME NEW T \in Int, NEW x, Steady(T, x), NEW at \in Int, at <= T
    PROVE  /\ Steady(T, Prune(x, at)) /\ Kept(x, Prune(x, at), {"capacity", "used", "indexed"})
           /\ Marked(x) => Marked(Prune(x, at))
<1> DEFINE p == Prune(x, at)
<1>1. DOMAIN x = Fields /\ Index(T, x) /\ Tables(x)
  BY DEF Steady, Tables
<1>2. Kept(x, p, {"capacity", "used", "indexed"})
  BY <1>1, PruneKeeps
<1>3. /\ DOMAIN p.capacity \subseteq DOMAIN x.capacity
  BY <1>1, PruneDomain
<1>4. Index(T, p)
  BY <1>1, PruneIndexed
<1> HIDE DEF p
<1>5. \A f \in Fields \ {"capacity", "used", "indexed"} : p[f] = x[f]
  BY <1>2 DEF Kept
<1>6. /\ p.refused = x.refused /\ p.status = x.status /\ p.now = x.now /\ p.cursor = x.cursor
      /\ p.site = x.site /\ p.servers = x.servers /\ p.dbs = x.dbs /\ p.growth = x.growth
      /\ p.conns = x.conns /\ p.counts = x.counts /\ p.backups = x.backups /\ p.rules = x.rules
      /\ p.attacks = x.attacks /\ p.firewallDown = x.firewallDown
      /\ p.backendDown = x.backendDown /\ p.ops = x.ops
  BY <1>5 DEF Fields
<1>7. Tables(p)
  <2>1. IsFiniteSet(DOMAIN x["capacity"])
    BY <1>1 DEF Tables
  <2>2. IsFiniteSet(DOMAIN p["capacity"])
    BY <1>3, <2>1, FS_Subset
  <2>3. /\ IsFiniteSet(DOMAIN x["servers"]) /\ IsFiniteSet(DOMAIN x["growth"])
        /\ IsFiniteSet(DOMAIN x["conns"]) /\ IsFiniteSet(DOMAIN x["backups"])
        /\ IsFiniteSet(DOMAIN x["rules"])
    BY <1>1 DEF Tables
  <2>4. DOMAIN p = Fields
    BY <1>2 DEF Kept
  <2> QED
    BY <1>1, <1>6, <2>2, <2>3, <2>4 DEF Tables
<1>8. DependenciesUp(p) = DependenciesUp(x)
  BY <1>6 DEF DependenciesUp
<1>9. Named(p)
  BY <1>3, <1>6 DEF Steady, Named, Seen
<1>10. Attacked(p) /\ Ruled(p)
  BY <1>6 DEF Steady, Attacked, Ruled
<1>11. Placed(p) /\ Connected(p)
  BY <1>6 DEF Steady, Placed, Connected, ConnectionsOf
<1>12. Faulted(p)
  BY <1>6, <1>8 DEF Steady, Faulted
<1>13. Marked(x) => Marked(p)
  BY <1>6 DEF Marked
<1> QED
  BY <1>2, <1>4, <1>7, <1>9, <1>10, <1>11, <1>12, <1>13 DEF Steady, p

LEMMA TrimSettles ==
    ASSUME NEW x, NEW es, NEW t, Landed(x, es, t)
    PROVE  Settled(Trim(t)) /\ Trim(t).cursor = t.cursor /\ Trim(t).now = t.now
<1> DEFINE p == Prune(t, t.now)
           T == t.now
<1>1. /\ T \in Nat /\ T <= EndsAt /\ Sound(T, t) /\ ~t.refused /\ t.indexed <= T
      /\ Current(t, T) /\ (Running(t) => T < EndsAt)
  BY DEF Landed
<1>2. Steady(T, t) /\ Marked(t) /\ DOMAIN t = Fields /\ Index(T, t) /\ T \in Int
  BY <1>1 DEF Sound, Steady, Tables
<1>3. Steady(T, p) /\ Marked(p) /\ Kept(t, p, {"capacity", "used", "indexed"})
  BY <1>2, PruneSteady
<1>4. p.indexed = T
  BY <1>1, <1>2, PruneIndexed
<1>5. \A i \in Servers : UsedCapacity(p, i, T) = UsedCapacity(t, i, T)
  BY <1>2, PruneUse
<1> HIDE DEF p
<1>6. \A f \in Fields \ {"capacity", "used", "indexed"} : p[f] = t[f]
  BY <1>3 DEF Kept
<1>7. /\ p.refused = t.refused /\ p.status = t.status /\ p.now = T /\ p.cursor = t.cursor
      /\ p.site = t.site /\ p.servers = t.servers /\ p.dbs = t.dbs
      /\ p.conns = t.conns /\ p.rules = t.rules
      /\ p.attacks = t.attacks /\ p.firewallDown = t.firewallDown
      /\ p.backendDown = t.backendDown /\ p.ops = t.ops
  BY <1>6 DEF Fields
<1>8. DOMAIN t.servers \subseteq Servers
  BY <1>2 DEF Steady, Placed
<1>9. StarvedPages(p, T) = StarvedPages(t, T)
  <2>1. SameSupply(t, p)
    BY <1>7 DEF SameSupply
  <2>2. SameUse(t, p, T)
    BY <1>5, <1>8 DEF SameUse
  <2> QED
    BY <2>1, <2>2, StarvedSame
<1>10. Waits(p, T)
  <2>1. Waits(t, T)
    BY <1>1 DEF Current
  <2> QED
    BY <1>7, <2>1, WaitsSame
<1>11. \A i \in WithStatus(p, "draining") : HasLoad(p, i, T)
  <2>1. \A i \in WithStatus(t, "draining") : HasLoad(t, i, T)
    BY <1>1 DEF Current
  <2>2. WithStatus(p, "draining") = WithStatus(t, "draining")
    BY <1>7 DEF WithStatus
  <2>3. WithStatus(t, "draining") \subseteq Servers
    BY <1>8 DEF WithStatus
  <2> QED
    BY <1>5, <2>1, <2>2, <2>3 DEF HasLoad
<1>12. Current(p, T)
  BY <1>1, <1>7, <1>9, <1>10, <1>11 DEF Current
<1>13. Running(p) => T < EndsAt
  BY <1>1, <1>7 DEF Running
<1>14. Settled(p)
  BY <1>1, <1>3, <1>4, <1>7, <1>12, <1>13 DEF Settled, Sound
<1> QED
  BY <1>7, <1>14 DEF Trim, p
----------------------------------------------------------------------------
(* A command other than an advance: its draft begins where the run stands   *)

OnCommand(x) ==
  [y |-> x, T |-> x.now, fired |-> FirstItems(x.cursor), over |-> TRUE, cursor |-> x.cursor,
   rules |-> x.rules, down |-> x.firewallDown, ops |-> x.ops, roles |-> Roles(x.servers),
   passed |-> x.now]

LEMMA DraftTracked ==
    ASSUME NEW x, Settled(x)
    PROVE  /\ Draftlike(Draft(x)) /\ Draft(x).st = x /\ Draft(x).out = <<>>
           /\ Tracks(OnCommand(x), x.now, Draft(x))
           /\ Tracked(OnCommand(x), x.now, Draft(x))
           /\ OnCommand(x).T = x.now /\ OnCommand(x).over = TRUE
<1> DEFINE w == Draft(x)
           c == OnCommand(x)
<1>1. /\ x.now \in Nat /\ Steady(x.now, x) /\ Marked(x) /\ ~x.refused /\ x.indexed = x.now
      /\ Current(x, x.now)
  BY DEF Settled, Sound
<1>2. Tables(x) /\ DOMAIN x = Fields
  BY <1>1 DEF Steady, Tables
<1>3. w.st = x /\ w.out = <<>> /\ DOMAIN w = {"st", "out"} /\ w = [f \in DOMAIN w |-> w[f]]
  BY DEF Draft
<1>4. /\ c.y = x /\ c.T = x.now /\ c.fired = FirstItems(x.cursor) /\ c.over = TRUE
      /\ c.cursor = x.cursor /\ c.rules = x.rules /\ c.down = x.firewallDown /\ c.ops = x.ops
      /\ c.roles = Roles(x.servers) /\ c.passed = x.now
  BY DEF OnCommand
<1> HIDE DEF w, c
<1>5. Draftlike(w)
  BY <1>2, <1>3, ListedLiterals DEF Draftlike
<1>6. ApplyAll(x, <<>>) = x
  BY ApplyAllNone
<1>7. FoldLeft(Occurs, FirstItems(x.cursor), <<>>) = FirstItems(x.cursor)
  BY OccursNone, ListedLiterals
<1>8. Holds(c, x)
  BY <1>4 DEF Holds
<1>9. Alike(x, x)
  BY <1>2, AlikeSelf
<1>10. Bears(c, x.now, w)
  BY <1>1, <1>3, <1>4, <1>5, <1>6, <1>7, <1>8, <1>9 DEF Bears
<1>11. Stops(c, w)
  BY <1>1, <1>3, <1>4 DEF Stops, StopEnded, Current
<1>12. Tracks(c, x.now, w)
  BY <1>1, <1>3, <1>10, <1>11 DEF Tracks
<1> QED
  BY <1>3, <1>4, <1>5, <1>12, TracksAt DEF w, c

\* A draft that tracks the journal and leaves the state current lands.
LEMMA CommandLands ==
    ASSUME NEW x, Settled(x), Running(x), NEW w, Tracked(OnCommand(x), x.now, w),
           ~w.st.refused, Current(w.st, x.now)
    PROVE  Landed(x, w.out, ApplyAll(x, w.out))
<1> DEFINE t == ApplyAll(x, w.out)
           c == OnCommand(x)
           a == At(c, w.st)
           T == x.now
<1>1. x.now \in Nat /\ x.now < EndsAt /\ EndsAt \in Nat
  BY ScheduleAssumption DEF Settled
<1>2. c.y = x /\ c.T = T /\ c.fired = FirstItems(x.cursor)
  BY DEF OnCommand
<1> HIDE DEF c
<1>3. Tracks(a, T, w) /\ a.T = T /\ a.y = x /\ a.fired = FirstItems(x.cursor)
      /\ a.cursor = w.st.cursor
  BY <1>2, AtFields DEF Tracked, c
<1> HIDE DEF a
<1>4. /\ Steady(T, w.st) /\ Marked(w.st) /\ Alike(w.st, t) /\ t.now = T
      /\ w.st.indexed <= T /\ Listed(w.out)
      /\ FoldLeft(Occurs, FirstItems(x.cursor), w.out) = FirstItems(w.st.cursor)
  BY <1>3 DEF Tracks, Bears, Draftlike
<1>5. t = ApplyAll(x, w.out)
  OBVIOUS
<1> HIDE DEF t
<1>6. Sound(T, t) /\ Current(t, T)
  BY <1>4, SoundAlike, CurrentAlike DEF Sound
<1>7. /\ t.refused = w.st.refused /\ t.cursor = w.st.cursor /\ t.indexed = w.st.indexed
  BY <1>4, SameFields
<1>8. Landed(x, w.out, t)
  BY <1>1, <1>4, <1>5, <1>6, <1>7 DEF Landed
<1> QED
  BY <1>8 DEF t

----------------------------------------------------------------------------
(* What an event leaves as it was                                           *)

\* Nothing has been released, and nothing is used less.
Calm(x, t) ==
  /\ DOMAIN t = Fields /\ DOMAIN t.site = SiteFields
  /\ t.now = x.now /\ t.cursor = x.cursor /\ t.indexed = x.indexed
  /\ t.used \in [Servers -> Nat] /\ \A i \in Servers : x.used[i] <= t.used[i]
  /\ DOMAIN x.conns \subseteq DOMAIN t.conns
CalmTypes == KnownTypes \ (ScheduleTypes \cup {"TimeAdvanced", "PageRequestStarted",
                                               "DatabaseConnectionReleased"})

LEMMA CalmSelf ==
    ASSUME NEW x, NEW T \in Int, Steady(T, x)
    PROVE  Calm(x, x)
<1>1. DOMAIN x = Fields /\ DOMAIN x.site = SiteFields /\ Index(T, x)
  BY DEF Steady, Tables, Placed
<1>2. x.used = [i \in Servers |-> LoadOf(x.capacity, OnServer(x.capacity, i))] /\ x.indexed \in Int
  BY <1>1 DEF Index
<1>3. \A i \in Servers : x.used[i] \in Nat
  BY <1>1, <1>2, UsedNow
<1>4. x.used \in [Servers -> Nat]
  BY <1>2, <1>3
<1> QED
  BY <1>1, <1>3, <1>4 DEF Calm

LEMMA CalmOn ==
    ASSUME NEW x, NEW y, NEW z, Calm(x, y), Calm(y, z), x.used \in [Servers -> Nat]
    PROVE  Calm(x, z)
  BY DEF Calm

LEMMA CalmStep ==
    ASSUME NEW x, DOMAIN x = Fields, DOMAIN x.site = SiteFields, x.used \in [Servers -> Nat],
           NEW e, e.type \in CalmTypes, e.type = "PageRequestAccepted" => e.page \in Pages,
           NEW t \in Handled(x, e)
    PROVE  Calm(x, t)
<1>1. DOMAIN t = Fields /\ DOMAIN t.site = SiteFields
  BY SiteStep, GroupKeeps, UnknownRefused DEF SiteChange, Kept, KnownTypes
<1>2. t.now = x.now /\ t.cursor = x.cursor /\ t.indexed = x.indexed
  BY TypeKeeps DEF Kept, Fields, CalmTypes, KnownTypes, ScheduleTypes, TimeTypes, CostTypes,
     OperationTypes, ServerTypes, PageTypes, TrafficTypes, FirewallTypes, DatabaseTypes,
     StorageTypes, MigrationTypes
<1>3. DOMAIN x.conns \subseteq DOMAIN t.conns
  <2>1. CASE e.type = "DatabaseConnectionOpened"
    <3> DEFINE row == [db |-> e.db, until |-> e.until]
               conns == x.conns
    <3>1. t.conns = DatabaseConnectionOpenedConns(x, e)
      BY <2>1, DatabaseConnectionOpenedEffect
    <3>2. DatabaseConnectionOpenedConns(x, e) = Put(conns, e.request, row)
      BY DEF DatabaseConnectionOpenedConns
    <3> HIDE DEF row, conns
    <3>3. DOMAIN t.conns = DOMAIN conns \cup {e.request}
      BY <3>1, <3>2, PutDomain
    <3> QED
      BY <3>3 DEF conns
  <2>2. CASE e.type # "DatabaseConnectionOpened"
    BY <2>2, TypeKeeps DEF Kept, Fields, CalmTypes, KnownTypes, ScheduleTypes, TimeTypes, CostTypes,
       OperationTypes, ServerTypes, PageTypes, TrafficTypes, FirewallTypes, DatabaseTypes,
       StorageTypes, MigrationTypes
  <2> QED
    BY <2>1, <2>2
<1>4. t.used \in [Servers -> Nat] /\ \A i \in Servers : x.used[i] <= t.used[i]
  <2>1. CASE e.type = "PageRequestAccepted"
    <3>1. t.used = PageRequestAcceptedUsed(x, e)
      BY <2>1, PageRequestAcceptedEffect
    <3> DEFINE used == x.used
               load == Load[e.page]
    <3>2. load \in Nat
      BY <2>1, PagesAssumption
    <3>3. t.used = [used EXCEPT ![e.server] = used[e.server] + load]
      BY <3>1 DEF PageRequestAcceptedUsed
    <3>4. used \in [Servers -> Nat]
      OBVIOUS
    <3> HIDE DEF used, load
    <3>5. t.used \in [Servers -> Nat] /\ \A i \in Servers : used[i] <= t.used[i]
      <4>1. DOMAIN t.used = Servers /\ \A i \in Servers \ {e.server} : t.used[i] = used[i]
        BY <3>3, <3>4
      <4>2. e.server \in Servers => t.used[e.server] = used[e.server] + load
        BY <3>3, <3>4
      <4>3. \A i \in Servers : t.used[i] \in Nat /\ used[i] <= t.used[i]
        <5> SUFFICES ASSUME NEW i \in Servers PROVE t.used[i] \in Nat /\ used[i] <= t.used[i]
          OBVIOUS
        <5>1. used[i] \in Nat
          BY <3>4
        <5>2. CASE i = e.server
          BY <3>2, <4>2, <5>1, <5>2
        <5>3. CASE i # e.server
          BY <4>1, <5>1, <5>3
        <5> QED
          BY <5>2, <5>3
      <4>4. t.used = [i \in Servers |-> t.used[i]]
        BY <3>3, <3>4, <4>1
      <4> QED
        BY <4>3, <4>4
    <3> QED
      BY <3>5 DEF used
  <2>2. CASE e.type # "PageRequestAccepted"
    <3>1. t.used = x.used
      BY <2>2, TypeKeeps DEF Kept, Fields, CalmTypes, KnownTypes, ScheduleTypes, TimeTypes,
         CostTypes, OperationTypes, ServerTypes, PageTypes, TrafficTypes, FirewallTypes,
         DatabaseTypes, StorageTypes, MigrationTypes
    <3> QED
      BY <3>1
  <2> QED
    BY <2>1, <2>2
<1> QED
  BY <1>1, <1>2, <1>3, <1>4 DEF Calm

\* A list of such events.
CalmList(es) ==
  \A k \in 1..Len(es) : /\ es[k].type \in CalmTypes
                        /\ es[k].type = "PageRequestAccepted" => es[k].page \in Pages
LEMMA CalmAll ==
    ASSUME NEW x, NEW T \in Int, Steady(T, x), NEW es, Listed(es), CalmList(es),
           ~ApplyAll(x, es).refused
    PROVE  Calm(x, ApplyAll(x, es))
<1>1. DOMAIN x = Fields /\ Calm(x, x) /\ x.used \in [Servers -> Nat]
  BY CalmSelf DEF Steady, Tables, Calm
<1>2. Len(es) \in Nat
  BY ListedDomain
<1>3. PICK g : Follows(g, x, es)
  BY ApplyAllFollows
<1>4. g[0] = x /\ ApplyAll(x, es) = g[Len(es)]
  BY <1>3 DEF Follows
<1>5. \A k \in 1..Len(es) : g[k] \in Handled(g[k - 1], es[k])
  BY <1>1, <1>3, <1>4, Unrefused
<1> DEFINE S == {k \in Nat : k <= Len(es) => Calm(x, g[k])}
<1>6. 0 \in S
  BY <1>1, <1>4
<1>7. ASSUME NEW n \in Nat, n \in S
      PROVE  n + 1 \in S
  <2> SUFFICES ASSUME n + 1 <= Len(es) PROVE Calm(x, g[n + 1])
    OBVIOUS
  <2>1. Calm(x, g[n])
    BY <1>2, <1>7
  <2>2. n + 1 \in 1..Len(es) /\ (n + 1) - 1 = n
    BY <1>2
  <2>3. g[n + 1] \in Handled(g[n], es[n + 1])
    BY <1>5, <2>2
  <2>4. es[n + 1].type \in CalmTypes
        /\ (es[n + 1].type = "PageRequestAccepted" => es[n + 1].page \in Pages)
    BY <2>2 DEF CalmList
  <2>5. /\ DOMAIN g[n] = Fields /\ DOMAIN g[n].site = SiteFields
        /\ g[n].used \in [Servers -> Nat]
    BY <2>1 DEF Calm
  <2>6. Calm(g[n], g[n + 1])
    BY <2>3, <2>4, <2>5, CalmStep
  <2> QED
    BY <1>1, <2>1, <2>6, CalmOn
<1> HIDE DEF S
<1>8. Len(es) \in S
  BY <1>2, <1>6, <1>7, Events!SetInduction
<1> QED
  BY <1>2, <1>4, <1>8 DEF S
----------------------------------------------------------------------------
(* Which pages are starved depends on the active backends alone             *)

LEMMA DiskFullPlaced ==
    ASSUME NEW x, NEW y, Placed(x), Placed(y), NEW i, Backend(i),
           y.servers[i].logs = x.servers[i].logs
    PROVE  DiskFull(y, i) = DiskFull(x, i)
<1>1. i \notin DOMAIN x.dbs /\ i \notin DOMAIN y.dbs
  BY DEF Placed, Backend
<1>2. FreeDisk(y, i) = FreeDisk(x, i)
  BY <1>1 DEF FreeDisk
<1> QED
  BY <1>2 DEF DiskFull

\* The same backends are active, with as much on them.
SameFleet(x, y, t) ==
  /\ ActiveBackends(y) = ActiveBackends(x)
  /\ \A i \in ActiveBackends(x) : /\ y.servers[i].logs = x.servers[i].logs
                                  /\ UsedCapacity(y, i, t) = UsedCapacity(x, i, t)
  /\ y.attacks = x.attacks /\ y.rules = x.rules

LEMMA StarvedPlaced ==
    ASSUME NEW x, NEW y, Placed(x), Placed(y), NEW t, SameFleet(x, y, t)
    PROVE  StarvedPages(y, t) = StarvedPages(x, t)
<1>1. ActiveBackends(y) = ActiveBackends(x) /\ y.attacks = x.attacks /\ y.rules = x.rules
  BY DEF SameFleet
<1>2. \A i \in ActiveBackends(x) : Backend(i)
  BY DEF ActiveBackends
<1>3. \A i \in ActiveBackends(x) : DiskFull(y, i) = DiskFull(x, i)
  BY <1>2, DiskFullPlaced DEF SameFleet
<1>4. {i \in ActiveBackends(y) : ~DiskFull(y, i)} = {i \in ActiveBackends(x) : ~DiskFull(x, i)}
  BY <1>1, <1>3
<1>5. \A p : Denied(y, p, t) = Denied(x, p, t)
  <2> TAKE p
  <2>1. Matching(y, p, t) = Matching(x, p, t)
    BY <1>1 DEF Matching
  <2>2. Deciding(y, p, t) = Deciding(x, p, t)
    BY <1>1, <2>1 DEF Deciding
  <2> QED
    BY <1>1, <2>2 DEF Denied
<1>6. \A p : AttackLoad(y, p, t) = AttackLoad(x, p, t)
  <2> TAKE p
  <2>1. {a \in DOMAIN y.attacks : /\ y.attacks[a].page = p
                                  /\ ~Denied(y, y.attacks[a].profile, t)}
         = {a \in DOMAIN x.attacks : /\ x.attacks[a].page = p
                                     /\ ~Denied(x, x.attacks[a].profile, t)}
    BY <1>1, <1>5
  <2> QED
    BY <1>1, <1>4, <2>1 DEF AttackLoad
<1>7. \A i \in ActiveBackends(x) : \A p : FreeCapacity(y, i, p, t) = FreeCapacity(x, i, p, t)
  <2> SUFFICES ASSUME NEW i \in ActiveBackends(x), NEW p
               PROVE  FreeCapacity(y, i, p, t) = FreeCapacity(x, i, p, t)
    OBVIOUS
  <2>1. UsedCapacity(y, i, t) = UsedCapacity(x, i, t)
    BY DEF SameFleet
  <2>2. DiskFull(y, i) = DiskFull(x, i)
    BY <1>3
  <2>3. AttackLoad(y, p, t) = AttackLoad(x, p, t)
    BY <1>6
  <2> QED
    BY <1>1, <2>1, <2>2, <2>3 DEF FreeCapacity
<1> QED
  BY <1>1, <1>7 DEF StarvedPages

----------------------------------------------------------------------------
(* All that a settled state has but the backends' verdict                   *)

Nearly(x, T) ==
  /\ x.now = T /\ CursorAt(x.cursor, T)
  /\ x.firewallDown = Denying(x.rules, T)
  /\ Waits(x, T)
  /\ \A i \in WithStatus(x, "draining") : HasLoad(x, i, T)
  /\ x.site.status = "stopping" => x.site.op = SiteStop /\ DOMAIN x.conns # {}
  /\ SiteStop \in x.ops <=> x.site.status = "stopping"

LEMMA NearlyCurrent ==
    ASSUME NEW x, NEW T
    PROVE  Current(x, T) <=> Nearly(x, T) /\ x.backendDown = (StarvedPages(x, T) # {})
  BY DEF Current, Nearly

\* Once the backends' verdict is noted, the state is current.
LEMMA RecordLands ==
    ASSUME NEW x, Settled(x), Running(x), NEW w, Tracked(OnCommand(x), x.now, w),
           w.st.now = x.now, ~w.st.refused => Nearly(w.st, x.now),
           NEW d, d = Drafted(RecordBackends(w, x.now)), d.ok
    PROVE  Landed(x, d.events, ApplyAll(x, d.events))
<1> DEFINE c == OnCommand(x)
           T == x.now
           v == RecordBackends(w, T)
           y == w.st
           z == v.st
           out == v.out
<1>1. T \in Int /\ c.T = T
  BY DEF Settled, OnCommand
<1> HIDE DEF c
<1>2. /\ Tracked(c, T, v)
      /\ ~z.refused => ~y.refused /\ Noted(y, z, T)
  <2>1. Tracked(c, T, w)
    BY DEF c
  <2>2. RecordBackends(w, c.T) = v
    BY <1>1
  <2> HIDE DEF v, T
  <2> QED
    BY <1>1, <2>1, <2>2, RecordBackendsTracked DEF T
<1>3. ~z.refused /\ d.events = out
  <2>1. d = Guarded(~z.refused, out)
    BY DEF Drafted
  <2> HIDE DEF z, out, v
  <2> QED
    BY <2>1 DEF Guarded, Rejected
<1> HIDE DEF v
<1>4. Nearly(y, T) /\ Noted(y, z, T)
  BY <1>2, <1>3
<1> HIDE DEF y, z, T
<1>5. /\ z.now = y.now /\ z.cursor = y.cursor /\ z.conns = y.conns /\ z.capacity = y.capacity
      /\ z.used = y.used /\ z.indexed = y.indexed /\ z.rules = y.rules
      /\ z.firewallDown = y.firewallDown /\ z.servers = y.servers /\ z.ops = y.ops
      /\ SameSite(z.site, y.site) /\ z.backendDown = (StarvedPages(z, T) # {})
  BY <1>4 DEF Noted, Quiet
<1>6. Waits(z, T)
  BY <1>4, <1>5, WaitsSame DEF Nearly
<1>7. \A i \in WithStatus(z, "draining") : HasLoad(z, i, T)
  BY <1>4, <1>5, LoadedSame DEF Nearly
<1>8. Current(z, T)
  BY <1>4, <1>5, <1>6, <1>7 DEF Nearly, Current, SameSite
<1>9. Landed(x, v.out, ApplyAll(x, v.out))
  BY <1>2, <1>3, <1>8, CommandLands DEF c, z, T
<1> QED
  BY <1>3, <1>9 DEF out

\* A decision that returns its events as they are.
LEMMA PlainLands ==
    ASSUME NEW x, Settled(x), Running(x), NEW es, Listed(es),
           Tracked(OnCommand(x), x.now, Emit(Draft(x), es)),
           ~Emit(Draft(x), es).st.refused, Current(Emit(Draft(x), es).st, x.now)
    PROVE  Landed(x, es, ApplyAll(x, es))
<1> DEFINE w == Emit(Draft(x), es)
<1>1. Landed(x, w.out, ApplyAll(x, w.out))
  BY CommandLands
<1>2. w.out = <<>> \o es
  <2> DEFINE u == Draft(x)
  <2>1. Draftlike(u) /\ u.out = <<>>
    BY DraftTracked
  <2> HIDE DEF u
  <2>2. Emit(u, es).out = u.out \o es
    BY <2>1, EmitFields
  <2> QED
    BY <2>1, <2>2 DEF u
<1>3. <<>> \o es = es
  <2>1. PICK S : es \in Seq(S)
    BY DEF Listed
  <2> QED
    BY <2>1, ConcatEmptySeq
<1> QED
  BY <1>1, <1>2, <1>3

----------------------------------------------------------------------------
(* Events that disturb nothing of it                                        *)

Undisturbed(x, t) ==
  /\ Calm(x, t) /\ t.rules = x.rules /\ t.firewallDown = x.firewallDown /\ t.ops = x.ops
  /\ Roles(t.servers) = Roles(x.servers) /\ SameSite(t.site, x.site)
  /\ Rows(t.servers, ServerFields)
UndisturbedTypes ==
  CalmTypes \ (ContextTypes \cup {"SiteStopStarted", "SiteStopped", "SiteDatabaseChanged",
                                  "SiteStarted", "RunEnded", "InfrastructureCostAccrued"})

LEMMA UndisturbedSelf ==
    ASSUME NEW x, NEW T \in Int, Steady(T, x)
    PROVE  Undisturbed(x, x)
<1>1. Calm(x, x)
  BY CalmSelf
<1>2. Rows(x.servers, ServerFields) /\ DOMAIN x.site = SiteFields
  BY DEF Steady, Tables, Placed
<1> QED
  BY <1>1, <1>2 DEF Undisturbed, SameSite

LEMMA UndisturbedOn ==
    ASSUME NEW x, NEW y, NEW z, Undisturbed(x, y), Undisturbed(y, z), x.used \in [Servers -> Nat]
    PROVE  Undisturbed(x, z)
<1>1. Calm(x, z)
  BY CalmOn DEF Undisturbed
<1> QED
  BY <1>1 DEF Undisturbed, SameSite

LEMMA UndisturbedStep ==
    ASSUME NEW x, DOMAIN x = Fields, DOMAIN x.site = SiteFields, x.used \in [Servers -> Nat],
           Rows(x.servers, ServerFields),
           NEW e, e.type \in UndisturbedTypes, e.type = "PageRequestAccepted" => e.page \in Pages,
           NEW t \in Handled(x, e)
    PROVE  Undisturbed(x, t)
<1>1. e.type \in CalmTypes /\ e.type \notin ContextTypes
  BY DEF UndisturbedTypes
<1>2. Calm(x, t)
  BY <1>1, CalmStep
<1>3. Roles(t.servers) = Roles(x.servers) /\ Rows(t.servers, ServerFields)
  BY <1>1, RolesStep, RowsKept
<1>4. SameSite(t.site, x.site)
  BY SiteStep DEF SiteChange, UndisturbedTypes
<1>5. t.rules = x.rules /\ t.firewallDown = x.firewallDown /\ t.ops = x.ops
  BY <1>1, TypeKeeps DEF Kept, Fields, CalmTypes, ContextTypes, KnownTypes, ScheduleTypes,
     TimeTypes, CostTypes, OperationTypes, ServerTypes, PageTypes, TrafficTypes, FirewallTypes,
     DatabaseTypes, StorageTypes, MigrationTypes
<1> QED
  BY <1>2, <1>3, <1>4, <1>5 DEF Undisturbed

UndisturbedList(es) ==
  \A k \in 1..Len(es) : /\ es[k].type \in UndisturbedTypes
                        /\ es[k].type = "PageRequestAccepted" => es[k].page \in Pages
LEMMA UndisturbedAll ==
    ASSUME NEW x, NEW T \in Int, Steady(T, x), NEW es, Listed(es), UndisturbedList(es),
           ~ApplyAll(x, es).refused
    PROVE  Undisturbed(x, ApplyAll(x, es))
<1>1. DOMAIN x = Fields /\ Undisturbed(x, x) /\ x.used \in [Servers -> Nat]
  BY UndisturbedSelf, CalmSelf DEF Steady, Tables, Calm
<1>2. Len(es) \in Nat
  BY ListedDomain
<1>3. PICK g : Follows(g, x, es)
  BY ApplyAllFollows
<1>4. g[0] = x /\ ApplyAll(x, es) = g[Len(es)]
  BY <1>3 DEF Follows
<1>5. \A k \in 1..Len(es) : g[k] \in Handled(g[k - 1], es[k])
  BY <1>1, <1>3, <1>4, Unrefused
<1> DEFINE S == {k \in Nat : k <= Len(es) => Undisturbed(x, g[k])}
<1>6. 0 \in S
  BY <1>1, <1>4
<1>7. ASSUME NEW n \in Nat, n \in S
      PROVE  n + 1 \in S
  <2> SUFFICES ASSUME n + 1 <= Len(es) PROVE Undisturbed(x, g[n + 1])
    OBVIOUS
  <2>1. Undisturbed(x, g[n])
    BY <1>2, <1>7
  <2>2. n + 1 \in 1..Len(es) /\ (n + 1) - 1 = n
    BY <1>2
  <2>3. g[n + 1] \in Handled(g[n], es[n + 1])
    BY <1>5, <2>2
  <2>4. es[n + 1].type \in UndisturbedTypes
        /\ (es[n + 1].type = "PageRequestAccepted" => es[n + 1].page \in Pages)
    BY <2>2 DEF UndisturbedList
  <2>5. /\ DOMAIN g[n] = Fields /\ DOMAIN g[n].site = SiteFields
        /\ g[n].used \in [Servers -> Nat] /\ Rows(g[n].servers, ServerFields)
    BY <2>1 DEF Undisturbed, Calm
  <2>6. Undisturbed(g[n], g[n + 1])
    BY <2>3, <2>4, <2>5, UndisturbedStep
  <2> QED
    BY <1>1, <2>1, <2>6, UndisturbedOn
<1> HIDE DEF S
<1>8. Len(es) \in S
  BY <1>2, <1>6, <1>7, Events!SetInduction
<1> QED
  BY <1>2, <1>4, <1>8 DEF S

LEMMA CalmLoad ==
    ASSUME NEW x, NEW t, Calm(x, t), x.used \in [Servers -> Nat], NEW i \in Servers,
           HasLoad(x, i, x.indexed)
    PROVE  HasLoad(t, i, x.indexed)
<1>1. t.indexed = x.indexed /\ x.used[i] \in Nat /\ t.used[i] \in Nat /\ x.used[i] <= t.used[i]
  BY DEF Calm
<1>2. UsedCapacity(x, i, x.indexed) = x.used[i] /\ UsedCapacity(t, i, x.indexed) = t.used[i]
  BY <1>1 DEF UsedCapacity
<1> QED
  BY <1>1, <1>2 DEF HasLoad

LEMMA WaitsByRoles ==
    ASSUME NEW x, NEW T, Waits(x, T), NEW y, Roles(y.servers) = Roles(x.servers), y.ops = x.ops
    PROVE  Waits(y, T)
<1>1. /\ DOMAIN y.servers = DOMAIN x.servers
      /\ \A i \in DOMAIN x.servers :
           /\ y.servers[i].status = x.servers[i].status
           /\ y.servers[i].ready = x.servers[i].ready
  <2>1. /\ DOMAIN Roles(y.servers) = DOMAIN y.servers /\ DOMAIN Roles(x.servers) = DOMAIN x.servers
        /\ \A i \in DOMAIN x.servers :
             Roles(x.servers)[i] = <<x.servers[i].status, x.servers[i].op, x.servers[i].ready>>
        /\ \A i \in DOMAIN y.servers :
             Roles(y.servers)[i] = <<y.servers[i].status, y.servers[i].op, y.servers[i].ready>>
    BY DEF Roles
  <2> QED
    BY <2>1
<1>2. Owes(y)
  BY OwesByRoles DEF Waits
<1> QED
  BY <1>1, <1>2 DEF Waits, WithStatus

LEMMA SameStatuses ==
    ASSUME NEW x, NEW y, Roles(y.servers) = Roles(x.servers)
    PROVE  \A st : WithStatus(y, st) = WithStatus(x, st)
<1>1. /\ DOMAIN Roles(y.servers) = DOMAIN y.servers /\ DOMAIN Roles(x.servers) = DOMAIN x.servers
      /\ \A i \in DOMAIN x.servers :
           Roles(x.servers)[i] = <<x.servers[i].status, x.servers[i].op, x.servers[i].ready>>
      /\ \A i \in DOMAIN y.servers :
           Roles(y.servers)[i] = <<y.servers[i].status, y.servers[i].op, y.servers[i].ready>>
  BY DEF Roles
<1>2. /\ DOMAIN y.servers = DOMAIN x.servers
      /\ \A i \in DOMAIN x.servers : y.servers[i].status = x.servers[i].status
  BY <1>1
<1> QED
  BY <1>2 DEF WithStatus

LEMMA NearlyCalm ==
    ASSUME NEW x, Settled(x), NEW t, Calm(x, t), t.ops = x.ops,
           Roles(t.servers) = Roles(x.servers), SameSite(t.site, x.site),
           t.firewallDown = Denying(t.rules, x.now)
    PROVE  Nearly(t, x.now)
<1> DEFINE T == x.now
<1>1. /\ Current(x, T) /\ x.indexed = T /\ Steady(T, x) /\ T \in Int
  BY DEF Settled, Sound
<1>2. DOMAIN x.servers \subseteq Servers /\ x.used \in [Servers -> Nat]
  BY <1>1, CalmSelf DEF Steady, Placed, Calm
<1>3. Calm(x, t) /\ Roles(t.servers) = Roles(x.servers) /\ t.ops = x.ops
  OBVIOUS
<1>4. Waits(t, T)
  BY <1>1, <1>3, WaitsByRoles DEF Current
<1>5. \A i \in WithStatus(t, "draining") : HasLoad(t, i, T)
  <2> SUFFICES ASSUME NEW i \in WithStatus(t, "draining") PROVE HasLoad(t, i, T)
    OBVIOUS
  <2>1. i \in WithStatus(x, "draining")
    BY <1>3, SameStatuses
  <2>2. HasLoad(x, i, T) /\ i \in Servers
    BY <1>1, <1>2, <2>1 DEF Current, WithStatus
  <2> QED
    BY <1>1, <1>2, <1>3, <2>2, CalmLoad
<1>6. t.now = T /\ t.cursor = x.cursor /\ DOMAIN x.conns \subseteq DOMAIN t.conns
  BY DEF Calm
<1> QED
  BY <1>1, <1>3, <1>4, <1>5, <1>6 DEF Nearly, Current, SameSite

LEMMA NearlyUndisturbed ==
    ASSUME NEW x, Settled(x), NEW t, Undisturbed(x, t)
    PROVE  Nearly(t, x.now)
<1>1. x.firewallDown = Denying(x.rules, x.now)
  BY DEF Settled, Current
<1> QED
  BY <1>1, NearlyCalm DEF Undisturbed
=============================================================================
