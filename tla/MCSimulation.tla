---------------------------- MODULE MCSimulation ----------------------------
(* Small worlds for TLC.  A visitor takes one unit of a backend's capacity    *)
(* for two units of time and a database connection for one (the code: seconds *)
(* and 100 ms).                                                               *)
EXTENDS Simulation

Small == [role |-> "backend", capacity |-> 2, disk |-> 2, limit |-> 0,
          hourly |-> 3, monthly |-> 0]
Cloud == [role |-> "backend", capacity |-> 2, disk |-> 2, limit |-> 0,
          hourly |-> 0, monthly |-> 7]
Database == [role |-> "database", capacity |-> 0, disk |-> 3, limit |-> 2,
             hourly |-> 0, monthly |-> 5]
Bigger == [Database EXCEPT !.disk = 6, !.limit = 3]

\* 1 is the first backend, 2 the database's server; 3 and 4 can be created.
Cloud3 == <<Small, Database, Cloud>>
Larger3 == <<Small, Database, Bigger>>
AllOne == [p \in Pages |-> 1]
AllTwo == [p \in Pages |-> 2]

Visitor(seq, at, visitor, product) ==
  [seq |-> seq, at |-> at, type |-> "VisitorArrived", visitor |-> visitor,
   product |-> product, profile |-> "visitor"]
Attack(seq, at, until) ==
  [seq |-> seq, at |-> at, type |-> "TrafficAttackStarted", attack |-> 1,
   page |-> "product_page", load |-> 1, profile |-> "attacker", until |-> until]
AttackEnd(seq, at) == [seq |-> seq, at |-> at, type |-> "TrafficAttackEnded", attack |-> 1]
Growth(seq, at, data, logs) ==
  [seq |-> seq, at |-> at, type |-> "DatabaseGrowthRequested", growth |-> seq,
   data |-> data, logs |-> logs]
DiskGrowth(seq, at, bytes) ==
  [seq |-> seq, at |-> at, type |-> "DiskLogsGrowthRequested", server |-> 1, bytes |-> bytes]

Traffic == <<Visitor(1, 1, 1, TRUE), Visitor(2, 2, 2, TRUE), Visitor(3, 2, 3, FALSE),
             Attack(4, 3, 5), Visitor(5, 3, 4, FALSE), AttackEnd(6, 5)>>
Disks == <<Growth(1, 1, 1, 0), Growth(2, 2, 1, 0), DiskGrowth(3, 2, 2), Growth(4, 3, 1, 1)>>

DenyAttack == [priority |-> 1, action |-> "deny", match |-> {"attacker"}, until |-> 4]
DenyAll == [priority |-> 2, action |-> "deny",
            match |-> {"attacker", "visitor", "control"}, until |-> 3]
AllowAll == [priority |-> 1, action |-> "allow", match |-> {"control"}, until |-> 2]
SomeRules == {DenyAttack, DenyAll, AllowAll}
AnyError == {{}}
SomeErrors == {{}, {"SERVER_CAPACITY_EXCEEDED"}}
=============================================================================
