---------------------------- MODULE MCRunManager ----------------------------
(* Scenarios for RunManager: which requests the clients may send, to which
   run, under which request_id. *)
EXTENDS RunManager

CONSTANTS r1, r2, q1, q2, q3, q4, s1, c1, c2, c3

OneRun == [x \in Requests \cup Starts |-> r1]
TwoRuns == [x \in Requests \cup Starts |-> IF x = q3 THEN r2 ELSE r1]

Four(a, b, c, d) ==
    [q \in Requests |-> CASE q = q1 -> a [] q = q2 -> b [] q = q3 -> c [] OTHER -> d]

\* An explicit advance, an inbox read and two commands of their own.
MixedKinds == Four("advance", "inbox", "create", "upsert")
MixedCommands == Four(c1, c1, c2, c3)

\* The same advance sent twice, and a read.
AdvanceTwice == Four("advance", "advance", "read", "read")
SameCommand == Four(c1, c1, c1, c1)

\* A server.create repeated, and the inbox.
CreateTwice == Four("create", "create", "inbox", "read")
\* One request_id for an upsert, its repeat, and for a server.create.
UpsertTwice == Four("upsert", "upsert", "create", "read")
\* One request_id for a server.create and for an advance, and the inbox.
CreateAndAdvance == Four("create", "advance", "inbox", "read")
Reads == Four("read", "read", "read", "read")
=============================================================================
