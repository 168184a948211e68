--------------------------- MODULE ServerCredentials ---------------------------
(***************************************************************************)
(* internal/application/server_credentials.go for one run: secrets live in *)
(* SQLite, their versions and windows in the journal.  A start with a      *)
(* session of its own and the requests of the run manager write both, one  *)
(* after the other, while expiry and scheduled rotations call for new      *)
(* versions.                                                               *)
(***************************************************************************)
EXTENDS Integers, Sequences

CONSTANTS
    Order,         \* the servers, as sort.Strings has them
    Initial,       \* those of the bootstrap; the others may be created
    Lifetime,      \* serverCredentialLifetime
    EndsAt,        \* Clock.EndsAt, the run starting at 0
    Rotations,     \* server -> when its scheduled rotations are due, in order
    Starts,        \* the starts under way at once
    None

Servers == {Order[i] : i \in DOMAIN Order}
Sessions == Starts \cup {"managed"}

ASSUME CredentialsAssumption ==
    /\ Order \in Seq(Servers) /\ Initial \subseteq Servers
    /\ Lifetime \in Nat \ {0} /\ EndsAt \in Nat \ {0}
    /\ Rotations \in [Servers -> Seq(1..EndsAt)]
    /\ \A s \in Servers : \A i, k \in DOMAIN Rotations[s] :
         i < k => Rotations[s][i] <= Rotations[s][k]

VARIABLES
    journal,       \* what the run is after each append; the first is WorldCreated
    rows,          \* server_credentials: <<server, version>> -> the window stored
    stage,            \* session -> where its caller is
    view,          \* session -> its State is that after this many appends
    cursor,        \* session -> index of the next server to ensure
    wanted         \* session -> the credential IssueServerCredential is given

credentialVars == <<journal, rows, stage, view, cursor, wanted>>

\* Of a State: the clock, the servers, and per server its credentials by
\* version, the last of them the current.
Created == [now |-> 0, existing |-> Initial, chain |-> [s \in Servers |-> <<>>]]

CredentialsInit ==
    /\ journal = <<Created>>
    /\ rows = <<>>
    /\ stage = [p \in Sessions |-> "idle"]
    /\ view = [p \in Sessions |-> 1]
    /\ cursor = [p \in Sessions |-> 1]
    /\ wanted = [p \in Sessions |-> None]

-----------------------------------------------------------------------------
(* What the events do to a State *)

Issued(s, version, window) ==
    [server |-> s, version |-> version, from |-> window.from, until |-> window.until]

Least(a, b) == IF a < b THEN a ELSE b
\* The window of a credential issued at a time; credentialValidityWindow leaves
\* a second to one that is rotated as the run ends.
Window(at) == [from |-> at, until |-> IF at < EndsAt THEN Least(at + Lifetime, EndsAt) ELSE at + 1]

Running(j) == j.now < EndsAt
Current(j, s) == j.chain[s][Len(j.chain[s])]

\* Mutant: superseding a credential leaves its window as it was.
UntilOwn(chain, k) == chain[k].until
\* ServerCredentialIssued ends the window of the version it supersedes.
Until(chain, k) == IF k < Len(chain) THEN chain[k + 1].from ELSE chain[k].until

\* What decideIssueServerCredential and Apply ask of a new version.
Accepts(j, e) ==
    /\ Running(j) /\ e.server \in j.existing
    /\ e.version = Len(j.chain[e.server]) + 1 /\ e.from < e.until /\ e.from >= j.now
    /\ e.version > 1 => e.from >= Current(j, e.server).from
WithCredential(j, e) == [j EXCEPT !.chain[e.server] = Append(@, e)]
WithServer(j, s) == [j EXCEPT !.existing = @ \cup {s}]

\* decideScheduledServerCredentialRotation at each rotation on the way to a
\* time; a server that is not there then has none.
Passed(s, t) ==
    CHOOSE n \in 0..Len(Rotations[s]) :
        \A i \in DOMAIN Rotations[s] : Rotations[s][i] <= t <=> i <= n
Rotated(j, s, to) ==
    LET done == Passed(s, j.now)
    IN  [k \in 1..(Passed(s, to) - done) |->
            Issued(s, Len(j.chain[s]) + k, Window(Rotations[s][done + k]))]
Advanced(j, to) ==
    [now |-> to, existing |-> j.existing,
     chain |-> [s \in Servers |->
                  IF s \in j.existing THEN j.chain[s] \o Rotated(j, s, to) ELSE j.chain[s]]]

-----------------------------------------------------------------------------
(* The sessions and ensureServerCredentials *)

State(p) == journal[view[p]]
Replayed == journal[Len(journal)]
MoveTo(p, position) == stage' = [stage EXCEPT ![p] = position]

\* Mutant: the journal takes events at any version.
UncontestedAlways(p) == TRUE
\* No ErrVersionConflict.
Uncontested(p) == view[p] = Len(journal)

\* RunSession.Execute appends what was decided on its State and applies it.
Execute(p, next) ==
    /\ Uncontested(p)
    /\ journal' = Append(journal, next)
    /\ view' = [view EXCEPT ![p] = Len(journal')]

\* The end of a call, well or not: a start drops its session, the run manager
\* keeps the run's.
Back(p) ==
    /\ MoveTo(p, "idle")
    /\ cursor' = [cursor EXCEPT ![p] = 1]
    /\ wanted' = [wanted EXCEPT ![p] = None]

\* OpenRunSession: by each start, and by the manager when it has none.
Open(p) ==
    /\ stage[p] = "idle"
    /\ view' = [view EXCEPT ![p] = Len(journal)]
    /\ MoveTo(p, IF p \in Starts THEN "ensure" ELSE "idle")
    /\ UNCHANGED <<journal, rows, cursor, wanted>>

\* Handle has charged the time that has passed; then the action begins, with
\* ensureServerCredentials where it needs credentials.
Request(to) ==
    /\ stage["managed"] = "idle"
    /\ \/ /\ Running(State("managed")) /\ State("managed").now < to
          /\ Execute("managed", Advanced(Replayed, to))
       \/ State("managed").now = to /\ UNCHANGED <<journal, view>>
    /\ \E next \in {"idle", "ensure"} : MoveTo("managed", next)
    /\ UNCHANGED <<rows, cursor, wanted>>

\* Mutant: a credential is used up to the moment it expires.
LiveToTheEnd(j, s) == j.chain[s] # <<>> /\ j.now <= Current(j, s).until
Live(j, s) == j.chain[s] # <<>> /\ j.now < Current(j, s).until

\* GetOrCreateServerCredential: INSERT OR IGNORE of a row with a new secret ...
RowOf(s, k) == <<s, k>> \in DOMAIN rows
Stored(s, k, window) ==
    rows' = [x \in DOMAIN rows \cup {<<s, k>>} |-> IF x \in DOMAIN rows THEN rows[x] ELSE window]
\* ... and "server credential identity conflict" unless the row is as wanted.
Agrees(s, k, window) == RowOf(s, k) => rows[<<s, k>>] = window

Identity(e) == [from |-> e.from, until |-> e.until]

\* A server with a live credential gets its row, if it has none yet.
EnsureRow(p) ==
    LET j == State(p)
        s == Order[cursor[p]]
        k == Len(j.chain[s])
    IN  /\ stage[p] = "ensure" /\ Running(j) /\ cursor[p] <= Len(Order)
        /\ s \in j.existing /\ Live(j, s)
        /\ Agrees(s, k, Identity(Current(j, s)))
        /\ Stored(s, k, Identity(Current(j, s)))
        /\ cursor' = [cursor EXCEPT ![p] = @ + 1]
        /\ UNCHANGED <<journal, stage, view, wanted>>

\* Any other gets a row for a new version, valid from now ...
DrawSecret(p) ==
    LET j == State(p)
        s == Order[cursor[p]]
        version == Len(j.chain[s]) + 1
        window == Window(j.now)
    IN  /\ stage[p] = "ensure" /\ Running(j) /\ cursor[p] <= Len(Order)
        /\ s \in j.existing /\ ~Live(j, s)
        /\ Agrees(s, version, window)
        /\ Stored(s, version, window)
        /\ wanted' = [wanted EXCEPT ![p] = Issued(s, version, window)]
        /\ MoveTo(p, "issue")
        /\ UNCHANGED <<journal, view, cursor>>

\* ... which the journal learns in a step of its own.
IssueServerCredential(p) ==
    /\ stage[p] = "issue"
    /\ Accepts(State(p), wanted[p])
    /\ Execute(p, WithCredential(Replayed, wanted[p]))
    /\ wanted' = [wanted EXCEPT ![p] = None]
    /\ cursor' = [cursor EXCEPT ![p] = @ + 1]
    /\ MoveTo(p, "ensure")
    /\ UNCHANGED rows

Skip(p) ==
    /\ stage[p] = "ensure" /\ Running(State(p)) /\ cursor[p] <= Len(Order)
    /\ Order[cursor[p]] \notin State(p).existing
    /\ cursor' = [cursor EXCEPT ![p] = @ + 1]
    /\ UNCHANGED <<journal, rows, stage, view, wanted>>

\* All servers have been seen to, or the run is over.
Ensured(p) ==
    /\ stage[p] = "ensure"
    /\ cursor[p] > Len(Order) \/ ~Running(State(p))
    /\ MoveTo(p, "ensured")
    /\ cursor' = [cursor EXCEPT ![p] = 1]
    /\ UNCHANGED <<journal, rows, view, wanted>>

\* server.create: AddTypedServer, and ensureServerCredentials once more.
CreateServer(s) ==
    /\ stage["managed"] = "ensured" /\ Running(State("managed"))
    /\ s \notin State("managed").existing
    /\ Execute("managed", WithServer(Replayed, s))
    /\ MoveTo("managed", "ensure")
    /\ UNCHANGED <<rows, cursor, wanted>>

\* The call returns; it fails on a conflict of either store, or anywhere else.
End(p) ==
    /\ stage[p] # "idle"
    /\ Back(p)
    /\ UNCHANGED <<journal, rows, view>>

Restart ==
    /\ stage' = [p \in Sessions |-> "idle"]
    /\ cursor' = [p \in Sessions |-> 1]
    /\ wanted' = [p \in Sessions |-> None]
    /\ view' = [p \in Sessions |-> Len(journal)]
    /\ UNCHANGED <<journal, rows>>

CredentialsNext ==
    \/ \E p \in Sessions :
         \/ Open(p) \/ EnsureRow(p) \/ DrawSecret(p) \/ IssueServerCredential(p)
         \/ Skip(p) \/ Ensured(p) \/ End(p)
    \/ \E to \in 0..EndsAt : Request(to)
    \/ \E s \in Servers : CreateServer(s)
    \/ Restart

CredentialsSpec == CredentialsInit /\ [][CredentialsNext]_credentialVars

-----------------------------------------------------------------------------
(* authenticateTarget *)

\* What the secret of version k may get: the versions are visited in no order,
\* and one without a row ends the visit.
Verdict(j, s, k) ==
    LET chain == j.chain[s]
    IN  IF j.now >= Until(chain, k) THEN "CREDENTIALS_EXPIRED"
        ELSE IF j.now < chain[k].from \/ k # Len(chain) THEN "TARGET_UNAUTHORIZED" ELSE "ok"
Verdicts(j, s, k) ==
    {Verdict(j, s, k)} \cup
    (IF \A v \in DOMAIN j.chain[s] : RowOf(s, v) THEN {} ELSE {"RESOURCE_NOT_FOUND"})

-----------------------------------------------------------------------------
(* Properties *)

\* After ensureServerCredentials each server of a running run has a credential
\* that is live, and a secret for it.
EnsuredIsUsable ==
    \A p \in Sessions : LET j == State(p) IN stage[p] = "ensured" /\ Running(j) =>
        \A s \in j.existing : LET k == Len(j.chain[s]) IN
            k > 0 /\ RowOf(s, k) /\ Verdict(j, s, k) = "ok"

\* A secret that has been superseded is refused as expired, and never as wrong
\* (openapi.yaml:513).
SupersededExpires ==
    \A s \in Servers : LET chain == Replayed.chain[s] IN
        \A k \in DOMAIN chain :
            k < Len(chain) => Verdict(Replayed, s, k) = "CREDENTIALS_EXPIRED"

\* Whatever start, requests, expiry and rotations do to one server at once, its
\* versions follow each other and the journal can be replayed.
VersionsFollow ==
    \A s \in Servers : LET chain == Replayed.chain[s] IN
        \A k \in DOMAIN chain :
            /\ chain[k].version = k
            /\ k > 1 => chain[k].from >= chain[k - 1].from

\* A current secret that ensureServerCredentials has just given out is accepted,
\* whichever version is visited first (openapi.yaml:512).
SecretsRecognised ==
    \A p \in Sessions : LET j == State(p) IN stage[p] = "ensured" /\ Running(j) =>
        \A s \in j.existing : Verdicts(j, s, Len(j.chain[s])) = {"ok"}

\* An ensureServerCredentials that was cut off can be repeated: the row it left
\* agrees with what the next one wants (COMMANDS.md:64).
EnsureRepeats ==
    LET j == Replayed IN Running(j) => \A s \in j.existing :
        LET k == Len(j.chain[s]) IN
        IF Live(j, s) THEN Agrees(s, k, Identity(Current(j, s)))
                      ELSE Agrees(s, k + 1, Window(j.now))
=============================================================================
