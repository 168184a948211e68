-------------------------------- MODULE StartRun --------------------------------
(***************************************************************************)
(* internal/application/start.go over the SQLite catalog, the generator    *)
(* and the journals: several calls of POST /v2/start, each interrupted     *)
(* anywhere, while other requests already use the runs they find.          *)
(***************************************************************************)
EXTENDS Integers, Sequences, FiniteSets

CONSTANTS
    Callers,             \* starts under way at once
    Keys,                \* agent_id, agent_version and request_id
    Generated, Manual,   \* positive and negative seeds
    Asked,               \* the pairs of a key and a seed that are asked for
    Profiles,            \* world generation profiles (a restart may change it)
    RunIDs, Accesses,    \* what newRunID and NewCredentials may draw
    Nobody,
    Chunks,              \* seed -> the chunks of its schedule
    MaxTime              \* simulation time at which a run ends

Seeds == Generated \cup Manual
\* A world is what its key generates, or what was registered for its seed.
Worlds == Generated \X Profiles \cup Manual \X {"manual"}
WorldOf(seed, p) == IF seed \in Generated THEN <<seed, p>> ELSE <<seed, "manual">>

ASSUME StartAssumption ==
    /\ Generated \cap Manual = {}
    /\ Asked \subseteq Keys \X Seeds
    /\ Nobody \notin Keys \cup Seeds \cup RunIDs \cup Accesses \cup Worlds
    /\ Nobody \notin [key : Keys, world : Worlds] \cup [run : RunIDs, seed : Seeds]
    /\ Chunks \in [Seeds -> Nat] /\ MaxTime \in Nat

VARIABLES
    profile,          \* of the process that runs
    worlds, runs, panel,   \* tables: worlds, runs, run_control_credentials
    journal,          \* run -> its domain events
    pc, ask,          \* caller -> where Start is, the key and seed asked for
    run, world,       \* caller -> the run and world it found or made
    seen,             \* caller -> Version of the State it holds
    access,           \* caller -> the panel access it will answer
    answer            \* the last answer given, or Nobody

catalog == <<worlds, runs, panel>>
locals == <<ask, run, world, seen, access>>
vars == <<profile, catalog, journal, pc, locals, answer>>

NoAsk == [key |-> Nobody, seed |-> Nobody]

Init ==
    /\ profile \in Profiles
    /\ worlds = {}
    /\ runs = [r \in RunIDs |-> Nobody]
    /\ panel = [r \in RunIDs |-> Nobody]
    /\ journal = [r \in RunIDs |-> <<>>]
    /\ pc = [p \in Callers |-> "idle"]
    /\ ask = [p \in Callers |-> NoAsk]
    /\ run = [p \in Callers |-> Nobody]
    /\ world = [p \in Callers |-> Nobody]
    /\ seen = [p \in Callers |-> 0]
    /\ access = [p \in Callers |-> Nobody]
    /\ answer = Nobody

-----------------------------------------------------------------------------
(* The journal of a run, as the aggregate reads it *)

Events == [kind : {"created", "chunk", "time", "credential"},
           world : {Nobody} \cup Worlds, number : Nat]
Event(kind, w, n) == [kind |-> kind, world |-> w, number |-> n]
Created(w) == Event("created", w, 0)        \* WorldCreated and the bootstrap
Chunk(w, n) == Event("chunk", w, n)         \* WorldScheduleCreated
TimePassed == Event("time", Nobody, 0)      \* TimeAdvanced
CredentialIssued == Event("credential", Nobody, 0)

\* Where a journal holds events of a kind, and what replaying them counts.
Places(j, kind) == {i \in DOMAIN j : j[i].kind = kind}
Clock(j) == Cardinality(Places(j, "time"))
ScheduleLength(j) == Cardinality(Places(j, "chunk"))
Running(j) == j # <<>> /\ Clock(j) < MaxTime
Complete(j, w) == j # <<>> /\ ScheduleLength(j) = Chunks[w[1]]

\* State.Apply takes a part of the schedule only while the clock is at its
\* start, and each part only next in sequence.
Applies(j, e) ==
    e.kind = "chunk" => Clock(j) = 0 /\ e.number = ScheduleLength(j) + 1
\* Rehydrate succeeds.
Replays(j) == \A i \in DOMAIN j : Applies(SubSeq(j, 1, i - 1), j[i])

\* The parts of the schedule in a journal are those of w, each next in sequence.
HoldsSchedule(j, w) ==
    \A i \in Places(j, "chunk") : j[i] = Chunk(w, ScheduleLength(SubSeq(j, 1, i)))

\* What initializeOnce compares: seed and clock, then each item of the schedule.
\* Worlds of one seed may share their clock.
Matches(j, w) ==
    /\ j # <<>> => j[1].world[1] = w[1]
    /\ ScheduleLength(j) <= Chunks[w[1]]
    /\ HoldsSchedule(j, w)

RowsOf(k) == {r \in RunIDs : runs[r] # Nobody /\ runs[r].key = k}

-----------------------------------------------------------------------------
(* Start *)

Goto(p, position) == pc' = [pc EXCEPT ![p] = position]
Back(p) ==
    /\ Goto(p, "idle")
    /\ ask' = [ask EXCEPT ![p] = NoAsk]
    /\ run' = [run EXCEPT ![p] = Nobody]
    /\ world' = [world EXCEPT ![p] = Nobody]
    /\ seen' = [seen EXCEPT ![p] = 0]
    /\ access' = [access EXCEPT ![p] = Nobody]

\* FindByStartRequest, first in Start and again after a refused CreateRun.
Found(p, k, otherwise) ==
    \/ /\ \E r \in RowsOf(k) : run' = [run EXCEPT ![p] = r]
       /\ Goto(p, "resume")
    \/ /\ RowsOf(k) = {}
       /\ Goto(p, otherwise)
       /\ UNCHANGED run

Call(p, k, s) ==
    /\ pc[p] = "idle"
    /\ ask' = [ask EXCEPT ![p] = [key |-> k, seed |-> s]]
    /\ Found(p, k, "world")
    /\ UNCHANGED <<profile, catalog, journal, world, seen, access, answer>>

\* world: a manual world must be there; a generated one is found or created,
\* and whichever start inserts the row, all have generated the same definition.
FindWorld(p) ==
    LET w == WorldOf(ask[p].seed, profile)
    IN  /\ pc[p] = "world"
        /\ ask[p].seed \in Manual => w \in worlds
        /\ worlds' = worlds \cup {w}
        /\ world' = [world EXCEPT ![p] = w]
        /\ Goto(p, "row")
        /\ UNCHANGED <<profile, runs, panel, journal, ask, run, seen, access, answer>>

\* Mutant: the table of runs has no key on the start request.
FreeRowAnyKey(r, k) == runs[r] = Nobody
FreeRow(r, k) == runs[r] = Nobody /\ RowsOf(k) = {}

CreateRun(p) ==
    /\ pc[p] = "row"
    /\ \E r \in RunIDs :
         IF FreeRow(r, ask[p].key)
           THEN /\ runs' = [runs EXCEPT ![r] = [key |-> ask[p].key, world |-> world[p]]]
                /\ run' = [run EXCEPT ![p] = r]
                /\ Goto(p, "load")
           ELSE /\ Goto(p, "taken")
                /\ UNCHANGED <<runs, run>>
    /\ UNCHANGED <<profile, worlds, panel, journal, ask, world, seen, access, answer>>

\* ErrRunAlreadyExists: the key was taken, or only the identifier.
Taken(p) ==
    /\ pc[p] = "taken"
    /\ Found(p, ask[p].key, "row")
    /\ UNCHANGED <<profile, catalog, journal, ask, world, seen, access, answer>>

\* Mutant: the generator's key is not compared.
MayResumeAnyProfile(p, w) == w[1] = ask[p].seed
\* The same seed, and for a generated world the key the generator has now.
MayResume(p, w) ==
    /\ w[1] = ask[p].seed
    /\ w[1] \in Generated => WorldOf(w[1], profile) = w

\* resumeStart: the definition comes from the generator, not from the table.
Resume(p) ==
    LET w == runs[run[p]].world
    IN  /\ pc[p] = "resume"
        /\ MayResume(p, w)
        /\ world' = [world EXCEPT ![p] = WorldOf(w[1], profile)]
        /\ worlds' = worlds \cup {WorldOf(w[1], profile)}
        /\ Goto(p, "load")
        /\ UNCHANGED <<profile, runs, panel, journal, ask, run, seen, access, answer>>

\* initializeOnce: Load, Rehydrate and the comparison with the world.
LoadJournal(p) ==
    LET j == journal[run[p]]
    IN  /\ pc[p] = "load"
        /\ Replays(j) /\ Matches(j, world[p])
        /\ seen' = [seen EXCEPT ![p] = Len(j)]
        /\ Goto(p, IF Complete(j, world[p]) THEN "panel" ELSE "append")
        /\ UNCHANGED <<profile, catalog, journal, ask, run, world, access, answer>>

State(p) == SubSeq(journal[run[p]], 1, seen[p])

\* Mutant: the journal takes events at any version.
UncontestedAlways(p) == TRUE
\* No ErrVersionConflict.
Uncontested(p) == Len(journal[run[p]]) = seen[p]

\* The next events of the world: first WorldCreated with the bootstrap, then the
\* schedule, chunk by chunk.  They are durable before Apply sees them; if it
\* refuses, Start fails.
NextEvent(p) ==
    IF seen[p] = 0 THEN Created(world[p])
                   ELSE Chunk(world[p], ScheduleLength(State(p)) + 1)

AppendWorld(p) ==
    LET r == run[p]
        e == NextEvent(p)
    IN  /\ pc[p] = "append"
        /\ Uncontested(p)
        /\ journal' = [journal EXCEPT ![r] = Append(@, e)]
        /\ IF Applies(State(p), e)
             THEN /\ seen' = [seen EXCEPT ![p] = @ + 1]
                  /\ Goto(p, IF Complete(Append(State(p), e), world[p]) THEN "panel" ELSE "append")
                  /\ UNCHANGED <<ask, run, world, access>>
             ELSE Back(p)
        /\ UNCHANGED <<profile, catalog, answer>>

\* A version conflict starts initializeOnce again; the fourth ends Start, which
\* Fail covers.
Conflict(p) ==
    /\ pc[p] = "append"
    /\ ~Uncontested(p)
    /\ seen' = [seen EXCEPT ![p] = 0]
    /\ Goto(p, "load")
    /\ UNCHANGED <<profile, catalog, journal, ask, run, world, access, answer>>

\* GetOrCreateControlPanelCredentials: a row found is read ...
ReadAccess(p) ==
    /\ pc[p] = "panel"
    /\ IF panel[run[p]] = Nobody
         THEN Goto(p, "draw") /\ UNCHANGED access
         ELSE Goto(p, "servers") /\ access' = [access EXCEPT ![p] = panel[run[p]]]
    /\ UNCHANGED <<profile, catalog, journal, ask, run, world, seen, answer>>

\* Mutant: the insert replaces a row.
InsertedOver(stored, a) == a
\* ... and ON CONFLICT(run_id) DO NOTHING keeps one inserted meanwhile.
Inserted(stored, a) == IF stored = Nobody THEN a ELSE stored

DrawAccess(p) ==
    /\ pc[p] = "draw"
    /\ \E a \in Accesses :
         /\ panel' = [panel EXCEPT ![run[p]] = Inserted(@, a)]
         /\ access' = [access EXCEPT ![p] = panel'[run[p]]]
    /\ Goto(p, "servers")
    /\ UNCHANGED <<profile, worlds, runs, journal, ask, run, world, seen, answer>>

\* A session of its own: it replays the journal and, in a running run, issues
\* the credentials of servers that have none (ServerCredentials).
WithCredentials(j) ==
    IF Places(j, "credential") = {} /\ Running(j) THEN Append(j, CredentialIssued) ELSE j

AnswerStart(p) ==
    LET r == run[p]
    IN  /\ pc[p] = "servers"
        /\ \/ Running(State(p)) /\ Replays(journal[r])
              /\ journal' = [journal EXCEPT ![r] = WithCredentials(@)]
           \/ ~Running(State(p)) /\ UNCHANGED journal
        /\ answer' = [key |-> ask[p].key, seed |-> ask[p].seed, run |-> r, access |-> access[p]]
        /\ Back(p)
        /\ UNCHANGED <<profile, catalog>>

\* Any other end: a refusal, a conflict too many, a context that has ended.
Fail(p) ==
    /\ pc[p] # "idle"
    /\ Back(p)
    /\ UNCHANGED <<profile, catalog, journal, answer>>

-----------------------------------------------------------------------------
(* What goes on around the starts *)

\* RegisterManualWorld.
Register(seed) ==
    /\ WorldOf(seed, profile) \notin worlds
    /\ worlds' = worlds \cup {WorldOf(seed, profile)}
    /\ UNCHANGED <<profile, runs, panel, journal, pc, locals, answer>>

\* Any other request finds the run from its row on, opens it and charges the
\* real time that has passed (RunManager); some issue server credentials.
Request(r) ==
    LET j == journal[r]
    IN  /\ runs[r] # Nobody /\ Replays(j) /\ Running(j)
        /\ \E after \in {Append(j, TimePassed), WithCredentials(j)} :
             journal' = [journal EXCEPT ![r] = after]
        /\ UNCHANGED <<profile, catalog, pc, locals, answer>>

\* The process ends anywhere, and another starts on the same files.
Restart(p) ==
    /\ profile' = p
    /\ pc' = [c \in Callers |-> "idle"]
    /\ ask' = [c \in Callers |-> NoAsk]
    /\ run' = [c \in Callers |-> Nobody]
    /\ world' = [c \in Callers |-> Nobody]
    /\ seen' = [c \in Callers |-> 0]
    /\ access' = [c \in Callers |-> Nobody]
    /\ UNCHANGED <<catalog, journal, answer>>

Step(p) ==
    \/ FindWorld(p) \/ CreateRun(p) \/ Taken(p) \/ Resume(p)
    \/ LoadJournal(p) \/ AppendWorld(p) \/ Conflict(p)
    \/ ReadAccess(p) \/ DrawAccess(p) \/ AnswerStart(p)

Next ==
    \/ \E p \in Callers :
         Step(p) \/ Fail(p) \/ \E a \in Asked : Call(p, a[1], a[2])
    \/ \E s \in Manual : Register(s)
    \/ \E r \in RunIDs : Request(r)
    \/ \E p \in Profiles : Restart(p)

Spec == Init /\ [][Next]_vars

-----------------------------------------------------------------------------
(* Properties *)

TypeOK ==
    /\ profile \in Profiles /\ worlds \subseteq Worlds
    /\ runs \in [RunIDs -> {Nobody} \cup [key : Keys, world : Worlds]]
    /\ panel \in [RunIDs -> {Nobody} \cup Accesses]
    /\ journal \in [RunIDs -> Seq(Events)]
    /\ pc \in [Callers -> {"idle", "world", "row", "taken", "resume", "load", "append",
                           "panel", "draw", "servers"}]
    /\ ask \in [Callers -> {NoAsk} \cup [key : Keys, seed : Seeds]]
    /\ run \in [Callers -> {Nobody} \cup RunIDs] /\ world \in [Callers -> {Nobody} \cup Worlds]
    /\ access \in [Callers -> {Nobody} \cup Accesses] /\ seen \in [Callers -> Nat]
    /\ answer \in {Nobody} \cup [key : Keys, seed : Seeds, run : RunIDs, access : Accesses]

\* However starts, restarts and a change of the profile cut it up, a journal
\* holds the world its run was created with, each part once and in order.
OwnWorldOnce ==
    \A r \in RunIDs : LET j == journal[r] IN j # <<>> =>
        /\ runs[r] # Nobody
        /\ j[1] = Created(runs[r].world) /\ Places(j, "created") = {1}
        /\ HoldsSchedule(j, runs[r].world)

\* To its callers /v2/start binds a key once and always answers the same.
Bindings ==
    [k \in Keys |->
        IF RowsOf(k) = {} THEN Nobody
        ELSE LET r == CHOOSE x \in RowsOf(k) : TRUE
             IN  [run |-> r, seed |-> runs[r].world[1]]]
ReadyRuns == {r \in RunIDs : runs[r] # Nobody /\ Complete(journal[r], runs[r].world)}
Once == INSTANCE StartOnce WITH bound <- Bindings, ready <- ReadyRuns, given <- panel
OnceStep == UNCHANGED Once!vars \/ Once!Next
StartsOnce == Once!Init /\ [][OnceStep]_vars

\* A start that was cut off can be taken up again: every journal can be
\* replayed (ARCHITECTURE.md:172).
JournalReplays == \A r \in RunIDs : Replays(journal[r])
=============================================================================
