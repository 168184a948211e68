------------------------------ MODULE RunManager ------------------------------
(***************************************************************************)
(* internal/application/manager.go with the parts of session.go,           *)
(* control.go, run_service.go and start.go that touch the same state: how  *)
(* one HTTP request of a run is opened, gated, charged for the real time   *)
(* that passed, executed and audited, and what a second journal writer     *)
(* (a repeated /v2/start) and a process crash do to that.                  *)
(*                                                                         *)
(* Durable state is the journal of domain events, the catalog row's        *)
(* last_real_request_at and the request audits; everything else is lost by *)
(* a crash.  Domain events are abstracted to what these layers look at.    *)
(***************************************************************************)
EXTENDS Integers, Sequences, FiniteSets

CONSTANTS
    Runs,          \* run ids, all of them already created and initialised
    Requests,      \* HTTP requests by AuditID; each is sent at most once
    Starts,        \* repeated /v2/start calls
    Commands,      \* client-chosen request_id values
    RunOf,         \* the run a request or a start addresses
    KindOf,        \* what a request asks for
    CommandOf,     \* the request_id of an "advance", "create" or "upsert"
    MaxRuns,       \* -max-cached-runs
    MaxInFlight,   \* requests the clients keep open on one run
    MaxNow,        \* bound on the real clock
    MaxBack,       \* bound on steps of the real clock backwards
    MaxFaults,     \* bound on I/O errors and cancelled contexts
    MaxCrashes     \* bound on process crashes

Nobody == "nobody"
Kinds == {"read", "inbox", "advance", "create", "upsert"}

ASSUME RequestsAssumption ==
    /\ RunOf \in [Requests \cup Starts -> Runs]
    /\ KindOf \in [Requests -> Kinds]
    /\ CommandOf \in [Requests -> Commands]
    /\ Commands \cap Requests = {} /\ Starts \cap Requests = {}
    /\ Nobody \notin Requests \cup Runs
ASSUME RequestsFinite == IsFiniteSet(Requests)
ASSUME BoundsAssumption ==
    /\ MaxRuns \in Nat \ {0} /\ MaxInFlight \in Nat \ {0}
    /\ MaxNow \in Nat /\ MaxBack \in Nat /\ MaxFaults \in Nat /\ MaxCrashes \in Nat

Audited == Requests \cup Starts

VARIABLES
    now,         \* the process clock
    journal,     \* run -> domain events, durable
    lastReal,    \* run -> runs.last_real_request_at, durable
    audit,       \* request or start -> state of its audit record, durable
    at,          \* request -> ReceivedAt of its audit, durable
    sessions,    \* the runs in RunManager.sessions
    view,        \* run -> records of its managed RunSession
    users,       \* run -> managedRun.users
    gate,        \* run -> managedRun.gate is locked
    access, lastAccess,
    opener,      \* the request inside open's slow path, which holds openMu
    fresh,       \* the records of the session it is opening
    pc, got, outcome,      \* per request: position, run.LastRealRequestAt, reply
    startPc, startView,    \* per start: position and its own RunSession
    backs, faults, crashes

durable == <<journal, lastReal, audit, at>>
managed == <<sessions, view, users, gate, access, lastAccess>>
opening == <<opener, fresh>>
local == <<got, outcome>>
starts == <<startPc, startView>>
env == <<now, backs, faults, crashes>>
vars == <<durable, managed, opening, pc, local, starts, env>>

-------------------------------------------------------------------------------
(* Domain events and what replaying them yields *)

EventTypes == {"TimeAdvanced", "ServerCreated", "RuleUpserted",
               "CredentialIssued", "ResponseRecorded"}
Event == [type: EventTypes, cmd: Commands \cup Requests,
          from: Nat, upto: Nat, ends: BOOLEAN]

Fact(type, cmd) ==
    [type |-> type, cmd |-> cmd, from |-> 0, upto |-> 0, ends |-> FALSE]

\* RealElapsed is kept as the interval of real time it stands for.
TimeAdvanced(cmd, from, upto, ends) ==
    [type |-> "TimeAdvanced", cmd |-> cmd, from |-> from, upto |-> upto, ends |-> ends]

Of(s, type) == {s[i].cmd : i \in {j \in DOMAIN s : s[j].type = type}}

\* State.CommandPayloads: the command ids that already have a payload.
Applied(s) == Of(s, "TimeAdvanced") \cup Of(s, "ServerCreated") \cup Of(s, "RuleUpserted")
Completed(s) == \E i \in DOMAIN s : s[i].ends
\* Servers (named by the command that created them) with no issued credential.
Missing(s) == IF Completed(s) THEN {} ELSE Of(s, "ServerCreated") \ Of(s, "CredentialIssued")

\* The payload a request records for its command id.
PayloadType(q) ==
    CASE KindOf[q] = "advance" -> "TimeAdvanced"
      [] KindOf[q] = "create" -> "ServerCreated"
      [] OTHER -> "RuleUpserted"

Run(q) == RunOf[q]
\* Mutants: no payload is remembered; any payload passes for the recorded one.
DuplicateNever(q) == FALSE
SamePayloadAny(q) == TRUE

Duplicate(q) == CommandOf[q] \in Applied(view[Run(q)])
SamePayload(q) == CommandOf[q] \in Of(view[Run(q)], PayloadType(q))
\* A realtime advance is recorded under "realtime:" + AuditID.
AdvanceID(q) == IF KindOf[q] = "advance" THEN CommandOf[q] ELSE q

Later(a, b) == IF a > b THEN a ELSE b

\* store.Append refuses an expectedVersion other than the stream's length.
Stale(r) == Len(view[r]) # Len(journal[r])

-------------------------------------------------------------------------------
(* Positions of a request inside RunManager.Handle *)

Gated == {"locked", "advanced", "touched", "created", "replying"}
Opened == {"opened", "read"} \cup Gated
InFlight == {"opening"} \cup Opened
Positions == {"idle", "done"} \cup InFlight
Outcomes == {"none", "ok", "busy", "stale", "mismatch", "completed", "error", "lost"}

Init ==
    /\ now = 0 /\ backs = 0 /\ faults = 0 /\ crashes = 0
    /\ journal = [r \in Runs |-> <<>>]
    /\ lastReal = [r \in Runs |-> 0]
    /\ audit = [a \in Audited |-> "none"]
    /\ at = [q \in Requests |-> 0]
    /\ sessions = {}
    /\ view = [r \in Runs |-> <<>>]
    /\ users = [r \in Runs |-> 0]
    /\ gate = [r \in Runs |-> FALSE]
    /\ access = 0 /\ lastAccess = [r \in Runs |-> 0]
    /\ opener = Nobody /\ fresh = <<>>
    /\ pc = [q \in Requests |-> "idle"]
    /\ got = [q \in Requests |-> 0]
    /\ outcome = [q \in Requests |-> "none"]
    /\ startPc = [s \in Starts |-> "idle"]
    /\ startView = [s \in Starts |-> <<>>]

At(q, position) == pc[q] = position
Goto(q, position) == pc' = [pc EXCEPT ![q] = position]
Reply(q, result) == outcome' = [outcome EXCEPT ![q] = result]
Fault == faults < MaxFaults /\ faults' = faults + 1 /\ UNCHANGED <<now, backs, crashes>>

\* The clients of a run open at most MaxInFlight requests on it.
Room(q) == Cardinality({p \in Requests : Run(p) = Run(q) /\ pc[p] \in InFlight}) < MaxInFlight

\* Mutant: eviction one session too late.
SurvivorsLate(opened, using, locked, stamp, protected) ==
    LET idle == {r \in opened : r # protected /\ using[r] = 0 /\ ~locked[r]}
        older(r) == {x \in idle : stamp[x] < stamp[r]}
    IN opened \ {r \in idle : Cardinality(older(r)) < Cardinality(opened) - MaxRuns - 1}

\* The runs that evictUnlocked leaves, given the counters of the step.
Survivors(opened, using, locked, stamp, protected) ==
    LET idle == {r \in opened : r # protected /\ using[r] = 0 /\ ~locked[r]}
        excess == Cardinality(opened) - MaxRuns
        older(r) == {x \in idle : stamp[x] < stamp[r]}
    IN opened \ {r \in idle : Cardinality(older(r)) < excess}

Keep(kept) ==
    /\ sessions' = kept
    /\ view' = [r \in Runs |-> IF r \in kept THEN view[r] ELSE <<>>]

\* release: give the reference back, then evict idle runs beyond the limit.
Release(q) ==
    LET left == [users EXCEPT ![Run(q)] = IF @ > 0 THEN @ - 1 ELSE @]
    IN /\ users' = left
       /\ Keep(Survivors(sessions, left, gate', lastAccess, Nobody))
       /\ UNCHANGED <<access, lastAccess>>

-------------------------------------------------------------------------------
(* open *)

\* Mutant: a session that is found is not counted as used.
OpenExistingUncounted(q) ==
    /\ At(q, "idle") /\ Room(q) /\ opener = Nobody /\ Run(q) \in sessions
    /\ access' = access + 1
    /\ lastAccess' = [lastAccess EXCEPT ![Run(q)] = access + 1]
    /\ Goto(q, "opened")
    /\ UNCHANGED <<durable, sessions, view, users, gate, opening, local, starts, env>>

OpenExisting(q) ==
    /\ At(q, "idle") /\ Room(q) /\ opener = Nobody /\ Run(q) \in sessions
    /\ access' = access + 1
    /\ lastAccess' = [lastAccess EXCEPT ![Run(q)] = access + 1]
    /\ users' = [users EXCEPT ![Run(q)] = @ + 1]
    /\ Goto(q, "opened")
    /\ UNCHANGED <<durable, sessions, view, gate, opening, local, starts, env>>

\* Mutant: the session map is not consulted.
BeginOpenAlways(q) ==
    /\ At(q, "idle") /\ Room(q) /\ opener = Nobody
    /\ opener' = q /\ fresh' = journal[Run(q)]
    /\ Goto(q, "opening")
    /\ UNCHANGED <<durable, managed, local, starts, env>>

\* OpenRunSession replays the journal of a run that has no session.
BeginOpen(q) ==
    /\ At(q, "idle") /\ Room(q) /\ opener = Nobody /\ Run(q) \notin sessions
    /\ opener' = q
    /\ fresh' = journal[Run(q)]
    /\ Goto(q, "opening")
    /\ UNCHANGED <<durable, managed, local, starts, env>>

IsOpening(q) == opener = q /\ At(q, "opening")

\* Mutant: recovery passes over the audits that advanced nothing.
UnsettledApplied(r) ==
    {a \in Audited : Run(a) = r /\ audit[a] = "received" /\ a \in Applied(fresh)}
Unsettled(r) == {a \in Audited : Run(a) = r /\ audit[a] = "received"}

\* Mutant: recovery looks at the command id only.
WasAppliedByCommand(a) ==
    a \in Requests /\ KindOf[a] = "advance" /\ CommandOf[a] \in Applied(fresh)
\* The interrupted request a had advanced the run: its realtime or its own
\* command id was journalled before the restart.  A start names no command.
WasApplied(a) ==
    /\ a \in Requests
    /\ \/ a \in Applied(fresh)
       \/ KindOf[a] \in {"advance", "create", "upsert"} /\ CommandOf[a] \in Applied(fresh)

\* Mutants: recovery touches on every pass; it touches for any open audit.
NeedsTouchAlways(a) == WasApplied(a)
NeedsTouchAny(a) == a \in Requests /\ lastReal[Run(a)] < at[a]
NeedsTouch(a) == WasApplied(a) /\ lastReal[Run(a)] < at[a]

RecoverTouch(q, a) ==
    /\ IsOpening(q) /\ a \in Unsettled(Run(q)) /\ NeedsTouch(a)
    /\ lastReal' = [lastReal EXCEPT ![Run(q)] = at[a]]
    /\ UNCHANGED <<journal, audit, at, managed, opening, pc, local, starts, env>>

RecoverComplete(q, a) ==
    /\ IsOpening(q) /\ a \in Unsettled(Run(q)) /\ ~NeedsTouch(a)
    /\ audit' = [audit EXCEPT ![a] = "interrupted"]
    /\ UNCHANGED <<journal, lastReal, at, managed, opening, pc, local, starts, env>>

\* The recovered session enters the map with one user.
InstallSession(q) ==
    LET r == Run(q)
        using == [users EXCEPT ![r] = 1]
        stamp == [lastAccess EXCEPT ![r] = access + 1]
        kept == Survivors(sessions \cup {r}, using, gate, stamp, r)
    IN /\ IsOpening(q) /\ Unsettled(r) = {}
       /\ sessions' = kept
       /\ view' = [x \in Runs |-> IF x = r THEN fresh ELSE IF x \in kept THEN view[x] ELSE <<>>]
       /\ users' = using
       /\ access' = access + 1 /\ lastAccess' = stamp
       /\ opener' = Nobody /\ fresh' = <<>>
       /\ Goto(q, "opened")
       /\ UNCHANGED <<durable, gate, local, starts, env>>

OpenFails(q) ==
    /\ IsOpening(q) /\ Fault
    /\ opener' = Nobody /\ fresh' = <<>>
    /\ Reply(q, "error") /\ Goto(q, "done")
    /\ UNCHANGED <<durable, managed, got, starts>>

-------------------------------------------------------------------------------
(* Handle up to the action *)

\* catalog.GetRun, after open and before the gate.
ReadCatalog(q) ==
    /\ At(q, "opened")
    /\ got' = [got EXCEPT ![q] = lastReal[Run(q)]]
    /\ Goto(q, "read")
    /\ UNCHANGED <<durable, managed, opening, outcome, starts, env>>

\* gate.TryLock fails: ErrConcurrentRunRequest, no audit.
Busy(q) ==
    /\ At(q, "read") /\ gate[Run(q)]
    /\ UNCHANGED gate /\ Release(q)
    /\ Reply(q, "busy") /\ Goto(q, "done")
    /\ UNCHANGED <<durable, opening, got, starts, env>>

\* Mutant: the request goes on whether or not it got the gate.
ReceiveUngated(q) ==
    /\ At(q, "read")
    /\ gate' = [gate EXCEPT ![Run(q)] = TRUE]
    /\ at' = [at EXCEPT ![q] = now]
    /\ audit' = [audit EXCEPT ![q] = "received"]
    /\ Goto(q, "locked")
    /\ UNCHANGED <<journal, lastReal, sessions, view, users, access, lastAccess,
                   opening, local, starts, env>>

\* gate.TryLock, receivedAt and RecordAgentRequest.
Receive(q) ==
    /\ At(q, "read") /\ ~gate[Run(q)]
    /\ gate' = [gate EXCEPT ![Run(q)] = TRUE]
    /\ at' = [at EXCEPT ![q] = now]
    /\ audit' = [audit EXCEPT ![q] = "received"]
    /\ Goto(q, "locked")
    /\ UNCHANGED <<journal, lastReal, sessions, view, users, access, lastAccess,
                   opening, local, starts, env>>

\* GetRun or RecordAgentRequest returns an error.
ReceiveFails(q) ==
    /\ \/ At(q, "opened")
       \/ At(q, "read") /\ ~gate[Run(q)]
    /\ Fault
    /\ UNCHANGED gate /\ Release(q)
    /\ Reply(q, "error") /\ Goto(q, "done")
    /\ UNCHANGED <<durable, opening, got, starts>>

\* Mutants: the appended event is not applied to the cached state; it is applied
\* before the append, which may be refused.
ExecuteApplied(q, event) ==
    /\ view' = [view EXCEPT ![Run(q)] = Append(@, event)]
    /\ journal' = [journal EXCEPT ![Run(q)] = IF Stale(Run(q)) THEN @ ELSE Append(@, event)]
    /\ UNCHANGED <<lastReal, audit, at, sessions, users, gate, access, lastAccess,
                   opening, starts, env>>
ExecuteUnapplied(q, event) ==
    /\ ~Stale(Run(q))
    /\ journal' = [journal EXCEPT ![Run(q)] = Append(@, event)]
    /\ UNCHANGED <<lastReal, audit, at, managed, opening, starts, env>>

\* RunSession.Execute: the decided event is appended and then applied.
Execute(q, event) ==
    /\ ~Stale(Run(q))
    /\ journal' = [journal EXCEPT ![Run(q)] = Append(@, event)]
    /\ view' = [view EXCEPT ![Run(q)] = Append(@, event)]
    /\ UNCHANGED <<lastReal, audit, at, sessions, users, gate, access, lastAccess,
                   opening, starts, env>>

Unjournalled == UNCHANGED <<durable, managed, opening, starts, env>>

IsAdvance(q) == KindOf[q] = "advance"
Skips(q) == Completed(view[Run(q)]) \/ (IsAdvance(q) /\ Duplicate(q))
Elapsed(q) == at[q] > got[q]

RejectAdvance(q) ==
    /\ At(q, "locked") /\ IsAdvance(q)
    /\ \/ Duplicate(q) /\ ~SamePayload(q) /\ Reply(q, "mismatch")
       \/ ~Duplicate(q) /\ Completed(view[Run(q)]) /\ Reply(q, "completed")
    /\ Goto(q, "replying")
    /\ UNCHANGED got /\ Unjournalled

\* Nothing to execute, or AdvanceTime decides no event for a zero interval.
SkipAdvance(q) ==
    /\ At(q, "locked")
    /\ IsAdvance(q) => Duplicate(q) /\ SamePayload(q)
    /\ Skips(q) \/ (~Elapsed(q) /\ ~Stale(Run(q)))
    /\ Goto(q, "advanced")
    /\ UNCHANGED local /\ Unjournalled

AdvanceTime(q) ==
    /\ At(q, "locked") /\ ~Skips(q)
    /\ IsAdvance(q) \/ Elapsed(q)
    /\ \E ends \in BOOLEAN :
         Execute(q, TimeAdvanced(AdvanceID(q), got[q], Later(at[q], got[q]), ends))
    /\ Goto(q, "advanced")
    /\ UNCHANGED local

AdvanceStale(q) ==
    /\ At(q, "locked") /\ ~Skips(q) /\ Stale(Run(q))
    /\ Reply(q, "stale") /\ Goto(q, "replying")
    /\ UNCHANGED got /\ Unjournalled

\* Mutant: a duration is stored.
TouchAtElapsed(q) == at[q] - got[q]
TouchAt(q) == Later(at[q], got[q])

\* catalog.TouchRun(max(receivedAt, run.LastRealRequestAt)); a plain read or a
\* time advance has nothing left to do.
Touch(q) ==
    /\ At(q, "advanced")
    /\ lastReal' = [lastReal EXCEPT ![Run(q)] = TouchAt(q)]
    /\ IF KindOf[q] \in {"read", "advance"}
         THEN Goto(q, "replying") /\ Reply(q, "ok")
         ELSE Goto(q, "touched") /\ UNCHANGED outcome
    /\ UNCHANGED <<journal, audit, at, managed, opening, got, starts, env>>

-------------------------------------------------------------------------------
(* ExecuteControlCommand and Inbox, the actions that write *)

\* ensureServerCredentials, at the head of the action and after a create.
IssueCredential(q) ==
    /\ pc[q] \in {"touched", "created"}
    /\ \E server \in Missing(view[Run(q)]) : Execute(q, Fact("CredentialIssued", server))
    /\ UNCHANGED <<pc, local>>

Ensured(q) == Missing(view[Run(q)]) = {}
Receipted(q) == CommandOf[q] \in Of(view[Run(q)], "ResponseRecorded")
Acts(q) == At(q, "touched") /\ Ensured(q) /\ KindOf[q] \in {"create", "upsert"} /\ ~Receipted(q)

\* The saved response of an earlier attempt, or an inbox page.
ReplySaved(q) ==
    /\ At(q, "touched") /\ Ensured(q)
    /\ \/ KindOf[q] = "inbox"
       \/ Receipted(q) /\ SamePayload(q)
    /\ Reply(q, "ok") /\ Goto(q, "replying")
    /\ UNCHANGED got /\ Unjournalled

\* decideContext: a new server.create payload carries freshly drawn ids, so it
\* never equals the recorded one; an upsert repeats its payload exactly.
RejectCommand(q) ==
    /\ At(q, "touched") /\ Ensured(q)
    /\ \/ Receipted(q) /\ KindOf[q] # "inbox" /\ ~SamePayload(q) /\ Reply(q, "mismatch")
       \/ Acts(q) /\ Duplicate(q) /\ (KindOf[q] = "create" \/ ~SamePayload(q)) /\ Reply(q, "mismatch")
       \/ Acts(q) /\ ~Duplicate(q) /\ Completed(view[Run(q)]) /\ Reply(q, "completed")
    /\ Goto(q, "replying")
    /\ UNCHANGED got /\ Unjournalled

ExecuteCommand(q) ==
    /\ Acts(q) /\ ~Duplicate(q) /\ ~Completed(view[Run(q)])
    /\ Execute(q, Fact(PayloadType(q), CommandOf[q]))
    /\ Goto(q, "created")
    /\ UNCHANGED local

\* The repeated upsert decides no events.
RepeatCommand(q) ==
    /\ Acts(q) /\ KindOf[q] = "upsert" /\ SamePayload(q) /\ ~Stale(Run(q))
    /\ Goto(q, "created")
    /\ UNCHANGED local /\ Unjournalled

\* RecordControlCommandResponse, an append of its own.
RecordResponse(q) ==
    /\ At(q, "created") /\ (KindOf[q] = "create" => Ensured(q))
    /\ Execute(q, Fact("ResponseRecorded", CommandOf[q]))
    /\ Reply(q, "ok") /\ Goto(q, "replying")
    /\ UNCHANGED got

ActionStale(q) ==
    /\ Stale(Run(q))
    /\ \/ At(q, "created")
       \/ At(q, "touched") /\ ~Ensured(q)
       \/ Acts(q) /\ ~Duplicate(q) /\ ~Completed(view[Run(q)])
       \/ Acts(q) /\ KindOf[q] = "upsert" /\ SamePayload(q)
    /\ Reply(q, "stale") /\ Goto(q, "replying")
    /\ UNCHANGED got /\ Unjournalled

\* Execute, TouchRun or a repository call returns an error, for instance
\* because the client went away and its context is cancelled.
StepFails(q) ==
    /\ pc[q] \in {"locked", "advanced", "touched", "created"} /\ Fault
    /\ Reply(q, "error") /\ Goto(q, "replying")
    /\ UNCHANGED <<durable, managed, opening, got, starts>>

\* The deferred CompleteAgentRequest, which refuses a completed audit,
\* gate.Unlock and release.
Complete(a) == audit' = [audit EXCEPT ![a] = IF @ = "received" THEN "completed" ELSE @]
Unanswered(q) == Reply(q, IF outcome[q] = "ok" THEN "error" ELSE outcome[q])

Finish(q) ==
    /\ At(q, "replying")
    /\ Complete(q)
    /\ IF audit[q] = "received" THEN UNCHANGED outcome ELSE Unanswered(q)
    /\ gate' = [gate EXCEPT ![Run(q)] = FALSE]
    /\ Release(q) /\ Goto(q, "done")
    /\ UNCHANGED <<journal, lastReal, at, opening, got, starts, env>>

FinishFails(q) ==
    /\ At(q, "replying") /\ Fault
    /\ Unanswered(q)
    /\ gate' = [gate EXCEPT ![Run(q)] = FALSE]
    /\ Release(q) /\ Goto(q, "done")
    /\ UNCHANGED <<durable, opening, got, starts>>

-------------------------------------------------------------------------------
(* StartAudited on an initialised run: startResult works on its own RunSession,
   and the audit is recorded and completed after it. *)

StartsOpen == {"open", "issued", "received"}

StartOpen(s) ==
    /\ startPc[s] = "idle"
    /\ startView' = [startView EXCEPT ![s] = journal[Run(s)]]
    /\ startPc' = [startPc EXCEPT ![s] = "open"]
    /\ UNCHANGED <<durable, managed, opening, pc, local, env>>

StartIssue(s) ==
    /\ startPc[s] = "open" /\ Len(startView[s]) = Len(journal[Run(s)])
    /\ \E server \in Missing(startView[s]) :
         LET event == Fact("CredentialIssued", server)
         IN /\ journal' = [journal EXCEPT ![Run(s)] = Append(@, event)]
            /\ startView' = [startView EXCEPT ![s] = Append(@, event)]
    /\ UNCHANGED <<lastReal, audit, at, managed, opening, pc, local, startPc, env>>

StartIssued(s) ==
    /\ startPc[s] = "open"
    /\ Missing(startView[s]) # {} => Len(startView[s]) # Len(journal[Run(s)])
    /\ startPc' = [startPc EXCEPT ![s] =
         IF Missing(startView[s]) = {} THEN "issued" ELSE "stale"]
    /\ UNCHANGED <<durable, managed, opening, pc, local, startView, env>>

StartReceive(s) ==
    /\ startPc[s] = "issued"
    /\ audit' = [audit EXCEPT ![s] = "received"]
    /\ startPc' = [startPc EXCEPT ![s] = "received"]
    /\ UNCHANGED <<journal, lastReal, at, managed, opening, pc, local, startView, env>>

StartFinish(s) ==
    /\ startPc[s] = "received"
    /\ Complete(s)
    /\ startPc' = [startPc EXCEPT ![s] = IF audit[s] = "received" THEN "ok" ELSE "error"]
    /\ UNCHANGED <<journal, lastReal, at, managed, opening, pc, local, startView, env>>

-------------------------------------------------------------------------------
(* Environment *)

Tick ==
    /\ now < MaxNow /\ now' = now + 1
    /\ UNCHANGED <<durable, managed, opening, pc, local, starts, backs, faults, crashes>>

\* The wall clock is set back.
StepBack ==
    /\ backs < MaxBack /\ backs' = backs + 1
    /\ now > 0 /\ now' = now - 1
    /\ UNCHANGED <<durable, managed, opening, pc, local, starts, faults, crashes>>

\* The process dies; the next one starts with an empty RunManager.
Crash ==
    /\ crashes < MaxCrashes /\ crashes' = crashes + 1
    /\ sessions' = {} /\ view' = [r \in Runs |-> <<>>]
    /\ users' = [r \in Runs |-> 0] /\ gate' = [r \in Runs |-> FALSE]
    /\ access' = 0 /\ lastAccess' = [r \in Runs |-> 0]
    /\ opener' = Nobody /\ fresh' = <<>>
    /\ pc' = [q \in Requests |-> IF pc[q] \in InFlight THEN "done" ELSE pc[q]]
    /\ outcome' = [q \in Requests |-> IF pc[q] \in InFlight THEN "lost" ELSE outcome[q]]
    /\ startPc' = [s \in Starts |-> IF startPc[s] \in StartsOpen THEN "lost" ELSE startPc[s]]
    /\ UNCHANGED <<durable, got, startView, now, backs, faults>>

Open(q) ==
    \/ OpenExisting(q) \/ BeginOpen(q) \/ InstallSession(q) \/ OpenFails(q)
    \/ \E a \in Audited : RecoverTouch(q, a) \/ RecoverComplete(q, a)
Enter(q) == ReadCatalog(q) \/ Busy(q) \/ Receive(q) \/ ReceiveFails(q)
Advance(q) ==
    \/ RejectAdvance(q) \/ SkipAdvance(q) \/ AdvanceTime(q) \/ AdvanceStale(q) \/ Touch(q)
Act(q) ==
    \/ IssueCredential(q) \/ ReplySaved(q) \/ RejectCommand(q) \/ ExecuteCommand(q)
    \/ RepeatCommand(q) \/ RecordResponse(q) \/ ActionStale(q)
Leave(q) == StepFails(q) \/ Finish(q) \/ FinishFails(q)
Handle(q) == Open(q) \/ Enter(q) \/ Advance(q) \/ Act(q) \/ Leave(q)
Start(s) ==
    \/ StartOpen(s) \/ StartIssue(s) \/ StartIssued(s) \/ StartReceive(s) \/ StartFinish(s)

Next ==
    \/ \E q \in Requests : Handle(q)
    \/ \E s \in Starts : Start(s)
    \/ Tick
    \/ StepBack
    \/ Crash

Spec == Init /\ [][Next]_vars

\* Every goroutine keeps running until its handler returns: the Go scheduler
\* starves none of them, and errors and crashes are never forced.
Progress(q) ==
    \/ InstallSession(q) \/ (\E a \in Audited : RecoverTouch(q, a) \/ RecoverComplete(q, a))
    \/ ReadCatalog(q) \/ Busy(q) \/ Receive(q)
    \/ Advance(q) \/ Act(q) \/ Finish(q)
FairSpec == Spec /\ \A q \in Requests : WF_vars(Progress(q))

-------------------------------------------------------------------------------
(* Properties *)

\* The shape of the state of the run manager and of the durable records.
TypeOK ==
    /\ now \in Nat /\ backs \in Nat /\ faults \in Nat /\ crashes \in Nat
    /\ journal \in [Runs -> Seq(Event)]
    /\ lastReal \in [Runs -> Nat]
    /\ audit \in [Audited -> {"none", "received", "completed", "interrupted"}]
    /\ at \in [Requests -> Nat]
    /\ sessions \subseteq Runs
    /\ view \in [Runs -> Seq(Event)]
    /\ users \in [Runs -> Nat]
    /\ gate \in [Runs -> BOOLEAN]
    /\ access \in Nat /\ lastAccess \in [Runs -> Nat]
    /\ opener \in Requests \cup {Nobody} /\ fresh \in Seq(Event)
    /\ pc \in [Requests -> Positions]
    /\ got \in [Requests -> Nat]
    /\ outcome \in [Requests -> Outcomes]
    /\ startPc \in [Starts -> {"idle", "ok", "stale", "error", "lost"} \cup StartsOpen]
    /\ startView \in [Starts -> Seq(Event)]

IsPrefix(s, t) == Len(s) <= Len(t) /\ \A i \in 1..Len(s) : s[i] = t[i]

\* A RunSession (managed, being opened, or a start's own) always holds a prefix
\* of the journal: what it decided on did happen, in that order.
ViewIsPrefix ==
    /\ \A r \in Runs : IsPrefix(view[r], journal[r])
    /\ \A s \in Starts : IsPrefix(startView[s], journal[Run(s)])
    /\ opener # Nobody => IsPrefix(fresh, journal[Run(opener)])

Payloads == {"TimeAdvanced", "ServerCreated", "RuleUpserted"}

Clash(e, f) ==
    e.cmd = f.cmd /\ (e.type = f.type \/ {e.type, f.type} \subseteq Payloads)
Once(s) == \A i, j \in DOMAIN s : i # j => ~Clash(s[i], s[j])

\* However requests, retries, a start and crashes interleave, a request_id
\* takes effect at most once, has at most one receipt, and a server gets one
\* first credential (decideContext, the receipts, ensureServerCredentials and
\* the expectedVersion of Append together).
CommandOnce == \A r \in Runs : Once(journal[r])

\* managedRun.users counts the requests between open and release, and a
\* session with users is never evicted, so no two sessions of a run coexist.
UsersCounted ==
    \A r \in Runs :
        LET using == {q \in Requests : Run(q) = r /\ pc[q] \in Opened}
        IN users[r] = Cardinality(using) /\ (using # {} => r \in sessions)

\* Between gate.TryLock and gate.Unlock a request holds the gate of its run and
\* has the run to itself, across evictions, reopenings and errors.
GateExcludes ==
    /\ \A q \in Requests : pc[q] \in Gated => gate[Run(q)]
    /\ \A q, p \in Requests : pc[q] \in Gated /\ pc[p] \in Gated /\ Run(q) = Run(p) => q = p

\* Beyond the limit only sessions in use stay in memory, once open returns.
CacheBounded ==
    Cardinality({r \in sessions : users[r] = 0}) > 0 => Cardinality(sessions) <= MaxRuns

\* A reply 200 to a command means that its effect is durable, and under the
\* payload that was asked for, crash or no crash.
AckDurable ==
    \A q \in Requests :
        outcome[q] = "ok" /\ KindOf[q] \in {"advance", "create", "upsert"} =>
            CommandOf[q] \in Of(journal[Run(q)], PayloadType(q))

\* An audit is closed as "interrupted by simulator restart" only after a
\* restart or an I/O error: open never does so to a request still in flight.
InterruptedByRestart ==
    \A q \in Requests : audit[q] = "interrupted" => crashes > 0 \/ faults > 0

\* The same for the audits of /v2/start, which shares the stream.
StartInterruptedByRestart ==
    \A s \in Starts : audit[s] = "interrupted" => crashes > 0 \/ faults > 0

\* With no I/O error, a run in memory has no audit left open except that of
\* the request that holds its gate: recovery at open settles the others.
AuditsSettled ==
    faults = 0 =>
        \A q \in Requests : Run(q) \in sessions /\ audit[q] = "received" => pc[q] \in Gated

\* The managed session applies every event that is appended to its run.
SessionCurrent == \A r \in sessions : view[r] = journal[r]

Advances(r) == {i \in DOMAIN journal[r] : journal[r][i].type = "TimeAdvanced"}

\* The intervals of real time that advance a run never overlap: no second of
\* real time is charged twice.
NoDoubleCount ==
    \A r \in Runs : \A i, j \in Advances(r) :
        i < j => journal[r][i].upto <= journal[r][j].from

\* Up to last_real_request_at every second of real time has advanced the run,
\* as long as the run lasts: none is skipped.
NoTimeLost ==
    \A r \in Runs :
        LET charged(s) == UNION {(journal[r][i].from + 1)..journal[r][i].upto : i \in s}
        IN Completed(journal[r]) \/ 1..lastReal[r] \subseteq charged(Advances(r))

\* A repeated command gets the saved answer or, when its first attempt failed
\* half-way, is finished: a retry of the same command never conflicts.
RetryAccepted ==
    \A q, p \in Requests :
        /\ q # p /\ Run(q) = Run(p) /\ CommandOf[q] = CommandOf[p] /\ KindOf[q] = KindOf[p]
        => outcome[q] # "mismatch"

\* A repeated start of an initialised run is answered.
StartRepeatable == \A s \in Starts : startPc[s] # "stale"

\* A request between open and release is answered, and open is never held for
\* good (TryLock never waits, and every exit releases what it took).
Answered == \A q \in Requests : pc[q] \in InFlight ~> pc[q] = "done"
===============================================================================
